--------------------------- MODULE RetrievalProof ---------------------------
(***************************************************************************)
(* Theorems about Retrieval, for any numbers of items, operations and      *)
(* turns, any configuration and any scores.                                *)
(***************************************************************************)
EXTENDS Retrieval, KnowledgeIndexProof

USE DEF turnVars

(***************************************************************************)
(* Every interleaving                                                      *)
(***************************************************************************)

\* A turn leaves the knowledge base alone, but for the count of failures.
LEMMA TurnKeeps ==
    ASSUME TypeOK, NEW t \in Turns, TurnNext(t)
    PROVE  UNCHANGED << rows, point, locals >> /\ failures' \in Nat
BY DEF TypeOK, TurnNext, Query, LoadRows, Grade, TurnFails, vars

LEMMA BaseTypeStep ==
    ASSUME TypeOK, [RetrievalNext]_<< vars, turnVars >>
    PROVE  TypeOK'
<1>1. ASSUME NEW t \in Turns, TurnNext(t) PROVE TypeOK'
      BY <1>1, TurnKeeps DEF TypeOK, rows, locals
<1>2. CASE [Next]_vars
      BY <1>2, TypeStep
<1>. QED  BY <1>1, <1>2 DEF RetrievalNext

LEMMA BaseNotAheadStep ==
    ASSUME TypeOK, NotAhead, [RetrievalNext]_<< vars, turnVars >>
    PROVE  NotAhead'
<1>1. ASSUME NEW t \in Turns, TurnNext(t) PROVE NotAhead'
      BY <1>1, TurnKeeps DEF NotAhead, rows, locals
<1>2. CASE [Next]_vars
      BY <1>2, NotAheadStep
<1>. QED  BY <1>1, <1>2 DEF RetrievalNext

LEMMA TurnTypeStep ==
    ASSUME TypeOK, RetrievalTypeOK, [RetrievalNext]_<< vars, turnVars >>
    PROVE  RetrievalTypeOK'
<1>1. ASSUME NEW t \in Turns, Query(t) PROVE RetrievalTypeOK'
  <2>1. PICK S \in Nearest :
           /\ found' = [found EXCEPT ![t] = [i \in Items |-> IF i \in S THEN point[i] ELSE 0]]
           /\ \E score \in IF S = {} THEN {0} ELSE Scores :
                  confident' = [confident EXCEPT ![t] = score >= InUse(Threshold, 35)]
        BY <1>1 DEF Query
  <2>2. [i \in Items |-> IF i \in S THEN point[i] ELSE 0] \in [Items -> Nat]
        BY DEF TypeOK
  <2>3. found' \in [Turns -> [Items -> Nat]]  BY <2>1, <2>2 DEF RetrievalTypeOK
  <2>4. confident' \in [Turns -> BOOLEAN]  BY <2>1 DEF RetrievalTypeOK
  <2>5. hits' \in [Turns -> [Items -> Nat]]  BY <1>1 DEF Query, RetrievalTypeOK, NoVersions
  <2>6. stage' \in [Turns -> Stage]  BY <1>1 DEF Query, RetrievalTypeOK, Stage
  <2>. QED  BY <2>3, <2>4, <2>5, <2>6 DEF RetrievalTypeOK
<1>2. ASSUME NEW t \in Turns, LoadRows(t) PROVE RetrievalTypeOK'
  <2>1. [i \in Items |-> IF found[t][i] > 0 /\ i \in live THEN version[i] ELSE 0]
            \in [Items -> Nat]
        BY DEF TypeOK
  <2>. QED  BY <1>2, <2>1 DEF LoadRows, RetrievalTypeOK, Stage
<1>3. ASSUME NEW t \in Turns, Grade(t) PROVE RetrievalTypeOK'
      BY <1>3 DEF Grade, RetrievalTypeOK, Stage
<1>4. ASSUME NEW t \in Turns, TurnFails(t) PROVE RetrievalTypeOK'
      BY <1>4 DEF TurnFails, RetrievalTypeOK, Stage
<1>5. CASE UNCHANGED turnVars
      BY <1>5 DEF RetrievalTypeOK
<1>. QED  BY <1>1, <1>2, <1>3, <1>4, <1>5 DEF RetrievalNext, TurnNext

LEMMA TypesInit == RetrievalInit => TypeOK /\ RetrievalTypeOK /\ NotAhead
BY DEF RetrievalInit, RetrievalTypeOK, Stage, Init, TypeOK, Place, NoVersions,
       NotAhead

\* Every variable of the knowledge base and of the turns keeps its type.
THEOREM RetrievalTypeCorrect == RetrievalSpec => [](TypeOK /\ RetrievalTypeOK)
<1>1. TypeOK /\ RetrievalTypeOK /\ [RetrievalNext]_<< vars, turnVars >>
          => TypeOK' /\ RetrievalTypeOK'
      BY BaseTypeStep, TurnTypeStep
<1>. QED  BY <1>1, TypesInit, PTL DEF RetrievalSpec

\* Texts only grow.
LEMMA VersionGrows ==
    ASSUME TypeOK, [RetrievalNext]_<< vars, turnVars >>
    PROVE  \A i \in Items : version'[i] >= version[i]
<1>1. ASSUME NEW p \in Writers, NEW S, Insert(p, S)
      PROVE  \A i \in Items : version'[i] >= version[i]
      BY <1>1 DEF Insert, Fresh, TypeOK
<1>2. ASSUME NEW p \in Writers, NEW i \in Items, UpdateItem(p, i)
      PROVE  \A j \in Items : version'[j] >= version[j]
      BY <1>2 DEF UpdateItem, TypeOK
<1>3. ASSUME NEW p \in Writers, NEW i \in Items, DeleteItem(p, i)
      PROVE  UNCHANGED version
      BY <1>3 DEF DeleteItem
<1>4. ASSUME NEW k \in Workers, Scan(k) PROVE UNCHANGED version
      BY <1>4 DEF Scan, rows
<1>5. ASSUME NEW p \in Procs, IndexNext(p) \/ Fail(p) PROVE UNCHANGED version
      BY <1>5 DEF IndexNext, IndexRead, IndexUpsert, IndexCommit, IndexRefused,
                  DeletePoint, Fail, rows
<1>6. ASSUME NEW t \in Turns, TurnNext(t) PROVE UNCHANGED version
      BY <1>6, TurnKeeps DEF rows
<1>7. CASE UNCHANGED vars
      BY <1>7 DEF vars, rows, TypeOK
<1>8. UNCHANGED version => \A i \in Items : version'[i] >= version[i]
      BY DEF TypeOK
<1>. QED  BY <1>1, <1>2, <1>3, <1>4, <1>5, <1>6, <1>7, <1>8
             DEF RetrievalNext, Next, WriterNext, CreateItem, ImportMarkdown

\* What a turn has found is a text that was committed before.
FoundInv ==
    /\ \A t \in Turns : \A i \in Items : found[t][i] <= version[i]
    /\ TextNotOlderThanScore

LEMMA FoundStep ==
    ASSUME TypeOK, RetrievalTypeOK, NotAhead, FoundInv,
           [RetrievalNext]_<< vars, turnVars >>
    PROVE  FoundInv'
<1>1. \A i \in Items : version'[i] \in Nat /\ version'[i] >= version[i]
      BY VersionGrows, BaseTypeStep DEF TypeOK
<1>2. ASSUME NEW t \in Turns, Query(t) PROVE FoundInv'
  <2>1. PICK S \in Nearest :
           found' = [found EXCEPT ![t] = [i \in Items |-> IF i \in S THEN point[i] ELSE 0]]
        BY <1>2 DEF Query
  <2>2. \A i \in Items : found'[t][i] = IF i \in S THEN point[i] ELSE 0
        BY <2>1 DEF RetrievalTypeOK
  <2>3. \A u \in Turns \ {t} : found'[u] = found[u] /\ hits'[u] = hits[u]
        BY <1>2, <2>1 DEF Query, RetrievalTypeOK
  <2>4. \A i \in Items : hits'[t][i] = 0
        BY <1>2 DEF Query, RetrievalTypeOK, NoVersions
  <2>5. \A i \in Items : version'[i] = version[i]
        BY <1>2 DEF Query, vars, rows
  <2>6. \A u \in Turns : \A i \in Items : found'[u][i] <= version'[i]
        BY <2>2, <2>3, <2>5 DEF FoundInv, NotAhead, TypeOK
  <2>7. TextNotOlderThanScore'
        BY <2>3, <2>4 DEF FoundInv, TextNotOlderThanScore, Hits
  <2>. QED  BY <2>6, <2>7 DEF FoundInv
<1>3. ASSUME NEW t \in Turns, LoadRows(t) PROVE FoundInv'
  <2>1. \A i \in Items : version'[i] = version[i]
        BY <1>3 DEF LoadRows, vars, rows
  <2>2. found' = found  BY <1>3 DEF LoadRows
  <2>3. \A u \in Turns \ {t} : hits'[u] = hits[u]
        BY <1>3 DEF LoadRows, RetrievalTypeOK
  <2>4. \A i \in Items : hits'[t][i] =
                             IF found[t][i] > 0 /\ i \in live THEN version[i] ELSE 0
        BY <1>3 DEF LoadRows, RetrievalTypeOK
  <2>5. TextNotOlderThanScore'
        BY <2>2, <2>3, <2>4 DEF FoundInv, TextNotOlderThanScore, Hits, TypeOK
  <2>. QED  BY <2>1, <2>2, <2>5 DEF FoundInv
<1>4. CASE UNCHANGED << found, hits >>
  <2>1. TextNotOlderThanScore'
        BY <1>4 DEF FoundInv, TextNotOlderThanScore, Hits
  <2>2. \A u \in Turns : \A i \in Items : found'[u][i] <= version'[i]
        BY <1>1, <1>4 DEF FoundInv, RetrievalTypeOK, TypeOK
  <2>. QED  BY <2>1, <2>2 DEF FoundInv
<1>5. ASSUME NEW t \in Turns, Grade(t) \/ TurnFails(t) PROVE UNCHANGED << found, hits >>
      BY <1>5 DEF Grade, TurnFails
<1>. QED  BY <1>2, <1>3, <1>4, <1>5 DEF RetrievalNext, TurnNext

\* The model is never given a text older than the one whose score decided, in
\* any interleaving of searches, updates and index operations.
THEOREM NeverOlder == RetrievalSpec => []TextNotOlderThanScore
<1>1. RetrievalInit => FoundInv
      BY DEF RetrievalInit, Init, NoVersions, FoundInv, TextNotOlderThanScore, Hits
<1>2. TypeOK /\ RetrievalTypeOK /\ NotAhead /\ FoundInv
          /\ [RetrievalNext]_<< vars, turnVars >>
              => TypeOK' /\ RetrievalTypeOK' /\ NotAhead' /\ FoundInv'
      BY BaseTypeStep, TurnTypeStep, BaseNotAheadStep, FoundStep
<1>3. FoundInv => TextNotOlderThanScore  BY DEF FoundInv
<1>. QED  BY <1>1, <1>2, <1>3, TypesInit, PTL DEF RetrievalSpec

\* A row that is gone stays gone: its id is not handed out again.
LEMMA GoneForGood ==
    ASSUME TypeOK, [RetrievalNext]_<< vars, turnVars >>,
           NEW i \in Items, i \notin live, version[i] > 0
    PROVE  i \notin live'
<1>1. ASSUME NEW p \in Writers, NEW S, Insert(p, S) PROVE i \notin live'
      BY <1>1 DEF Insert, Fresh
<1>2. ASSUME NEW p \in Writers, NEW j \in Items, UpdateItem(p, j) \/ DeleteItem(p, j)
      PROVE  i \notin live'
      BY <1>2 DEF UpdateItem, DeleteItem
<1>3. ASSUME NEW k \in Workers, Scan(k) PROVE UNCHANGED live
      BY <1>3 DEF Scan, rows
<1>4. ASSUME NEW p \in Procs, IndexNext(p) \/ Fail(p) PROVE UNCHANGED live
      BY <1>4 DEF IndexNext, IndexRead, IndexUpsert, IndexCommit, IndexRefused,
                  DeletePoint, Fail, rows
<1>5. ASSUME NEW t \in Turns, TurnNext(t) PROVE UNCHANGED live
      BY <1>5, TurnKeeps DEF rows
<1>6. CASE UNCHANGED vars
      BY <1>6 DEF vars, rows
<1>. QED  BY <1>1, <1>2, <1>3, <1>4, <1>5, <1>6
             DEF RetrievalNext, Next, WriterNext, CreateItem, ImportMarkdown

\* A confident turn has found something, and what it has found and was not given
\* is gone.
HitsInv ==
    /\ \A i \in live : version[i] > 0
    /\ \A t \in Turns : confident[t] /\ Threshold >= 0 => \E i \in Items : found[t][i] > 0
    /\ \A t \in Turns : stage[t] = "answered" => confident[t]
    /\ \A t \in Turns : stage[t] \in {"loaded", "answered"} =>
           \A i \in live : found[t][i] > 0 => hits[t][i] > 0

\* Only a negative threshold lets a search that finds nothing through.
LEMMA ConfidentFinds ==
    ASSUME NEW S \in Nearest, NEW score \in (IF S = {} THEN {0} ELSE Scores),
           score >= InUse(Threshold, 35), Threshold >= 0
    PROVE  \E i \in S : i \in Items /\ point[i] > 0
<1>1. S # {}
  <2>1. S = {} => score = 0  OBVIOUS
  <2>2. ~(0 >= InUse(Threshold, 35))  BY ConfigAssumption DEF InUse
  <2>. QED  BY <2>1, <2>2
<1>2. S \subseteq Pointed  BY DEF Nearest
<1>. QED  BY <1>1, <1>2 DEF Pointed

LEMMA HitsStep ==
    ASSUME TypeOK, RetrievalTypeOK, FoundInv, HitsInv,
           [RetrievalNext]_<< vars, turnVars >>
    PROVE  HitsInv'
<1>1. \A i \in Items : version[i] \in Nat /\ version'[i] \in Nat /\ version'[i] >= version[i]
      BY VersionGrows, BaseTypeStep DEF TypeOK
<1>2. live \subseteq Items /\ live' \subseteq Items
      BY BaseTypeStep DEF TypeOK
<1>3. \A i \in live' : version'[i] > 0
  <2>1. ASSUME NEW p \in Writers, NEW S, Insert(p, S), NEW i \in live' PROVE version'[i] > 0
        BY <1>1, <1>2, <2>1 DEF Insert, HitsInv
  <2>2. ASSUME NEW i \in live', i \in live PROVE version'[i] > 0
        BY <1>1, <1>2, <2>2 DEF HitsInv
  <2>3. ASSUME NEW p \in Writers, NEW j \in Items, UpdateItem(p, j) \/ DeleteItem(p, j)
        PROVE  live' \subseteq live
        BY <2>3 DEF UpdateItem, DeleteItem
  <2>4. ASSUME NEW k \in Workers, Scan(k) PROVE UNCHANGED live
        BY <2>4 DEF Scan, rows
  <2>5. ASSUME NEW p \in Procs, IndexNext(p) \/ Fail(p) PROVE UNCHANGED live
        BY <2>5 DEF IndexNext, IndexRead, IndexUpsert, IndexCommit, IndexRefused,
                    DeletePoint, Fail, rows
  <2>6. ASSUME NEW t \in Turns, TurnNext(t) PROVE UNCHANGED live
        BY <2>6, TurnKeeps DEF rows
  <2>7. CASE UNCHANGED vars
        BY <2>2, <2>7 DEF vars, rows
  <2>. QED  BY <2>1, <2>2, <2>3, <2>4, <2>5, <2>6, <2>7
               DEF RetrievalNext, Next, WriterNext, CreateItem, ImportMarkdown
\* What is live afterwards and was found before, was live before.
<1>4. ASSUME NEW t \in Turns, NEW i \in live', found[t][i] > 0 PROVE i \in live
  <2>1. i \in Items /\ found[t][i] \in Nat  BY <1>2 DEF RetrievalTypeOK
  <2>2. found[t][i] <= version[i]  BY <2>1 DEF FoundInv
  <2>3. version[i] > 0  BY <1>1, <1>4, <2>1, <2>2
  <2>. QED  BY <2>1, <2>3, GoneForGood
<1>5. ASSUME NEW t \in Turns, Query(t) PROVE HitsInv'
  <2>1. PICK S \in Nearest :
           /\ found' = [found EXCEPT ![t] = [i \in Items |-> IF i \in S THEN point[i] ELSE 0]]
           /\ \E score \in IF S = {} THEN {0} ELSE Scores :
                  confident' = [confident EXCEPT ![t] = score >= InUse(Threshold, 35)]
        BY <1>5 DEF Query
  <2>2. PICK score \in IF S = {} THEN {0} ELSE Scores :
           confident' = [confident EXCEPT ![t] = score >= InUse(Threshold, 35)]
        BY <2>1
  <2>3. confident'[t] = (score >= InUse(Threshold, 35))
        BY <2>2 DEF RetrievalTypeOK
  <2>4. \A i \in Items : found'[t][i] = IF i \in S THEN point[i] ELSE 0
        BY <2>1 DEF RetrievalTypeOK
  <2>5. confident'[t] /\ Threshold >= 0 => \E i \in Items : found'[t][i] > 0
    <3>. SUFFICES ASSUME confident'[t], Threshold >= 0
                  PROVE  \E i \in Items : found'[t][i] > 0
         OBVIOUS
    <3>1. score >= InUse(Threshold, 35)  BY <2>3
    <3>2. PICK i \in S : i \in Items /\ point[i] > 0  BY <3>1, ConfidentFinds
    <3>. QED  BY <2>4, <3>2
  <2>6. stage'[t] = "queried"  BY <1>5 DEF Query, RetrievalTypeOK
  <2>7. \A u \in Turns \ {t} : /\ stage'[u] = stage[u] /\ found'[u] = found[u]
                               /\ hits'[u] = hits[u] /\ confident'[u] = confident[u]
        BY <1>5, <2>1, <2>2 DEF Query, RetrievalTypeOK
  <2>8. UNCHANGED live  BY <1>5 DEF Query, vars, rows
  <2>. QED  BY <1>3, <2>5, <2>6, <2>7, <2>8 DEF HitsInv
<1>6. ASSUME NEW t \in Turns, LoadRows(t) PROVE HitsInv'
  <2>1. found' = found /\ confident' = confident /\ UNCHANGED << version, live >>
        BY <1>6 DEF LoadRows, vars, rows
  <2>2. \A i \in Items : hits'[t][i] =
                             IF found[t][i] > 0 /\ i \in live THEN version[i] ELSE 0
        BY <1>6 DEF LoadRows, RetrievalTypeOK
  <2>3. \A i \in live : found[t][i] > 0 => hits'[t][i] > 0
        BY <1>2, <2>2 DEF HitsInv
  <2>4. stage'[t] = "loaded" /\ \A u \in Turns \ {t} : stage'[u] = stage[u] /\ hits'[u] = hits[u]
        BY <1>6 DEF LoadRows, RetrievalTypeOK
  <2>. QED  BY <1>3, <2>1, <2>3, <2>4 DEF HitsInv
<1>7. ASSUME NEW t \in Turns, Grade(t) PROVE HitsInv'
  <2>1. /\ stage[t] = "loaded"
        /\ stage'[t] = IF confident[t] THEN "answered" ELSE "escalated"
        /\ UNCHANGED << found, confident, hits, live >>
        /\ \A u \in Turns \ {t} : stage'[u] = stage[u]
        BY <1>7 DEF Grade, RetrievalTypeOK, vars, rows
  <2>. QED  BY <1>3, <2>1 DEF HitsInv
<1>8. ASSUME NEW t \in Turns, TurnFails(t) PROVE HitsInv'
  <2>1. /\ stage'[t] = "escalated"
        /\ UNCHANGED << found, confident, hits, live >>
        /\ \A u \in Turns \ {t} : stage'[u] = stage[u]
        BY <1>8 DEF TurnFails, RetrievalTypeOK, rows
  <2>. QED  BY <1>3, <2>1 DEF HitsInv
<1>9. CASE UNCHANGED turnVars
  <2>1. UNCHANGED << stage, found, confident, hits >>  BY <1>9
  <2>2. \A t \in Turns : stage[t] \in {"loaded", "answered"} =>
            \A i \in live' : found[t][i] > 0 => hits[t][i] > 0
        BY <1>4 DEF HitsInv
  <2>. QED  BY <1>3, <2>1, <2>2 DEF HitsInv
<1>. QED  BY <1>5, <1>6, <1>7, <1>8, <1>9 DEF RetrievalNext, TurnNext

\* With any threshold that is not negative, 0 included, and whatever overlaps and
\* fails, the engine answers without a row only if each of the rows the search
\* found has been deleted.
THEOREM UngroundedIsDeleted == RetrievalSpec => []UngroundedOnlyByDeletion
<1>1. RetrievalInit => FoundInv /\ HitsInv
      BY DEF RetrievalInit, Init, NoVersions, FoundInv, TextNotOlderThanScore, Hits, HitsInv
<1>2. TypeOK /\ RetrievalTypeOK /\ NotAhead /\ FoundInv /\ HitsInv
          /\ [RetrievalNext]_<< vars, turnVars >>
              => TypeOK' /\ RetrievalTypeOK' /\ NotAhead' /\ FoundInv' /\ HitsInv'
      BY BaseTypeStep, TurnTypeStep, BaseNotAheadStep, FoundStep, HitsStep
<1>3. TypeOK /\ RetrievalTypeOK /\ HitsInv => UngroundedOnlyByDeletion
  <2>. SUFFICES ASSUME TypeOK, RetrievalTypeOK, HitsInv, NEW t \in Turns,
                       stage[t] = "answered", Hits(t) = {}, ~(Threshold < 0)
                PROVE  /\ \E i \in Items : found[t][i] > 0
                       /\ \A i \in live : found[t][i] = 0
       BY DEF UngroundedOnlyByDeletion
  <2>1. Threshold >= 0  BY ConfigAssumption
  <2>2. confident[t]  BY DEF HitsInv
  <2>3. \E i \in Items : found[t][i] > 0  BY <2>1, <2>2 DEF HitsInv
  <2>4. ASSUME NEW i \in live PROVE found[t][i] = 0
    <3>1. i \in Items /\ found[t][i] \in Nat  BY DEF TypeOK, RetrievalTypeOK
    <3>2. ~(hits[t][i] > 0)  BY <3>1 DEF Hits
    <3>3. ~(found[t][i] > 0)  BY <3>2 DEF HitsInv
    <3>. QED  BY <3>1, <3>3
  <2>. QED  BY <2>3, <2>4
<1>. QED  BY <1>1, <1>2, <1>3, TypesInit, PTL DEF RetrievalSpec

(***************************************************************************)
(* Operations and turns that overlap, but not on an item, and nothing      *)
(* fails but what the gateway refuses                                      *)
(***************************************************************************)

\* No two operations under way are about the same item, and none is about an
\* item that a turn under way has found.
RetrievalApart ==
    /\ Apart
    /\ \A t \in Turns, p \in Procs :
           Underway(t) /\ pc[p] # "idle" => \A i \in ids[p] : found[t][i] = 0

\* The same code when operations and turns overlap on different items only.
RetrievalApartSpec ==
    RetrievalInit /\ [][RetrievalNext /\ RetrievalApart']_<< vars, turnVars >>

\* A point of row i is that of its present text, or the operation that will
\* replace it is at work on i alone.
RowFits(i) ==
    i \in live /\ point[i] > 0 /\ point[i] # version[i] =>
        \E p \in Procs : pc[p] \in {"index", "embed"} /\ ids[p] = {i}

\* A point without a row has its removal under way.
OrphanFits(i) ==
    i \notin live /\ point[i] > 0 => \E p \in Procs : pc[p] = "unindex" /\ i \in ids[p]

\* What the gateway refuses has no point.
ItemFits(i) == RowFits(i) /\ OrphanFits(i) /\ (i \in Refused => point[i] = 0)

BatchFits(p) == pc[p] \in {"embed", "upserted"} => Batch(p) = ids[p] \cap live

\* So nothing is left behind when the gateway refuses a batch.
Fit == (\A i \in Items : ItemFits(i)) /\ (\A p \in Procs : BatchFits(p))

\* The operation at work on an item is the only one, so that what the item's
\* point waits for is done by that operation.
LEMMA OwnItems ==
    ASSUME TypeOK, Apart, Fit, NEW p \in Procs, pc[p] # "idle", NEW i \in ids[p]
    PROVE  /\ i \in live /\ point[i] > 0 /\ point[i] # version[i] =>
                  pc[p] \in {"index", "embed"} /\ ids[p] = {i}
           /\ i \notin live /\ point[i] > 0 => pc[p] = "unindex"
           /\ i \in Refused => point[i] = 0
<1>1. i \in Items /\ ItemFits(i)  BY DEF TypeOK, Fit
<1>2. ASSUME NEW q \in Procs, pc[q] # "idle", i \in ids[q] PROVE q = p
      BY <1>2 DEF Apart
<1>3. CASE i \in live
  <2>1. point[i] > 0 /\ point[i] # version[i] => pc[p] \in {"index", "embed"} /\ ids[p] = {i}
        BY <1>1, <1>2, <1>3 DEF ItemFits, RowFits
  <2>. QED  BY <1>1, <1>3, <2>1 DEF ItemFits
<1>4. CASE i \notin live
      BY <1>1, <1>2, <1>4 DEF ItemFits, OrphanFits
<1>. QED  BY <1>3, <1>4

\* A step of p is about what p was, or is then, asked for: it is enough that
\* this fits afterwards.
LEMMA FitLocal ==
    ASSUME TypeOK, ApartInv, Apart, Apart', ApartInv', Fit, NEW p \in Procs,
           \A q \in Procs \ {p} : pc'[q] = pc[q] /\ ids'[q] = ids[q] /\ snap'[q] = snap[q],
           \A i \in Items \ (ids[p] \cup ids'[p]) :
               /\ version'[i] = version[i] /\ point'[i] = point[i]
               /\ i \in live' <=> i \in live,
           \A i \in Items : i \in ids[p] \cup ids'[p] => ItemFits(i)',
           BatchFits(p)'
    PROVE  Fit'
<1>1. ASSUME NEW q \in Procs \ {p}, pc[q] # "idle", NEW i \in ids[q]
      PROVE  i \notin ids[p] \cup ids'[p]
  <2>1. i \notin ids[p]
    <3>1. CASE pc[p] = "idle"  BY <3>1 DEF ApartInv
    <3>2. CASE pc[p] # "idle"  BY <1>1, <3>2 DEF Apart
    <3>. QED  BY <3>1, <3>2
  <2>2. i \notin ids'[p]
    <3>1. CASE pc'[p] = "idle"  BY <3>1 DEF ApartInv
    <3>2. CASE pc'[p] # "idle"  BY <1>1, <3>2 DEF Apart
    <3>. QED  BY <3>1, <3>2
  <2>. QED  BY <2>1, <2>2
<1>2. ASSUME NEW i \in Items, i \notin ids[p] \cup ids'[p] PROVE ItemFits(i)'
  <2>1. /\ version'[i] = version[i] /\ point'[i] = point[i]
        /\ i \in live' <=> i \in live
        BY <1>2
  <2>2. ItemFits(i)  BY DEF Fit
  <2>3. RowFits(i)'
    <3>1. \A q \in Procs : ids[q] = {i} => pc'[q] = pc[q] /\ ids'[q] = ids[q]
          BY <1>2
    <3>. QED  BY <2>1, <2>2, <3>1 DEF ItemFits, RowFits
  <2>4. OrphanFits(i)'
    <3>1. \A q \in Procs : i \in ids[q] => pc'[q] = pc[q] /\ ids'[q] = ids[q]
          BY <1>2
    <3>. QED  BY <2>1, <2>2, <3>1 DEF ItemFits, OrphanFits
  <2>. QED  BY <2>1, <2>2, <2>3, <2>4 DEF ItemFits
<1>3. ASSUME NEW q \in Procs \ {p} PROVE BatchFits(q)'
  <2>. SUFFICES ASSUME pc'[q] \in {"embed", "upserted"}
                PROVE  Batch(q)' = ids'[q] \cap live'
       BY DEF BatchFits
  <2>1. pc[q] # "idle" /\ Batch(q) = ids[q] \cap live  BY DEF Fit, BatchFits
  <2>2. Batch(q)' = Batch(q)  BY DEF Batch
  <2>3. ids[q] \cap live' = ids[q] \cap live  BY <1>1, <2>1 DEF TypeOK
  <2>. QED  BY <2>1, <2>2, <2>3
<1>. QED  BY <1>2, <1>3 DEF Fit

\* What an operation leaves alone when it begins.
LEMMA Begins ==
    ASSUME TypeOK, ApartInv, NEW p \in Procs, NEW l \in {"index", "unindex"},
           NEW S \in SUBSET Items, Begin(p, l, S)
    PROVE  /\ pc[p] = "idle" /\ pc'[p] = l /\ ids[p] = {} /\ ids'[p] = S
           /\ \A q \in Procs \ {p} : pc'[q] = pc[q] /\ ids'[q] = ids[q] /\ snap'[q] = snap[q]
           /\ point' = point
           /\ BatchFits(p)'
BY DEF Begin, TypeOK, ApartInv, BatchFits

\* An operation that begins starts on items that have no other.
LEMMA Unattended ==
    ASSUME TypeOK, ApartInv, Apart, Apart', Fit, NEW p \in Procs,
           NEW l \in {"index", "unindex"}, NEW S \in SUBSET Items, Begin(p, l, S),
           NEW i \in S
    PROVE  /\ i \in live => point[i] = 0 \/ point[i] = version[i]
           /\ i \notin live => point[i] = 0
           /\ i \in Refused => point[i] = 0
<1>1. /\ pc[p] = "idle" /\ pc'[p] = l /\ ids[p] = {} /\ ids'[p] = S
      /\ \A q \in Procs \ {p} : pc'[q] = pc[q] /\ ids'[q] = ids[q]
      BY Begins
<1>2. ASSUME NEW q \in Procs, pc[q] # "idle" PROVE i \notin ids[q]
  <2>1. q # p /\ pc'[q] # "idle" /\ ids'[q] = ids[q]  BY <1>1, <1>2
  <2>2. pc'[p] # "idle"  BY <1>1
  <2>3. ids'[p] \cap ids'[q] = {}  BY <2>1, <2>2 DEF Apart
  <2>. QED  BY <1>1, <2>1, <2>3
<1>3. ItemFits(i) /\ point[i] \in Nat /\ ~(\E q \in Procs : pc[q] # "idle" /\ i \in ids[q])
      BY <1>2 DEF Fit, TypeOK
<1>4. CASE i \in live
  <2>1. ~(point[i] > 0 /\ point[i] # version[i])
        BY <1>3, <1>4 DEF ItemFits, RowFits
  <2>. QED  BY <1>3, <1>4, <2>1 DEF ItemFits
<1>5. CASE i \notin live
  <2>1. ~(point[i] > 0)  BY <1>3, <1>5 DEF ItemFits, OrphanFits
  <2>. QED  BY <1>3, <1>5, <2>1
<1>. QED  BY <1>4, <1>5

LEMMA FitBegins ==
    ASSUME TypeOK, NotAhead, ApartInv, ApartInv', Apart, Apart', Fit,
           \/ \E p \in Writers : WriterNext(p)
           \/ \E k \in Workers : Scan(k)
    PROVE  Fit'
<1>1. ASSUME NEW p \in Writers, NEW S, Insert(p, S) PROVE Fit'
  <2>1. S \in SUBSET Items /\ p \in Procs /\ Begin(p, "index", S)
        BY <1>1, ProcsParts DEF Insert, Fresh
  <2>2. \A i \in Items \ S : version'[i] = version[i] /\ (i \in live' <=> i \in live)
        BY <1>1 DEF Insert
  <2>3. ASSUME NEW i \in S PROVE ItemFits(i)'
    <3>1. i \in Items /\ version[i] = 0  BY <1>1 DEF Insert, Fresh
    <3>2. point[i] = 0  BY <3>1 DEF NotAhead, TypeOK
    <3>3. point' = point  BY <2>1, Begins
    <3>. QED  BY <3>2, <3>3 DEF ItemFits, RowFits, OrphanFits
  <2>. QED  BY <2>1, <2>2, <2>3, Begins, FitLocal
<1>2. ASSUME NEW p \in Writers, NEW i \in Items, UpdateItem(p, i) PROVE Fit'
  <2>1. {i} \in SUBSET Items /\ p \in Procs /\ Begin(p, "index", {i})
        BY <1>2, ProcsParts DEF UpdateItem
  <2>2. live' = live /\ \A j \in Items \ {i} : version'[j] = version[j]
        BY <1>2 DEF UpdateItem, TypeOK
  <2>3. ItemFits(i)'
    <3>1. point' = point /\ pc'[p] = "index" /\ ids'[p] = {i}  BY <2>1, Begins
    <3>2. i \notin live => point[i] = 0  BY <2>1, Unattended
    <3>3. i \in Refused => point[i] = 0  BY <2>1, Unattended
    <3>. QED  BY <2>1, <2>2, <3>1, <3>2, <3>3 DEF ItemFits, RowFits, OrphanFits
  <2>. QED  BY <2>1, <2>2, <2>3, Begins, FitLocal
<1>3. ASSUME NEW p \in Writers, NEW i \in Items, DeleteItem(p, i) PROVE Fit'
  <2>1. {i} \in SUBSET Items /\ p \in Procs /\ Begin(p, "unindex", {i})
        BY <1>3, ProcsParts DEF DeleteItem
  <2>2. live' = live \ {i} /\ version' = version
        BY <1>3 DEF DeleteItem
  <2>3. ItemFits(i)'
    <3>1. point' = point /\ pc'[p] = "unindex" /\ ids'[p] = {i}  BY <2>1, Begins
    <3>2. i \in Refused => point[i] = 0  BY <2>1, Unattended
    <3>. QED  BY <2>1, <2>2, <3>1, <3>2 DEF ItemFits, RowFits, OrphanFits
  <2>. QED  BY <2>1, <2>2, <2>3, Begins, FitLocal
<1>4. ASSUME NEW k \in Workers, Scan(k) PROVE Fit'
  <2>1. live \ indexed \in SUBSET Items /\ k \in Procs /\ Begin(k, "index", live \ indexed)
        BY <1>4, ProcsParts DEF Scan, TypeOK
  <2>2. live' = live /\ version' = version
        BY <1>4 DEF Scan, rows
  <2>3. ASSUME NEW i \in live \ indexed PROVE ItemFits(i)'
    <3>1. point' = point  BY <2>1, Begins
    <3>2. point[i] = 0 \/ point[i] = version[i]  BY <2>1, Unattended
    <3>3. i \in Refused => point[i] = 0  BY <2>1, Unattended
    <3>. QED  BY <2>2, <3>1, <3>2, <3>3 DEF ItemFits, RowFits, OrphanFits
  <2>. QED  BY <2>1, <2>2, <2>3, Begins, FitLocal
<1>. QED  BY <1>1, <1>2, <1>3, <1>4 DEF WriterNext, CreateItem, ImportMarkdown

LEMMA FitIndexes ==
    ASSUME TypeOK, ApartInv, ApartInv', Apart, Apart', Fit, NEW p \in Procs, IndexNext(p)
    PROVE  Fit'
<1>1. pc[p] # "idle" /\ version' = version /\ live' = live
      BY DEF IndexNext, IndexRead, IndexUpsert, IndexCommit, IndexRefused, DeletePoint, rows
<1>2. ids[p] \subseteq Items /\ live \subseteq Items /\ point \in [Items -> Nat]
      BY DEF TypeOK
\* What is through leaves points that fit by themselves.
<1>3. ASSUME End(p), \A i \in Items \ ids[p] : point'[i] = point[i],
             \A i \in ids[p] : /\ i \in live => point'[i] = 0 \/ point'[i] = version[i]
                               /\ i \notin live \/ i \in Refused => point'[i] = 0
      PROVE  Fit'
  <2>1. /\ pc'[p] = "idle" /\ ids'[p] = {}
        /\ \A q \in Procs \ {p} : pc'[q] = pc[q] /\ ids'[q] = ids[q] /\ snap'[q] = snap[q]
        BY <1>3 DEF End, TypeOK
  <2>2. \A i \in ids[p] : ItemFits(i)'
        BY <1>1, <1>3 DEF ItemFits, RowFits, OrphanFits
  <2>. QED  BY <1>1, <1>3, <2>1, <2>2, FitLocal DEF BatchFits
<1>4. CASE IndexRead(p) /\ ids[p] \cap live = {}
  <2>1. End(p) /\ point' = point /\ pc[p] = "index"  BY <1>4 DEF IndexRead
  <2>2. \A i \in ids[p] : i \notin live /\ point[i] = 0
        BY <1>1, <1>2, <1>4, <2>1, OwnItems
  <2>. QED  BY <1>3, <2>1, <2>2
<1>5. CASE IndexRead(p) /\ ids[p] \cap live # {}
  <2>1. /\ snap' = [snap EXCEPT ![p] = [i \in Items |->
                             IF i \in ids[p] \cap live THEN version[i] ELSE 0]]
        /\ pc' = [pc EXCEPT ![p] = "embed"] /\ pc[p] = "index"
        /\ ids' = ids /\ point' = point
        BY <1>5 DEF IndexRead
  <2>2. /\ pc'[p] = "embed"
        /\ \A q \in Procs \ {p} : pc'[q] = pc[q] /\ snap'[q] = snap[q]
        BY <2>1 DEF TypeOK
  <2>3. \A i \in Items : snap'[p][i] = IF i \in ids[p] \cap live THEN version[i] ELSE 0
        BY <2>1 DEF TypeOK
  <2>4. Batch(p)' = ids[p] \cap live
        BY <1>2, <2>3 DEF Batch, ApartInv, TypeOK
  <2>5. ASSUME NEW i \in ids[p] PROVE ItemFits(i)'
        BY <1>1, <1>2, <2>1, <2>2, OwnItems DEF ItemFits, RowFits, OrphanFits
  <2>. QED  BY <1>1, <2>1, <2>2, <2>4, <2>5, FitLocal DEF BatchFits
<1>6. CASE IndexUpsert(p)
  <2>1. /\ pc[p] = "embed" /\ Batch(p) \cap Refused = {}
        /\ point' = [i \in Items |-> IF i \in Batch(p) THEN snap[p][i] ELSE point[i]]
        /\ pc' = [pc EXCEPT ![p] = "upserted"]
        /\ ids' = ids /\ snap' = snap
        BY <1>6 DEF IndexUpsert
  <2>2. Batch(p) = ids[p] \cap live  BY <2>1 DEF Fit, BatchFits
  <2>3. pc'[p] = "upserted" /\ \A q \in Procs \ {p} : pc'[q] = pc[q]
        BY <2>1 DEF TypeOK
  <2>4. ASSUME NEW i \in ids[p] PROVE ItemFits(i)'
    <3>1. CASE i \in live
      <4>1. i \in Batch(p) /\ snap[p][i] = version[i]
            BY <2>1, <2>2, <3>1 DEF ApartInv
      <4>2. point'[i] = version[i] /\ i \notin Refused
            BY <1>2, <2>1, <4>1
      <4>. QED  BY <1>1, <3>1, <4>2 DEF ItemFits, RowFits, OrphanFits
    <3>2. CASE i \notin live
      <4>1. point[i] = 0  BY <1>1, <1>2, <2>1, <3>2, OwnItems
      <4>2. point'[i] = 0  BY <1>2, <2>1, <2>2, <3>2, <4>1
      <4>. QED  BY <4>2 DEF ItemFits, RowFits, OrphanFits
    <3>. QED  BY <3>1, <3>2
  <2>5. BatchFits(p)'
    <3>1. Batch(p)' = Batch(p)  BY <2>1 DEF Batch
    <3>. QED  BY <1>1, <2>1, <2>2, <3>1 DEF BatchFits
  <2>6. \A i \in Items \ ids[p] : point'[i] = point[i]  BY <2>1, <2>2
  <2>. QED  BY <1>1, <2>1, <2>3, <2>4, <2>5, <2>6, FitLocal
<1>7. CASE IndexCommit(p)
  <2>1. pc[p] = "upserted" /\ End(p) /\ point' = point  BY <1>7 DEF IndexCommit
  <2>2. \A i \in ids[p] : /\ i \in live => point[i] = 0 \/ point[i] = version[i]
                          /\ i \notin live \/ i \in Refused => point[i] = 0
        BY <1>1, <1>2, <2>1, OwnItems
  <2>. QED  BY <1>3, <2>1, <2>2
<1>8. CASE IndexRefused(p)
  <2>1. /\ pc[p] = "embed" /\ Batch(p) \cap Refused # {} /\ End(p) /\ point' = point
        BY <1>8 DEF IndexRefused
  <2>2. Batch(p) = ids[p] \cap live  BY <2>1 DEF Fit, BatchFits
  <2>3. ASSUME NEW i \in ids[p]
        PROVE  /\ i \in live => point[i] = 0 \/ point[i] = version[i]
               /\ i \notin live \/ i \in Refused => point[i] = 0
    <3>1. i \notin live \/ i \in Refused => point[i] = 0
          BY <1>1, <1>2, <2>1, OwnItems
    <3>2. ASSUME i \in live, point[i] > 0, point[i] # version[i] PROVE FALSE
      <4>1. ids[p] = {i}  BY <1>1, <3>2, OwnItems
      <4>2. i \in Refused  BY <2>1, <2>2, <4>1
      <4>. QED  BY <3>1, <3>2, <4>2
    <3>. QED  BY <1>2, <3>1, <3>2
  <2>. QED  BY <1>3, <2>1, <2>3
<1>9. CASE DeletePoint(p)
  <2>1. /\ pc[p] = "unindex" /\ End(p)
        /\ point' = [i \in Items |-> IF i \in ids[p] THEN 0 ELSE point[i]]
        BY <1>9 DEF DeletePoint
  <2>. QED  BY <1>2, <1>3, <2>1
<1>. QED  BY <1>4, <1>5, <1>6, <1>7, <1>8, <1>9 DEF IndexNext

\* A turn under way has found what is there, and keeps what it is given.
Grounded ==
    /\ \A t \in Turns : stage[t] = "queried" =>
           \A i \in Items : found[t][i] > 0 => i \in live /\ found[t][i] = version[i]
    /\ \A t \in Turns : stage[t] \in {"loaded", "answered"} =>
           \A i \in Hits(t) : hits[t][i] = found[t][i]

AnswerInv == /\ TypeOK /\ RetrievalTypeOK /\ NotAhead
             /\ ApartInv /\ Fit /\ Grounded /\ RetrievalApart

\* A row changes only with an operation that is about it.
LEMMA RowsChange ==
    ASSUME TypeOK, Next, NEW i \in Items, i \in live, i \notin live' \/ version'[i] # version[i]
    PROVE  \E p \in Procs : pc'[p] # "idle" /\ i \in ids'[p]
<1>1. ASSUME NEW p \in Procs, NEW l \in {"index", "unindex"}, NEW S \in SUBSET Items,
             Begin(p, l, S), i \in S
      PROVE  pc'[p] # "idle" /\ i \in ids'[p]
      BY <1>1 DEF Begin, TypeOK
<1>2. ASSUME NEW p \in Writers, NEW S, Insert(p, S)
      PROVE  pc'[p] # "idle" /\ i \in ids'[p]
  <2>1. CASE i \notin S  BY <1>2, <2>1 DEF Insert
  <2>2. CASE i \in S
    <3>1. S \in SUBSET Items /\ Begin(p, "index", S)  BY <1>2 DEF Insert, Fresh
    <3>. QED  BY <1>1, <2>2, <3>1, ProcsParts
  <2>. QED  BY <2>1, <2>2
<1>3. ASSUME NEW p \in Writers, NEW j \in Items, UpdateItem(p, j) \/ DeleteItem(p, j)
      PROVE  pc'[p] # "idle" /\ i \in ids'[p]
  <2>1. i = j  BY <1>3 DEF UpdateItem, DeleteItem, TypeOK
  <2>. QED  BY <1>1, <1>3, <2>1, ProcsParts DEF UpdateItem, DeleteItem
<1>4. ASSUME NEW k \in Workers, Scan(k) PROVE FALSE  BY <1>4 DEF Scan, rows
<1>5. ASSUME NEW p \in Procs, IndexNext(p) \/ Fail(p) PROVE FALSE
      BY <1>5 DEF IndexNext, IndexRead, IndexUpsert, IndexCommit, IndexRefused, DeletePoint,
                  Fail, rows
<1>. QED  BY <1>2, <1>3, <1>4, <1>5, ProcsParts
             DEF Next, WriterNext, CreateItem, ImportMarkdown

\* Operations next to a turn leave the rows alone whose points it has found.
LEMMA GroundedNext ==
    ASSUME TypeOK, RetrievalTypeOK, Grounded, Next, UNCHANGED turnVars, RetrievalApart'
    PROVE  Grounded'
<1>1. ASSUME NEW t \in Turns, stage[t] = "queried", NEW i \in Items, found[t][i] > 0
      PROVE  i \in live' /\ found[t][i] = version'[i]
  <2>1. i \in live /\ found[t][i] = version[i]  BY <1>1 DEF Grounded
  <2>2. Underway(t)'  BY <1>1 DEF Underway
  <2>3. ~(\E p \in Procs : pc'[p] # "idle" /\ i \in ids'[p])
    <3>. SUFFICES ASSUME NEW p \in Procs, pc'[p] # "idle", i \in ids'[p] PROVE FALSE
         OBVIOUS
    <3>1. found'[t][i] = 0  BY <2>2 DEF RetrievalApart
    <3>. QED  BY <1>1, <3>1
  <2>. QED  BY <2>1, <2>3, RowsChange
<1>. QED  BY <1>1 DEF Grounded, Underway, Hits

LEMMA GroundedTurn ==
    ASSUME AnswerInv, NEW t \in Turns, TurnNext(t), RetrievalApart', MaxFailures = 0
    PROVE  Grounded'
<1>1. ~TurnFails(t)  BY DEF TurnFails, AnswerInv, TypeOK
<1>2. UNCHANGED vars  BY <1>1 DEF TurnNext, Query, LoadRows, Grade
<1>3. CASE Query(t)
  <2>1. PICK S \in Nearest :
           found' = [found EXCEPT ![t] = [i \in Items |-> IF i \in S THEN point[i] ELSE 0]]
        BY <1>3 DEF Query
  <2>2. \A i \in Items : found'[t][i] = IF i \in S THEN point[i] ELSE 0
        BY <2>1 DEF AnswerInv, RetrievalTypeOK
  <2>4. stage'[t] = "queried" /\ \A i \in Items : hits'[t][i] = 0
        BY <1>3 DEF Query, AnswerInv, RetrievalTypeOK, NoVersions
  <2>5. \A u \in Turns \ {t} : /\ stage'[u] = stage[u] /\ found'[u] = found[u]
                               /\ hits'[u] = hits[u]
        BY <1>3, <2>1 DEF Query, AnswerInv, RetrievalTypeOK
  <2>6. ASSUME NEW i \in Items, found'[t][i] > 0 PROVE i \in live /\ point[i] = version[i]
    <3>1. ~(\E p \in Procs : pc[p] # "idle" /\ i \in ids[p])
      <4>. SUFFICES ASSUME NEW p \in Procs, pc[p] # "idle", i \in ids[p] PROVE FALSE
           OBVIOUS
      <4>1. pc'[p] # "idle" /\ i \in ids'[p]  BY <1>2 DEF vars, locals
      <4>2. Underway(t)'  BY <2>4 DEF Underway
      <4>. QED  BY <2>6, <4>1, <4>2 DEF RetrievalApart
    <3>2. ItemFits(i) /\ point[i] > 0
          BY <2>2, <2>6 DEF AnswerInv, Fit
    <3>3. i \in live  BY <3>1, <3>2 DEF ItemFits, OrphanFits
    <3>. QED  BY <3>1, <3>2, <3>3 DEF ItemFits, RowFits
  <2>7. \A i \in Items : found'[t][i] > 0 => found'[t][i] = point[i]
        BY <2>2
  <2>8. \A i \in Items : found'[t][i] > 0 => i \in live' /\ found'[t][i] = version'[i]
        BY <1>2, <2>6, <2>7 DEF vars, rows
  <2>. QED  BY <1>2, <2>4, <2>5, <2>8
            DEF AnswerInv, Grounded, Underway, Hits, vars, rows
<1>4. CASE LoadRows(t)
  <2>1. /\ stage[t] = "queried" /\ stage'[t] = "loaded"
        /\ found' = found
        BY <1>4 DEF LoadRows, AnswerInv, RetrievalTypeOK
  <2>2. \A i \in Items : hits'[t][i] =
                            IF found[t][i] > 0 /\ i \in live THEN version[i] ELSE 0
        BY <1>4 DEF LoadRows, AnswerInv, RetrievalTypeOK
  <2>3. \A i \in Items : found[t][i] > 0 => i \in live /\ found[t][i] = version[i]
        BY <2>1 DEF AnswerInv, Grounded
  <2>4. \A i \in Items : hits'[t][i] > 0 => hits'[t][i] = found'[t][i]
        BY <2>1, <2>2, <2>3
  <2>6. \A u \in Turns \ {t} : stage'[u] = stage[u] /\ hits'[u] = hits[u]
        BY <1>4 DEF LoadRows, AnswerInv, RetrievalTypeOK
  <2>. QED  BY <1>2, <2>1, <2>4, <2>6
            DEF AnswerInv, Grounded, Underway, Hits, vars, rows
<1>5. CASE Grade(t)
  <2>1. /\ stage[t] = "loaded"
        /\ stage'[t] = IF confident[t] THEN "answered" ELSE "escalated"
        /\ UNCHANGED << found, hits >>
        /\ \A u \in Turns \ {t} : stage'[u] = stage[u]
        BY <1>5 DEF Grade, AnswerInv, RetrievalTypeOK
  <2>. QED  BY <1>2, <2>1
            DEF AnswerInv, Grounded, Underway, Hits, vars, rows
<1>. QED  BY <1>1, <1>3, <1>4, <1>5 DEF TurnNext

LEMMA AnswerStep ==
    ASSUME MaxFailures = 0, AnswerInv,
           [RetrievalNext /\ RetrievalApart']_<< vars, turnVars >>
    PROVE  AnswerInv'
<1>1. TypeOK' /\ RetrievalTypeOK' /\ NotAhead'
      BY BaseTypeStep, TurnTypeStep, BaseNotAheadStep DEF AnswerInv
<1>2. RetrievalApart'
  <2>1. CASE UNCHANGED << vars, turnVars >>
        BY <2>1 DEF AnswerInv, RetrievalApart, Apart, Underway, vars, locals
  <2>. QED  BY <2>1
<1>3. ASSUME NEW t \in Turns, TurnNext(t), RetrievalApart' PROVE AnswerInv'
  <2>1. UNCHANGED << rows, point, locals >>  BY <1>3, TurnKeeps DEF AnswerInv
  <2>2. ApartInv'
        BY <2>1 DEF AnswerInv, ApartInv, IndexedIsCurrent, Batch, rows, locals
  <2>3. Fit'
        BY <2>1 DEF AnswerInv, Fit, ItemFits, RowFits, OrphanFits, BatchFits, Batch, rows, locals
  <2>. QED  BY <1>1, <1>2, <1>3, <2>2, <2>3, GroundedTurn DEF AnswerInv
<1>4. ASSUME Next, UNCHANGED turnVars, RetrievalApart' PROVE AnswerInv'
  <2>1. Apart /\ Apart'  BY <1>4 DEF AnswerInv, RetrievalApart
  <2>2. ApartInv'  BY <1>4, <2>1, ApartStep DEF AnswerInv
  <2>3. Grounded'  BY <1>4, GroundedNext DEF AnswerInv
  <2>4. ASSUME NEW p \in Procs, Fail(p) PROVE FALSE
        BY <2>4 DEF Fail, AnswerInv, TypeOK
  <2>5. Fit'
        BY <1>4, <2>1, <2>2, <2>4, FitBegins, FitIndexes DEF AnswerInv, Next
  <2>. QED  BY <1>1, <1>2, <2>2, <2>3, <2>5 DEF AnswerInv
<1>5. CASE UNCHANGED << vars, turnVars >>
  <2>1. ApartInv' /\ Fit' /\ Grounded'
        BY <1>5 DEF AnswerInv, ApartInv, IndexedIsCurrent, Fit, ItemFits, RowFits, OrphanFits,
                    BatchFits, Batch, Grounded, Underway, Hits,
                    vars, rows, locals
  <2>. QED  BY <1>1, <1>2, <2>1 DEF AnswerInv
<1>. QED  BY <1>3, <1>4, <1>5 DEF RetrievalNext

LEMMA AnswerInit == RetrievalInit => AnswerInv
<1>. SUFFICES ASSUME RetrievalInit PROVE AnswerInv
     OBVIOUS
<1>1. ApartInv /\ Fit
      BY DEF RetrievalInit, Init, ApartInv, IndexedIsCurrent, Fit, ItemFits, RowFits,
             OrphanFits, BatchFits, Batch, NoVersions
<1>2. Grounded /\ RetrievalApart
      BY DEF RetrievalInit, Init, Grounded, Underway, RetrievalApart, Apart
<1>. QED  BY <1>1, <1>2, TypesInit DEF AnswerInv

LEMMA AnswerInvariance ==
    ASSUME MaxFailures = 0
    PROVE  RetrievalApartSpec => []AnswerInv
<1>1. AnswerInv /\ [RetrievalNext /\ RetrievalApart']_<< vars, turnVars >> => AnswerInv'
      BY AnswerStep
<1>. QED  BY <1>1, AnswerInit, PTL DEF RetrievalApartSpec

\* Without failures the score that decided is that of the text that is given,
\* however many turns and operations are under way, as long as none of these
\* meet on one item.
THEOREM ApartScoreFits ==
    ASSUME MaxFailures = 0
    PROVE  RetrievalApartSpec => []ScoreIsOfText
<1>1. AnswerInv => ScoreIsOfText  BY DEF AnswerInv, Grounded, ScoreIsOfText
<1>. QED  BY <1>1, AnswerInvariance, PTL

\* In the same runs nothing that was deleted can be found (rest-api.md 34).
THEOREM ApartNoOrphan ==
    ASSUME MaxFailures = 0
    PROVE  RetrievalApartSpec => []QuietHasNoOrphan
<1>1. AnswerInv => QuietHasNoOrphan
  <2>. SUFFICES ASSUME AnswerInv, Quiet, NEW i \in Items \ live PROVE point[i] = 0
       BY DEF QuietHasNoOrphan
  <2>1. OrphanFits(i) /\ point[i] \in Nat  BY DEF AnswerInv, Fit, ItemFits, TypeOK
  <2>. QED  BY <2>1 DEF OrphanFits, Quiet
<1>. QED  BY <1>1, AnswerInvariance, PTL

(***************************************************************************)
(* One operation or turn at a time                                         *)
(***************************************************************************)

LEMMA SerialIsApart == RetrievalSerialSpec => RetrievalApartSpec
<1>1. RetrievalAlone => RetrievalApart
      BY AloneIsApart DEF RetrievalAlone, RetrievalApart, Quiet
<1>2. RetrievalAlone' => RetrievalApart'
      BY <1>1, PTL
<1>3. [RetrievalNext /\ RetrievalAlone']_<< vars, turnVars >>
          => [RetrievalNext /\ RetrievalApart']_<< vars, turnVars >>
      BY <1>2
<1>. QED  BY <1>3, PTL DEF RetrievalSerialSpec, RetrievalApartSpec

\* One operation or turn at a time and without failures, the score that decided
\* is that of the text that is given.
THEOREM SerialScoreFits ==
    ASSUME MaxFailures = 0
    PROVE  RetrievalSerialSpec => []ScoreIsOfText
BY SerialIsApart, ApartScoreFits

\* In the same runs nothing that was deleted can be found (rest-api.md 34).
THEOREM SerialNoOrphan ==
    ASSUME MaxFailures = 0
    PROVE  RetrievalSerialSpec => []QuietHasNoOrphan
BY SerialIsApart, ApartNoOrphan
=============================================================================
