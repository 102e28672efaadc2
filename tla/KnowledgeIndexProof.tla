------------------------- MODULE KnowledgeIndexProof -------------------------
(***************************************************************************)
(* Theorems about KnowledgeIndex, for any number of items, requests and    *)
(* workers, any texts the gateway refuses and any bounds.                  *)
(***************************************************************************)
EXTENDS KnowledgeIndex, TLAPS

\* Requests and workers are processes.
LEMMA ProcsParts == Writers \subseteq Procs /\ Workers \subseteq Procs
  BY DEF Procs

\* Every action keeps every variable in its type.
LEMMA TypeStep ==
    ASSUME TypeOK, [Next]_vars
    PROVE  TypeOK'
<1>1. ASSUME NEW p \in Writers, CreateItem(p)  PROVE TypeOK'
  BY <1>1, ProcsParts DEF CreateItem, Insert, Begin, Fresh, TypeOK, Place
<1>2. ASSUME NEW p \in Writers, ImportMarkdown(p)  PROVE TypeOK'
  BY <1>2, ProcsParts DEF ImportMarkdown, Insert, Begin, Fresh, TypeOK, Place
<1>3. ASSUME NEW p \in Writers, NEW i \in Items, UpdateItem(p, i)  PROVE TypeOK'
  <2>1. CASE i \in live
    <3>1. version' \in [Items -> Nat] /\ live' \subseteq Items /\ indexed' \subseteq Items
      BY <1>3, <2>1 DEF UpdateItem, TypeOK
    <3>2. pc' \in [Procs -> Place] /\ ids' \in [Procs -> SUBSET Items]
      BY <1>3, ProcsParts DEF UpdateItem, Begin, TypeOK, Place
    <3>. QED  BY <1>3, <3>1, <3>2 DEF UpdateItem, Begin, TypeOK
  <2>2. CASE i \notin live
    BY <1>3, <2>2, ProcsParts DEF UpdateItem, Begin, TypeOK, Place
  <2>. QED  BY <2>1, <2>2
<1>4. ASSUME NEW p \in Writers, NEW i \in Items, DeleteItem(p, i)  PROVE TypeOK'
  BY <1>4, ProcsParts DEF DeleteItem, Begin, TypeOK, Place
<1>5. ASSUME NEW k \in Workers, Scan(k)  PROVE TypeOK'
  BY <1>5, ProcsParts DEF Scan, Begin, rows, TypeOK, Place
<1>6. ASSUME NEW p \in Procs, IndexRead(p)  PROVE TypeOK'
  <2>1. CASE ids[p] \cap live = {}
    <3>1. pc' \in [Procs -> Place] /\ ids' \in [Procs -> SUBSET Items]
      BY <1>6, <2>1 DEF IndexRead, End, TypeOK, Place
    <3>2. snap' \in [Procs -> [Items -> Nat]]
      BY <1>6, <2>1 DEF IndexRead, End, TypeOK, NoVersions
    <3>. QED  BY <1>6, <3>1, <3>2 DEF IndexRead, rows, TypeOK
  <2>2. CASE ids[p] \cap live # {}
    <3>1. [i \in Items |-> IF i \in ids[p] \cap live THEN version[i] ELSE 0] \in [Items -> Nat]
      BY DEF TypeOK
    <3>2. snap' \in [Procs -> [Items -> Nat]]
      BY <1>6, <2>2, <3>1 DEF IndexRead, TypeOK
    <3>. QED  BY <1>6, <2>2, <3>2 DEF IndexRead, rows, TypeOK, Place
  <2>. QED  BY <2>1, <2>2
<1>7. ASSUME NEW p \in Procs, IndexUpsert(p)  PROVE TypeOK'
  BY <1>7, ProcsParts DEF IndexUpsert, rows, TypeOK, Place
<1>8. ASSUME NEW p \in Procs, IndexCommit(p)  PROVE TypeOK'
  BY <1>8, ProcsParts DEF IndexCommit, End, TypeOK, Place, NoVersions, Batch
<1>9. ASSUME NEW p \in Procs, IndexRefused(p)  PROVE TypeOK'
  BY <1>9, ProcsParts DEF IndexRefused, End, rows, TypeOK, Place, NoVersions
<1>10. ASSUME NEW p \in Procs, DeletePoint(p)  PROVE TypeOK'
  BY <1>10, ProcsParts DEF DeletePoint, End, rows, TypeOK, Place, NoVersions
<1>11. ASSUME NEW p \in Procs, Fail(p)  PROVE TypeOK'
  BY <1>11, ProcsParts DEF Fail, End, rows, TypeOK, Place, NoVersions
<1>12. CASE UNCHANGED vars
  BY <1>12 DEF vars, rows, locals, TypeOK, Place
<1>. QED
  BY <1>1, <1>2, <1>3, <1>4, <1>5, <1>6, <1>7, <1>8, <1>9, <1>10, <1>11, <1>12
     DEF Next, WriterNext, IndexNext

\* Every variable keeps its type whatever requests, workers and failures do.
THEOREM TypeCorrect == Spec => []TypeOK
<1>1. Init => TypeOK
  BY DEF Init, TypeOK, Place, NoVersions
<1>2. TypeOK /\ [Next]_vars => TypeOK'
  BY TypeStep
<1>. QED  BY <1>1, <1>2, PTL DEF Spec

(***************************************************************************)
(* Points and rows                                                         *)
(***************************************************************************)

\* What has been read, or embedded, was committed before.
NotAhead == /\ \A i \in Items : point[i] <= version[i]
            /\ \A p \in Procs : \A i \in Items : snap[p][i] <= version[i]

\* Every action keeps NotAhead: texts only grow, and are read once committed.
LEMMA NotAheadStep ==
    ASSUME TypeOK, NotAhead, [Next]_vars
    PROVE  NotAhead'
<1>1. ASSUME NEW p \in Writers, CreateItem(p)  PROVE NotAhead'
  BY <1>1, ProcsParts DEF CreateItem, Insert, Begin, Fresh, NotAhead, TypeOK
<1>2. ASSUME NEW p \in Writers, ImportMarkdown(p)  PROVE NotAhead'
  BY <1>2, ProcsParts DEF ImportMarkdown, Insert, Begin, Fresh, NotAhead, TypeOK
<1>3. ASSUME NEW p \in Writers, NEW i \in Items, UpdateItem(p, i)  PROVE NotAhead'
  <2>1. \A j \in Items : version'[j] \in Nat /\ version'[j] >= version[j]
    BY <1>3 DEF UpdateItem, TypeOK
  <2>2. UNCHANGED << point, snap >>
    BY <1>3 DEF UpdateItem, Begin
  <2>. QED  BY <2>1, <2>2 DEF NotAhead, TypeOK
<1>4. ASSUME NEW p \in Writers, NEW i \in Items, DeleteItem(p, i)  PROVE NotAhead'
  BY <1>4, ProcsParts DEF DeleteItem, Begin, NotAhead, TypeOK
<1>5. ASSUME NEW k \in Workers, Scan(k)  PROVE NotAhead'
  BY <1>5, ProcsParts DEF Scan, Begin, rows, NotAhead, TypeOK
<1>6. ASSUME NEW p \in Procs, IndexRead(p)  PROVE NotAhead'
  BY <1>6, ProcsParts DEF IndexRead, End, rows, NotAhead, TypeOK, NoVersions
<1>7. ASSUME NEW p \in Procs, IndexUpsert(p)  PROVE NotAhead'
  BY <1>7, ProcsParts DEF IndexUpsert, rows, NotAhead, TypeOK, Batch
<1>8. ASSUME NEW p \in Procs, IndexCommit(p)  PROVE NotAhead'
  BY <1>8, ProcsParts DEF IndexCommit, End, NotAhead, TypeOK, NoVersions
<1>9. ASSUME NEW p \in Procs, IndexRefused(p)  PROVE NotAhead'
  BY <1>9, ProcsParts DEF IndexRefused, End, rows, NotAhead, TypeOK, NoVersions
<1>10. ASSUME NEW p \in Procs, DeletePoint(p)  PROVE NotAhead'
  BY <1>10, ProcsParts DEF DeletePoint, End, rows, NotAhead, TypeOK, NoVersions
<1>11. ASSUME NEW p \in Procs, Fail(p)  PROVE NotAhead'
  BY <1>11, ProcsParts DEF Fail, End, rows, NotAhead, TypeOK, NoVersions
<1>12. CASE UNCHANGED vars
  BY <1>12 DEF vars, rows, locals, NotAhead, TypeOK
<1>. QED
  BY <1>1, <1>2, <1>3, <1>4, <1>5, <1>6, <1>7, <1>8, <1>9, <1>10, <1>11, <1>12
     DEF Next, WriterNext, IndexNext

\* The points an index operation has written are there until it marks their
\* rows, because a point is removed only once its row is gone for good.
PointInv ==
    /\ IndexedHasPoint
    /\ \A i \in live : version[i] > 0
    /\ \A p \in Procs :
         /\ pc[p] = "upserted" => \A i \in Batch(p) \cap live : point[i] > 0
         /\ pc[p] = "unindex" => \A i \in ids[p] : i \notin live /\ version[i] > 0

\* Every action keeps PointInv.
LEMMA PointStep ==
    ASSUME TypeOK, NotAhead, PointInv, [Next]_vars
    PROVE  PointInv'
<1>1. ASSUME NEW p \in Writers, CreateItem(p)  PROVE PointInv'
  BY <1>1, ProcsParts
     DEF CreateItem, Insert, Begin, Fresh, PointInv, IndexedHasPoint, Batch, TypeOK,
         NotAhead
<1>2. ASSUME NEW p \in Writers, ImportMarkdown(p)  PROVE PointInv'
  BY <1>2, ProcsParts
     DEF ImportMarkdown, Insert, Begin, Fresh, PointInv, IndexedHasPoint, Batch, TypeOK,
         NotAhead
<1>3. ASSUME NEW p \in Writers, NEW i \in Items, UpdateItem(p, i)  PROVE PointInv'
  BY <1>3, ProcsParts DEF UpdateItem, Begin, PointInv, IndexedHasPoint, Batch, TypeOK
<1>4. ASSUME NEW p \in Writers, NEW i \in Items, DeleteItem(p, i)  PROVE PointInv'
  BY <1>4, ProcsParts DEF DeleteItem, Begin, PointInv, IndexedHasPoint, Batch, TypeOK
<1>5. ASSUME NEW k \in Workers, Scan(k)  PROVE PointInv'
  BY <1>5, ProcsParts DEF Scan, Begin, rows, PointInv, IndexedHasPoint, Batch, TypeOK
<1>6. ASSUME NEW p \in Procs, IndexRead(p)  PROVE PointInv'
  BY <1>6, ProcsParts
     DEF IndexRead, End, rows, PointInv, IndexedHasPoint, Batch, TypeOK, NoVersions
<1>7. ASSUME NEW p \in Procs, IndexUpsert(p)  PROVE PointInv'
  BY <1>7, ProcsParts DEF IndexUpsert, rows, PointInv, IndexedHasPoint, Batch, TypeOK
<1>8. ASSUME NEW p \in Procs, IndexCommit(p)  PROVE PointInv'
  BY <1>8, ProcsParts DEF IndexCommit, End, PointInv, IndexedHasPoint, Batch, TypeOK, NoVersions
<1>9. ASSUME NEW p \in Procs, IndexRefused(p)  PROVE PointInv'
  BY <1>9, ProcsParts
     DEF IndexRefused, End, rows, PointInv, IndexedHasPoint, Batch, TypeOK, NoVersions
<1>10. ASSUME NEW p \in Procs, DeletePoint(p)  PROVE PointInv'
  BY <1>10, ProcsParts
     DEF DeletePoint, End, rows, PointInv, IndexedHasPoint, Batch, TypeOK, NoVersions
<1>11. ASSUME NEW p \in Procs, Fail(p)  PROVE PointInv'
  BY <1>11, ProcsParts DEF Fail, End, rows, PointInv, IndexedHasPoint, Batch, TypeOK, NoVersions
<1>12. CASE UNCHANGED vars
  BY <1>12 DEF vars, rows, locals, PointInv, IndexedHasPoint, Batch, TypeOK
<1>. QED
  BY <1>1, <1>2, <1>3, <1>4, <1>5, <1>6, <1>7, <1>8, <1>9, <1>10, <1>11, <1>12
     DEF Next, WriterNext, IndexNext

\* A row that says indexed has a point, in every interleaving.
THEOREM IndexedIsSearchable == Spec => []IndexedHasPoint
<1>1. Init => NotAhead /\ PointInv
  BY DEF Init, NotAhead, NoVersions, PointInv, IndexedHasPoint, Batch
<1>2. TypeOK /\ NotAhead /\ PointInv /\ [Next]_vars => NotAhead' /\ PointInv'
  BY NotAheadStep, PointStep
<1>3. PointInv => IndexedHasPoint
  BY DEF PointInv
<1>. QED  BY <1>1, <1>2, <1>3, TypeCorrect, PTL DEF Spec

(***************************************************************************)
(* Operations that overlap, but not on an item                             *)
(***************************************************************************)

\* No two operations under way are about the same item.
Apart == \A p, q \in Procs :
    p # q /\ pc[p] # "idle" /\ pc[q] # "idle" => ids[p] \cap ids[q] = {}

\* The same code when only operations on different items overlap.
ApartSpec == Init /\ [][Next /\ Apart']_vars

\* An operation works on the items it was asked for, and has their present
\* texts in hand.
ApartInv ==
    /\ IndexedIsCurrent
    /\ \A i \in live : version[i] > 0
    /\ \A p \in Procs :
         /\ Batch(p) \subseteq ids[p]
         /\ pc[p] = "idle" => ids[p] = {}
         /\ pc[p] = "embed" => \A i \in Batch(p) \cap live : snap[p][i] = version[i]
         /\ pc[p] = "upserted" => \A i \in Batch(p) \cap live : point[i] = version[i]
         /\ pc[p] = "unindex" => ids[p] \cap live = {}

\* Every step that keeps the operations apart keeps ApartInv.
LEMMA ApartStep ==
    ASSUME TypeOK, ApartInv, Apart, Next \/ UNCHANGED vars, Apart'
    PROVE  ApartInv'
<1>1. ASSUME NEW p \in Writers, CreateItem(p)  PROVE ApartInv'
  BY <1>1, ProcsParts
     DEF CreateItem, Insert, Begin, Fresh, ApartInv, IndexedIsCurrent, Batch, Apart, TypeOK
<1>2. ASSUME NEW p \in Writers, ImportMarkdown(p)  PROVE ApartInv'
  BY <1>2, ProcsParts
     DEF ImportMarkdown, Insert, Begin, Fresh, ApartInv, IndexedIsCurrent, Batch, Apart, TypeOK
<1>3. ASSUME NEW p \in Writers, NEW i \in Items, UpdateItem(p, i)  PROVE ApartInv'
  <2>1. p \in Procs /\ pc[p] = "idle" /\ pc'[p] = "index" /\ ids'[p] = {i}
    BY <1>3, ProcsParts DEF UpdateItem, Begin, TypeOK
  <2>2. \A q \in Procs : q # p => pc'[q] = pc[q] /\ ids'[q] = ids[q]
    BY <1>3 DEF UpdateItem, Begin, TypeOK
  <2>3. UNCHANGED << live, snap, point >>
    BY <1>3 DEF UpdateItem, Begin
  <2>4. ASSUME NEW q \in Procs, i \in Batch(q)  PROVE FALSE
    <3>1. q # p /\ pc[q] # "idle"
      BY <2>1, <2>4 DEF ApartInv
    <3>2. pc'[q] # "idle" /\ i \in ids'[q]
      BY <2>2, <2>4, <3>1 DEF ApartInv
    <3>. QED  BY <2>1, <3>1, <3>2 DEF Apart
  <2>5. \A j \in Items : j # i => version'[j] = version[j] /\ (j \in indexed' => j \in indexed)
    BY <1>3 DEF UpdateItem, TypeOK
  <2>6. i \in live => i \notin indexed' /\ version'[i] > 0
    BY <1>3 DEF UpdateItem, TypeOK
  <2>7. \A q \in Procs : Batch(q)' = Batch(q) /\ Batch(q) \subseteq Items
    BY <2>3 DEF Batch
  <2>8. IndexedIsCurrent' /\ \A j \in live' : version'[j] > 0
    BY <2>3, <2>5, <2>6 DEF ApartInv, IndexedIsCurrent, TypeOK
  <2>9. ASSUME NEW q \in Procs
        PROVE  /\ Batch(q)' \subseteq ids'[q]
               /\ pc'[q] = "idle" => ids'[q] = {}
               /\ pc'[q] = "embed" => \A j \in Batch(q)' \cap live' : snap'[q][j] = version'[j]
               /\ pc'[q] = "upserted" => \A j \in Batch(q)' \cap live' : point'[j] = version'[j]
               /\ pc'[q] = "unindex" => ids'[q] \cap live' = {}
    <3>1. CASE q = p
      BY <2>1, <2>7, <3>1 DEF ApartInv
    <3>2. CASE q # p
      BY <2>2, <2>3, <2>4, <2>5, <2>7, <3>2 DEF ApartInv
    <3>. QED  BY <3>1, <3>2
  <2>. QED  BY <2>8, <2>9 DEF ApartInv
<1>4. ASSUME NEW p \in Writers, NEW i \in Items, DeleteItem(p, i)  PROVE ApartInv'
  BY <1>4, ProcsParts
     DEF DeleteItem, Begin, ApartInv, IndexedIsCurrent, Batch, Apart, TypeOK
<1>5. ASSUME NEW p \in Workers, Scan(p)  PROVE ApartInv'
  BY <1>5, ProcsParts
     DEF Scan, Begin, rows, ApartInv, IndexedIsCurrent, Batch, Apart, TypeOK
<1>6. ASSUME NEW p \in Procs, IndexRead(p)  PROVE ApartInv'
  <2>1. CASE ids[p] \cap live = {}
    BY <1>6, <2>1
       DEF IndexRead, End, rows, NoVersions, ApartInv, IndexedIsCurrent, Batch, TypeOK
  <2>2. CASE ids[p] \cap live # {}
    BY <1>6, <2>2 DEF IndexRead, rows, ApartInv, IndexedIsCurrent, Batch, TypeOK
  <2>. QED  BY <2>1, <2>2
<1>7. ASSUME NEW p \in Procs, IndexUpsert(p)  PROVE ApartInv'
  BY <1>7, ProcsParts
     DEF IndexUpsert, rows, ApartInv, IndexedIsCurrent, Batch, Apart, TypeOK
<1>8. ASSUME NEW p \in Procs, IndexCommit(p)  PROVE ApartInv'
  BY <1>8, ProcsParts
     DEF IndexCommit, End, NoVersions, ApartInv, IndexedIsCurrent, Batch, Apart, TypeOK
<1>9. ASSUME NEW p \in Procs, IndexRefused(p)  PROVE ApartInv'
  BY <1>9, ProcsParts
     DEF IndexRefused, End, rows, NoVersions, ApartInv, IndexedIsCurrent, Batch, Apart, TypeOK
<1>10. ASSUME NEW p \in Procs, DeletePoint(p)  PROVE ApartInv'
  BY <1>10, ProcsParts
     DEF DeletePoint, End, rows, NoVersions, ApartInv, IndexedIsCurrent, Batch, Apart, TypeOK
<1>11. ASSUME NEW p \in Procs, Fail(p)  PROVE ApartInv'
  BY <1>11, ProcsParts
     DEF Fail, End, rows, NoVersions, ApartInv, IndexedIsCurrent, Batch, Apart, TypeOK
<1>12. CASE UNCHANGED vars
  BY <1>12 DEF vars, rows, locals, ApartInv, IndexedIsCurrent, Batch, TypeOK
<1>. QED
  BY <1>1, <1>2, <1>3, <1>4, <1>5, <1>6, <1>7, <1>8, <1>9, <1>10, <1>11, <1>12
     DEF Next, WriterNext, IndexNext

\* The index goes stale only where two operations overlap on one item: as long
\* as none do, however many are under way and whatever fails, a row that says
\* indexed is found by its present text.
THEOREM ApartIndexIsCurrent == ApartSpec => []IndexedIsCurrent
<1>1. Init => TypeOK /\ ApartInv /\ Apart
  BY DEF Init, TypeOK, Place, NoVersions, ApartInv, IndexedIsCurrent, Batch, Apart
<1>2. ASSUME TypeOK, ApartInv, Apart, [Next /\ Apart']_vars
      PROVE  TypeOK' /\ ApartInv' /\ Apart'
  <2>1. [Next]_vars /\ (Next \/ UNCHANGED vars)
    BY <1>2
  <2>2. Apart'
    BY <1>2 DEF Apart, vars, locals
  <2>. QED  BY <1>2, <2>1, <2>2, TypeStep, ApartStep
<1>3. ApartInv => IndexedIsCurrent
  BY DEF ApartInv
<1>. QED  BY <1>1, <1>2, <1>3, PTL DEF ApartSpec

(***************************************************************************)
(* One operation at a time                                                 *)
(***************************************************************************)

LEMMA AloneIsApart == Alone => Apart
BY DEF Alone, Apart

\* Run one operation at a time, and with any failures, a row that says indexed
\* is found by its present text.
THEOREM SerialIndexIsCurrent == SerialSpec => []IndexedIsCurrent
<1>1. [Next /\ Alone']_vars => [Next /\ Apart']_vars
  BY AloneIsApart DEF Alone, Apart
<1>2. SerialSpec => ApartSpec
  BY <1>1, PTL DEF SerialSpec, ApartSpec
<1>. QED  BY <1>2, ApartIndexIsCurrent
=============================================================================
