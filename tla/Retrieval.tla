------------------------------ MODULE Retrieval ------------------------------
(***************************************************************************)
(* The engine's way from a question to an answer or an escalation, next to *)
(* the administrators who change the knowledge base: hybrid_search asks    *)
(* Qdrant for the nearest points, then reads their rows in MySQL; the      *)
(* grade node looks at the best score only; the generate node is given the *)
(* rows that were found.                                                   *)
(***************************************************************************)
EXTENDS KnowledgeIndex, Integers

CONSTANTS Turns,      \* engine turns under way
          TopK,       \* bot_config.top_k
          Threshold,  \* bot_config.retrieval_threshold, in hundredths
          Scores      \* scores that points may get, in hundredths

\* The API takes any threshold (bot_config.py 17, 57), a negative one included.
ASSUME ConfigAssumption == TopK \in Nat /\ Threshold \in Int /\ Scores \subseteq Int

ASSUME TurnAssumption == Turns \cap Procs = {}

VARIABLES
    stage,      \* stage[t]: where turn t stands
    found,      \* found[t]: the version of each point found, 0 if not found
    confident,  \* confident[t]: the best score reached the threshold
    hits        \* hits[t]: the version of each row read, 0 if there was none

turnVars == << stage, found, confident, hits >>

Stage == {"idle", "queried", "loaded", "answered", "escalated"}

Hits(t) == {i \in Items : hits[t][i] > 0}

RetrievalTypeOK ==
    /\ stage \in [Turns -> Stage]
    /\ found \in [Turns -> [Items -> Nat]]
    /\ confident \in [Turns -> BOOLEAN]
    /\ hits \in [Turns -> [Items -> Nat]]

RetrievalInit ==
    /\ Init
    /\ stage = [t \in Turns |-> "idle"]
    /\ found = [t \in Turns |-> NoVersions]
    /\ confident = [t \in Turns |-> FALSE]
    /\ hits = [t \in Turns |-> NoVersions]

\* Fault: a configured 0 is taken as it stands.
InUseAsIs(configured, default) == configured

\* configured or default: 0 stands for not configured (grade.py 12, retrieve.py 6).
InUse(configured, default) == IF configured = 0 THEN default ELSE configured

Pointed == {i \in Items : point[i] > 0}

\* The top_k nearest points, whichever they are.
Nearest == {S \in SUBSET Pointed :
                \/ S = Pointed /\ Cardinality(S) <= InUse(TopK, 5)
                \/ Cardinality(S) = InUse(TopK, 5)}

Underway(t) == stage[t] \in {"queried", "loaded"}

\* query_points; the best score of nothing is 0.0.
Query(t) ==
    /\ ~Underway(t)
    /\ \E S \in Nearest :
         /\ found' = [found EXCEPT ![t] = [i \in Items |-> IF i \in S THEN point[i] ELSE 0]]
         /\ \E score \in IF S = {} THEN {0} ELSE Scores :
                confident' = [confident EXCEPT ![t] = score >= InUse(Threshold, 35)]
    /\ stage' = [stage EXCEPT ![t] = "queried"]
    /\ hits' = [hits EXCEPT ![t] = NoVersions]
    /\ UNCHANGED vars

\* by_ids: of the points found, the rows that are there.
LoadRows(t) ==
    /\ stage[t] = "queried"
    /\ hits' = [hits EXCEPT ![t] = [i \in Items |->
                    IF found[t][i] > 0 /\ i \in live THEN version[i] ELSE 0]]
    /\ stage' = [stage EXCEPT ![t] = "loaded"]
    /\ UNCHANGED << vars, found, confident >>

\* Fault: the reason to escalate takes the place of the stage.
GradeByReason(t) ==
    /\ stage[t] = "loaded"
    /\ stage' = [stage EXCEPT ![t] = IF confident[t] THEN "answered" ELSE "low_confidence"]
    /\ UNCHANGED << vars, found, confident, hits >>

\* should_escalate, for a text that is a question: the best score decides; then
\* the model answers from the rows.
Grade(t) ==
    /\ stage[t] = "loaded"
    /\ stage' = [stage EXCEPT ![t] = IF confident[t] THEN "answered" ELSE "escalated"]
    /\ UNCHANGED << vars, found, confident, hits >>

\* Embedding, Qdrant, MySQL or the model fails: run_turn escalates.
TurnFails(t) ==
    /\ Underway(t)
    /\ failures < MaxFailures
    /\ failures' = failures + 1
    /\ stage' = [stage EXCEPT ![t] = "escalated"]
    /\ UNCHANGED << rows, point, locals, found, confident, hits >>

\* Fault: the rows are read first, then the points.
TurnNextRowsFirst(t) ==
    \/ /\ ~Underway(t)
       /\ stage' = [stage EXCEPT ![t] = "queried"]
       /\ hits' = [hits EXCEPT ![t] = [i \in Items |-> IF i \in live THEN version[i] ELSE 0]]
       /\ UNCHANGED << vars, found, confident >>
    \/ /\ stage[t] = "queried"
       /\ stage' = [stage EXCEPT ![t] = "loaded"]
       /\ found' = [found EXCEPT ![t] = point]
       /\ UNCHANGED << vars, confident, hits >>
    \/ Grade(t)
    \/ TurnFails(t)

TurnNext(t) == Query(t) \/ LoadRows(t) \/ Grade(t) \/ TurnFails(t)

RetrievalNext == \/ Next /\ UNCHANGED turnVars
                 \/ \E t \in Turns : TurnNext(t)

RetrievalSpec == RetrievalInit /\ [][RetrievalNext]_<< vars, turnVars >>

\* The worker scans again and again and what has begun goes on; nobody need ask
\* the engine anything.
FairRetrievalSpec == /\ RetrievalSpec
                     /\ \A k \in Workers : WF_<< vars, turnVars >>(Scan(k) /\ UNCHANGED turnVars)
                     /\ \A p \in Procs :
                            WF_<< vars, turnVars >>(IndexNext(p) /\ UNCHANGED turnVars)

\* One operation or turn at a time.
RetrievalAlone ==
    /\ Alone
    /\ \A t, u \in Turns : Underway(t) /\ Underway(u) => t = u
    /\ \A t \in Turns : Underway(t) => Quiet

RetrievalSerialSpec ==
    RetrievalInit /\ [][RetrievalNext /\ RetrievalAlone']_<< vars, turnVars >>
-----------------------------------------------------------------------------
\* However searches, updates and the index interleave, the text given to the
\* model is never older than the text whose score decided: points are embedded
\* from committed texts and the rows are read after the points.
TextNotOlderThanScore ==
    \A t \in Turns : \A i \in Hits(t) : hits[t][i] >= found[t][i]

\* Whatever overlaps and fails, and with 0 configured too, an answer is given
\* without a row only if all the rows the search had found are deleted by then.
\* A negative threshold is excused: an empty search reaches it.
UngroundedOnlyByDeletion ==
    \A t \in Turns : stage[t] = "answered" /\ Hits(t) = {} =>
        \/ Threshold < 0
        \/ /\ \E i \in Items : found[t][i] > 0
           /\ \A i \in live : found[t][i] = 0

\* The score that decides was computed from the very text the model is given.
ScoreIsOfText ==
    \A t \in Turns : stage[t] = "answered" =>
        \A i \in Hits(t) : hits[t][i] = found[t][i]
=============================================================================
