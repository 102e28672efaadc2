---------------------------- MODULE Conversations ----------------------------
(***************************************************************************)
(* One conversation row and every handler that works on it: the widget     *)
(* WebSocket loops and the webhook requests that carry the user's texts,   *)
(* the engine turn and the escalation they run, and the REST requests of   *)
(* the agents.  All of them are coroutines (of one or of several server    *)
(* processes) that interleave at every await.                              *)
(*                                                                         *)
(* Every database session of the code is a SELECT and, later, one commit.  *)
(* What a SELECT returned is kept by the handler ("seen") and is what its  *)
(* commit acts upon: the UPDATE names only id and tenant_id, so it applies *)
(* whatever the row has become in between.  UPDATE, INSERT and COMMIT of   *)
(* one session take effect together, hence one action.                     *)
(***************************************************************************)
EXTENDS ConversationFSM, Naturals, FiniteSets

CONSTANTS Widgets,      \* widget connections of this conversation
          Webhooks,     \* webhook deliveries that may reach it
          Requests,     \* slots for the agents' REST requests
          Agents,       \* the agents of the tenant
          NoAgent,      \* NULL
          MaxTexts,     \* bound: user texts per handler
          MaxReplies,   \* bound: agent replies per request slot
          MaxAsks,      \* bound: handoff notices per handler before it asks again
          MaxAborts     \* bound: handlers that die between two commits

ASSUME NoAgentAssumption == NoAgent \notin Agents

ASSUME ProcessAssumption == /\ Widgets \cap Webhooks = {}
                            /\ (Widgets \cup Webhooks) \cap Requests = {}

ASSUME BoundAssumption ==
    MaxTexts \in Nat /\ MaxReplies \in Nat /\ MaxAsks \in Nat /\ MaxAborts \in Nat

Handlers == Widgets \cup Webhooks
Procs == Handlers \cup Requests

VARIABLES
    status,      \* conversation.status
    owner,       \* conversation.assigned_agent_id
    messages,    \* messages[p][s]: rows of kind s that p committed
    pc,          \* where each handler or request stands
    seen,        \* seen[p]: the status p's last SELECT returned
    text,        \* text[h]: what the text that h works on is
    agent,       \* agent[r]: the agent on whose behalf request r runs
    late,        \* late[h]: AI answers h committed since the agent took over
    aborts       \* how many handlers died so far

row == << status, owner >>
locals == << pc, seen, text, agent >>
vars == << row, messages, locals, late, aborts >>

\* The message rows told apart: by source, and a system row by its meta flag.
Source == {"user", "ai", "noise", "handoff", "agent"}

\* What routing.py makes of a text: noise, a wish for a human, or a question.
TextKind == {"noise", "intent", "question"}

\* Points at which a handler holds nothing it has read: it may start anew.
\* For a request they are the responses 200, 409, 403 and 500.
Resting == {"idle", "ok", "already_claimed", "forbidden", "invalid"}

Working == {"stored", "resume", "received", "turn", "escalate", "escalating",
            "claiming", "replying", "switching", "closing"}

InFlight(p) == pc[p] \notin Resting

Answers(h) == messages[h]["ai"] + messages[h]["noise"]

TypeOK ==
    /\ status \in Status
    /\ owner \in Agents \cup {NoAgent}
    /\ messages \in [Procs -> [Source -> Nat]]
    /\ pc \in [Procs -> Resting \cup Working]
    /\ seen \in [Procs -> Status]
    /\ text \in [Handlers -> TextKind]
    /\ agent \in [Requests -> Agents \cup {NoAgent}]
    /\ late \in [Handlers -> Nat]
    /\ aborts \in Nat

\* A local that is not in use has one value, so that states do not multiply.
Init ==
    /\ status = "ai"
    /\ owner = NoAgent
    /\ messages = [p \in Procs |-> [s \in Source |-> 0]]
    /\ pc = [p \in Procs |-> "idle"]
    /\ seen = [p \in Procs |-> "ai"]
    /\ text = [h \in Handlers |-> "question"]
    /\ agent = [r \in Requests |-> NoAgent]
    /\ late = [h \in Handlers |-> 0]
    /\ aborts = 0
-----------------------------------------------------------------------------
(* Repository steps shared by the handlers.                                *)

\* The row's UPDATE.  A new status ends the period that "late" counts.
SetStatus(s) ==
    /\ status' = s
    /\ late' = IF s = status THEN late ELSE [h \in Handlers |-> 0]

KeepRow == UNCHANGED << row, late >>

\* INSERT of one message row by p.
Append(p, s) == messages' = [messages EXCEPT ![p][s] = @ + 1]

GoTo(p, l) == pc' = [pc EXCEPT ![p] = l]

\* p's SELECT returns the row as committed last.
Read(p) == seen' = [seen EXCEPT ![p] = status]

Forget(p) == seen' = [seen EXCEPT ![p] = "ai"]

\* A handler is through with its text.
Done(p) == Forget(p) /\ GoTo(p, "idle")
-----------------------------------------------------------------------------
(* The widget connection: one loop, one client message at a time.          *)

\* user_message: the text is stored whatever the status is.
UserMessage(w) ==
    /\ pc[w] = "idle"
    /\ messages[w]["user"] < MaxTexts
    /\ \E k \in TextKind : text' = [text EXCEPT ![w] = k]
    /\ Append(w, "user")
    /\ GoTo(w, "stored")
    /\ KeepRow
    /\ UNCHANGED << seen, agent, aborts >>

\* Fault: the text of a conversation an agent has goes to the engine, too.
ReadStatusIgnoringHuman(w) ==
    /\ pc[w] = "stored"
    /\ \/ status = "pending_human" /\ text[w] # "question" /\ Done(w)
       \/ status = "pending_human" /\ text[w] = "question" /\ Read(w) /\ GoTo(w, "resume")
       \/ status \in {"ai", "human", "closed"} /\ UNCHANGED seen /\ GoTo(w, "turn")
    /\ KeepRow
    /\ UNCHANGED << messages, text, agent, aborts >>

\* The status is read back after the commit.  human: the text is left to the
\* agent.  pending_human: only a question wakes the engine again.  Anything
\* else, closed included, goes on to a turn.
ReadStatus(w) ==
    /\ pc[w] = "stored"
    /\ \/ status = "human" /\ Done(w)
       \/ status = "pending_human" /\ text[w] # "question" /\ Done(w)
       \/ status = "pending_human" /\ text[w] = "question" /\ Read(w) /\ GoTo(w, "resume")
       \/ status \in {"ai", "closed"} /\ UNCHANGED seen /\ GoTo(w, "turn")
    /\ KeepRow
    /\ UNCHANGED << messages, text, agent, aborts >>

\* Fault: the event is stored where the status belongs.
SwitchBackStoringEvent(w) ==
    /\ pc[w] = "resume"
    /\ SetStatus("switch_to_ai")
    /\ GoTo(w, "turn")
    /\ Forget(w)
    /\ UNCHANGED << owner, messages, text, agent, aborts >>

\* A question while nobody has claimed: back to the engine, in a session of
\* its own that reads nothing.
SwitchBack(w) ==
    /\ pc[w] = "resume"
    /\ SetStatus("ai")
    /\ GoTo(w, "turn")
    /\ Forget(w)
    /\ UNCHANGED << owner, messages, text, agent, aborts >>

\* request_human: straight to the escalation.
RequestHuman(w) ==
    /\ pc[w] = "idle"
    /\ messages[w]["handoff"] < MaxAsks
    /\ GoTo(w, "escalate")
    /\ KeepRow
    /\ UNCHANGED << messages, seen, text, agent, aborts >>
-----------------------------------------------------------------------------
(* The webhook: contact, conversation and text in one transaction whose    *)
(* status is the one it read first.                                        *)

\* latest_active_for_contact finds this conversation only while not closed.
WebhookRead(h) ==
    /\ pc[h] = "idle"
    /\ messages[h]["user"] < MaxTexts
    /\ status # "closed"
    /\ \E k \in TextKind : text' = [text EXCEPT ![h] = k]
    /\ Read(h)
    /\ GoTo(h, "received")
    /\ KeepRow
    /\ UNCHANGED << messages, agent, aborts >>

\* Fault: the status that was read is not looked at.
WebhookStoreIgnoringStatus(h) ==
    /\ pc[h] = "received"
    /\ Append(h, "user")
    /\ GoTo(h, "turn")
    /\ Forget(h)
    /\ KeepRow
    /\ UNCHANGED << text, agent, aborts >>

\* The commit; human and pending_human, as read, end the request here.
WebhookStore(h) ==
    /\ pc[h] = "received"
    /\ Append(h, "user")
    /\ GoTo(h, IF seen[h] \in {"human", "pending_human"} THEN "idle" ELSE "turn")
    /\ Forget(h)
    /\ KeepRow
    /\ UNCHANGED << text, agent, aborts >>
-----------------------------------------------------------------------------
(* run_turn: the engine reads nothing of the row; its outcome is the text's *)
(* kind and what retrieval and the model make of a question.               *)

\* Fault: the handler does not leave the turn it has answered.
TurnAnswersAgain(h) ==
    /\ pc[h] = "turn"
    /\ text[h] = "question"
    /\ Append(h, "ai")
    /\ late' = [late EXCEPT ![h] = IF status = "human" THEN @ + 1 ELSE @]
    /\ UNCHANGED << row, pc, seen, text, agent, aborts >>

\* A non-empty answer is committed whatever the row has become meanwhile.
TurnAnswers(h) ==
    /\ pc[h] = "turn"
    /\ text[h] = "question"
    /\ Append(h, "ai")
    /\ late' = [late EXCEPT ![h] = IF status = "human" THEN @ + 1 ELSE @]
    /\ GoTo(h, "idle")
    /\ UNCHANGED << row, seen, text, agent, aborts >>

\* The noise filter short-cuts to a fixed system message.
TurnIsNoise(h) ==
    /\ pc[h] = "turn"
    /\ text[h] = "noise"
    /\ Append(h, "noise")
    /\ GoTo(h, "idle")
    /\ KeepRow
    /\ UNCHANGED << seen, text, agent, aborts >>

\* The user's wish, a low score, an empty answer, or any exception on the way.
TurnEscalates(h) ==
    /\ pc[h] = "turn"
    /\ text[h] \in {"intent", "question"}
    /\ GoTo(h, "escalate")
    /\ KeepRow
    /\ UNCHANGED << messages, seen, text, agent, aborts >>
-----------------------------------------------------------------------------
(* handoff_service.escalate                                                *)

EscalateRead(h) ==
    /\ pc[h] = "escalate"
    /\ Read(h)
    /\ GoTo(h, "escalating")
    /\ KeepRow
    /\ UNCHANGED << messages, text, agent, aborts >>

\* Fault: the status read is not looked at.
EscalateCommitAlways(h) ==
    /\ pc[h] = "escalating"
    /\ SetStatus("pending_human")
    /\ Append(h, "handoff")
    /\ Done(h)
    /\ UNCHANGED << owner, text, agent, aborts >>

\* Fault: no notice for a conversation that was not with the engine.
EscalateCommitSilently(h) ==
    /\ pc[h] = "escalating"
    /\ IF seen[h] = "ai"
         THEN SetStatus("pending_human") /\ Append(h, "handoff")
         ELSE UNCHANGED << status, late, messages >>
    /\ Done(h)
    /\ UNCHANGED << owner, text, agent, aborts >>

\* The notice is written in every case, the status only if ai was read.
EscalateCommit(h) ==
    /\ pc[h] = "escalating"
    /\ IF seen[h] = "ai" THEN SetStatus("pending_human") ELSE UNCHANGED << status, late >>
    /\ Append(h, "handoff")
    /\ Done(h)
    /\ UNCHANGED << owner, text, agent, aborts >>
-----------------------------------------------------------------------------
(* The agents' requests: agent_service.                                    *)

\* The request ends without touching anything.
Refuse(r, response) ==
    /\ GoTo(r, response)
    /\ UNCHANGED << seen, agent >>

\* The request has passed its checks and goes on with what it read.
Admit(r, a, l) ==
    /\ GoTo(r, l)
    /\ Read(r)
    /\ agent' = [agent EXCEPT ![r] = a]

Respond(r) ==
    /\ GoTo(r, "ok")
    /\ Forget(r)
    /\ agent' = [agent EXCEPT ![r] = NoAgent]

Arrive(r) ==
    /\ pc[r] \in Resting
    /\ KeepRow
    /\ UNCHANGED << messages, text, aborts >>

TakenByOther(a) == status = "human" /\ owner \notin {NoAgent, a}

ClaimRead(r, a) ==
    /\ Arrive(r)
    /\ \/ TakenByOther(a) /\ Refuse(r, "already_claimed")
       \/ ~TakenByOther(a) /\ ~Legal(status, "claim") /\ Refuse(r, "invalid")
       \/ ~TakenByOther(a) /\ Legal(status, "claim") /\ Admit(r, a, "claiming")

\* Fault: the assignment is forgotten.
ClaimCommitWithoutOwner(r) ==
    /\ pc[r] = "claiming"
    /\ SetStatus(Transition(seen[r], "claim"))
    /\ Respond(r)
    /\ UNCHANGED << owner, messages, text, aborts >>

ClaimCommit(r) ==
    /\ pc[r] = "claiming"
    /\ SetStatus(Transition(seen[r], "claim"))
    /\ owner' = agent[r]
    /\ Respond(r)
    /\ UNCHANGED << messages, text, aborts >>

ReplyRead(r, a) ==
    /\ Arrive(r)
    /\ messages[r]["agent"] < MaxReplies
    /\ \/ (status # "human" \/ owner # a) /\ Refuse(r, "forbidden")
       \/ status = "human" /\ owner = a /\ Admit(r, a, "replying")

ReplyCommit(r) ==
    /\ pc[r] = "replying"
    /\ Append(r, "agent")
    /\ Respond(r)
    /\ KeepRow
    /\ UNCHANGED << text, aborts >>

\* set_mode("ai"); set_mode("human") is claim.
SwitchRead(r, a) ==
    /\ Arrive(r)
    /\ \/ ~Legal(status, "switch_to_ai") /\ Refuse(r, "invalid")
       \/ Legal(status, "switch_to_ai") /\ Admit(r, a, "switching")

\* Fault: the assignment outlives the switch.
SwitchCommitKeepingOwner(r) ==
    /\ pc[r] = "switching"
    /\ SetStatus(Transition(seen[r], "switch_to_ai"))
    /\ Respond(r)
    /\ UNCHANGED << owner, messages, text, aborts >>

SwitchCommit(r) ==
    /\ pc[r] = "switching"
    /\ SetStatus(Transition(seen[r], "switch_to_ai"))
    /\ owner' = NoAgent
    /\ Respond(r)
    /\ UNCHANGED << messages, text, aborts >>

\* Any agent may close; the owner is kept.
CloseRead(r, a) ==
    /\ Arrive(r)
    /\ \/ ~Legal(status, "close") /\ Refuse(r, "invalid")
       \/ Legal(status, "close") /\ Admit(r, a, "closing")

CloseCommit(r) ==
    /\ pc[r] = "closing"
    /\ SetStatus(Transition(seen[r], "close"))
    /\ Respond(r)
    /\ UNCHANGED << owner, messages, text, aborts >>
-----------------------------------------------------------------------------
\* A handler dies between two commits (process crash, lost database or
\* client): what it committed stays, what it was about to do is forgotten.
Abort(p) ==
    /\ InFlight(p)
    /\ aborts < MaxAborts
    /\ aborts' = aborts + 1
    /\ Done(p)
    /\ agent' = IF p \in Requests THEN [agent EXCEPT ![p] = NoAgent] ELSE agent
    /\ KeepRow
    /\ UNCHANGED << messages, text >>

WidgetNext(w) == UserMessage(w) \/ ReadStatus(w) \/ SwitchBack(w) \/ RequestHuman(w)

WebhookNext(h) == WebhookRead(h) \/ WebhookStore(h)

TurnNext(h) == \/ TurnAnswers(h) \/ TurnIsNoise(h) \/ TurnEscalates(h)
               \/ EscalateRead(h) \/ EscalateCommit(h)

RequestNext(r) ==
    \/ \E a \in Agents : ClaimRead(r, a) \/ ReplyRead(r, a)
                            \/ SwitchRead(r, a) \/ CloseRead(r, a)
    \/ ClaimCommit(r) \/ ReplyCommit(r) \/ SwitchCommit(r) \/ CloseCommit(r)

Next ==
    \/ \E w \in Widgets : WidgetNext(w)
    \/ \E h \in Webhooks : WebhookNext(h)
    \/ \E h \in Handlers : TurnNext(h)
    \/ \E r \in Requests : RequestNext(r)
    \/ \E p \in Procs : Abort(p)

Spec == Init /\ [][Next]_vars

\* The event loop resumes every coroutine whose await has completed.
Proceed(h) == ReadStatus(h) \/ SwitchBack(h) \/ WebhookStore(h) \/ TurnNext(h)

FairSpec == Spec /\ \A h \in Handlers : WF_vars(Proceed(h))

\* The same code when a handler runs to its end before the next one starts.
Alone == \A p, q \in Procs : InFlight(p) /\ InFlight(q) => p = q

SerialSpec == Init /\ [][Next /\ Alone']_vars
-----------------------------------------------------------------------------
(* Properties of every interleaving                                        *)

\* While the row says human it names the agent who answers: otherwise the
\* engine is silent (ws_widget, webhook) and reply refuses every agent.
HumanHasOwner == status = "human" => owner \in Agents

\* However handlers and requests interleave, a text gets at most one answer
\* of the engine (an AI message or the noise phrase): a handler that lost its
\* place, or took its turn twice, would break it.
OneAnswerPerText == \A h \in Handlers : Answers(h) <= messages[h]["user"]

\* After an agent has taken over, a connection or delivery whose turn was
\* under way may still talk over the agent once, and never a second time: every
\* text is checked against the row before its turn (ws_widget 110-114,
\* webhook 53-64).
TalksOverAtMostOnce == \A h \in Handlers : late[h] <= 1

\* The points between a SELECT and the commit that acts upon what it returned.
Holds(p) == pc[p] \in {"resume", "escalating", "claiming", "replying", "switching", "closing"}

StaleWriter == \E p \in Procs : Holds(p) /\ pc'[p] # pc[p] /\ seen[p] # status

ByHandler == \E h \in Handlers : pc'[h] # pc[h]

\* Only a writer whose SELECT has gone stale moves a status off the table, and only
\* such a one takes a conversation from its agent on the user's or the engine's
\* account (data-model.md 134-135 leaves that to agents): who acts on the current
\* row takes a legal edge, and one of its own.
OffTableOnlyIfStale ==
    [][status' # status =>
         \/ OnTable(status, status') /\ (status = "human" => ~ByHandler)
         \/ StaleWriter]_vars
-----------------------------------------------------------------------------
(* What the documents promise of the row and of who writes.  It holds when *)
(* no writer's read has gone stale, in particular when handlers run one at *)
(* a time, and fails otherwise.                                            *)

\* Once an agent has taken over, the engine is silent (spec.md FR-005,
\* data-model.md 140).
EngineSilentWhileHuman ==
    [][\A h \in Handlers :
         messages'[h]["ai"] > messages[h]["ai"] => status # "human"]_vars

\* A claim succeeds only if no other agent has the conversation; the loser is
\* answered 409 (rest-api.md 61).
ClaimIsExclusive ==
    [][\A r \in Requests :
         pc[r] = "claiming" /\ pc'[r] = "ok" => ~TakenByOther(agent[r])]_vars

\* An agent's reply is stored only while the conversation is human and theirs
\* (rest-api.md 64).
ReplyIsByOwner ==
    [][\A r \in Requests :
         messages'[r]["agent"] > messages[r]["agent"] =>
             status = "human" /\ owner = agent[r]]_vars

\* Nothing leads out of closed (conversation.py 28-37, and agent_service.py 1: every
\* operation goes through the state machine).
ClosedStaysClosed == [][status = "closed" => status' = "closed"]_vars

\* The code implements the abstract take-over protocol.
Protocol == INSTANCE Takeover WITH status <- status, owner <- owner

FollowsProtocol == Protocol!Spec
-----------------------------------------------------------------------------
(* Liveness, under FairSpec and when no handler dies                       *)

Outcomes(h) == Answers(h) + messages[h]["handoff"]

\* Every turn ends in a message to the user: an answer, the noise phrase or
\* the handoff notice; none gets stuck or ends silently (FR-013).
TurnConcludes ==
    \A h \in Handlers : \A n \in 0 .. 2 * MaxTexts + MaxAsks :
        (pc[h] = "turn" /\ Outcomes(h) = n) ~> Outcomes(h) > n
=============================================================================
