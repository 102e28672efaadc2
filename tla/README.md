# Formal verification of ai-cs-agent

TLA+ models, TLC runs and TLAPS proofs for the customer-service system in
`src/backend/app`, its widget, its agent console and its seed script: an AI engine answers users on a web widget or a webhook
channel from a knowledge base, hands over to human agents when it cannot, and
agents take conversations over, reply, hand back and close.

Paths below are relative to `src/backend/app/` unless they start with `src/`.

## 1. The system

| Component | State it keeps | Operations | Talks to |
|---|---|---|---|
| State machine (`domain/conversation.py`) | none | `transition`, `ai_may_answer` | called by agent operations only |
| Agent operations (`services/agent_service.py`, `api/conversations.py`) | `conversation.status`, `assigned_agent_id`, messages (MySQL) | claim, reply, set_mode, close | state machine, repositories, realtime |
| Escalation (`services/handoff_service.py`) | the same row | escalate | repositories, realtime |
| Widget loop (`api/ws_widget.py`) | one coroutine per connection | connect, user_message, request_human, ping | turn, escalation, repositories, realtime |
| Webhook (`api/webhook.py`) | none besides the rows | inbound | contacts, conversations, turn, escalation |
| Engine turn (`services/chat_service.py`, `engine/`) | a LangGraph run | noise filter, retrieve, grade, generate | retrieval, LLM gateway, messages |
| Routing rules (`domain/routing.py`) | none | noise, human intent, score threshold | engine |
| Knowledge base API (`api/kb.py`) | `knowledge_item` rows, `vector_status` | create, update, delete, import | indexer |
| Indexer and index worker (`services/indexer.py`, `workers/index_worker.py`) | Qdrant points, `vector_status` | index_items, delete_item, scan | embedding gateway, Qdrant, MySQL |
| Retrieval (`services/retrieval.py`) | none | hybrid_search | embedding gateway, Qdrant, then MySQL |
| Realtime (`realtime/`, `api/ws_agent.py`) | sockets per conversation and tenant | register, send, broadcast, Redis fan-out | Redis, widgets, consoles |
| Widget client (`src/frontend/widget`) | conversation id in local storage, bubbles | connect and reconnect, send, render | widget loop |
| Agent console (`src/frontend/agent-console`) | list, selected conversation and its messages | select, poll, claim, reply, switch, close | REST |
| Markdown import (`domain/md_import.py`) | none | parse | knowledge base API |
| Repositories (`repositories/`) | the rows | scoped select, update by id, append | MySQL |
| Start-up (`src/backend/entrypoint.sh`, `src/scripts/seed.py`) | tenant, agent, channels, bot configuration, FAQ | migrate, seed, serve | MySQL, indexer |
| Configuration APIs (`api/channels.py`, `api/bot_config.py`, ...) | the same rows | create, patch | MySQL |
| Authentication, placeholders, health, logging | rows read or written singly | CRUD | none of the above |

How they interact: handlers are asyncio coroutines in one or several server
processes. They share nothing in memory except the socket registry; everything
else goes through MySQL (the source of truth), Qdrant (derived) and Redis
(volatile pushes). Every `await` is a point where another handler runs, and a
turn spends seconds in awaits on the model.

What is hard here, and what "correct" means for it:

* **One conversation, many writers.** A status is read in one session and
  written in another (or later in the same one) with an `UPDATE ... WHERE id`
  that has no condition on what was read. Correct: an agent who took over is
  recorded as the owner, the engine does not answer over them, claims are
  exclusive, replies come from the owner, every move follows the table, every
  turn ends in a message to the user, and nobody waits for good.
* **Two stores.** A row is committed, then indexed: read, embed (remote),
  upsert, mark. Requests and the worker do this at once. Correct: what is marked
  indexed can be found, by its present text; deleted items cannot be found; what
  failed is retried until it succeeds.
* **Search against both.** Qdrant is asked first, MySQL later. Correct: the
  model is given rows, and not rows older than what was scored.
* **Pushes.** Local fan-out, Redis fan-out and the history read at connect race,
  while sockets are lost and instances restart. Correct: a push reaches each
  connected widget once, and what a widget does not show is still on its way.
* **First contact.** Contact and conversation are looked up, then created, with a
  unique index on the one and none on the other. Correct: handlers that race for a
  first contact open one conversation, none is left without its text, and whoever
  comes back finds the conversation they had.
* **A page that shows what was.** Widget and console show answers and histories that
  were read earlier than they arrive. Correct: what is shown as said was said, and
  an agent who stays with a conversation sees it.
* **A start that repeats.** Every container seeds the database before it serves.
  Correct: the tenant is created once and whole, settings survive, and a container
  comes up.
* **A pure parser.** Correct: the imported items are the entries of the file.

`PROJECT.json` lists every component with its status, and under `hazards` each
such place with its line.

## 2. Modules

| Module | What it is | Models |
|---|---|---|
| `ConversationFSM` | pure operators | the transition table as a set of triples, `transition` |
| `Takeover` | abstract specification | what status and owner may do: claim, resume, close, escalate |
| `Conversations` | detailed specification | one conversation row and every handler that works on it |
| `MCConversations` | instances for TLC | symmetry, the constraint of the serial run |
| `ConversationsProof` | theorems | about `Conversations` |
| `KnowledgeIndex` | detailed specification | rows, points, /kb requests, index worker |
| `MCKnowledgeIndex` | instances for TLC | symmetry |
| `KnowledgeIndexProof` | theorems | about `KnowledgeIndex` |
| `Retrieval` | composition | engine turns that search while `KnowledgeIndex` runs |
| `MCRetrieval` | instances for TLC | symmetry |
| `Realtime` | detailed specification | how a committed row reaches the widgets of its conversation |
| `MCRealtime` | instances for TLC | symmetry |
| `RealtimeProof` | theorems | about `Realtime` |
| `RetrievalProof` | theorems | about `Retrieval` |
| `Threads` | abstract specification | what a contact who writes again and again may count on |
| `Intake` | detailed specification | how deliveries, connections and tabs find or create their conversation |
| `MCIntake` | instances for TLC | symmetry |
| `IntakeProof` | theorems | about `Intake` |
| `Setup` | detailed specification | containers that seed and serve, administrators that change what was seeded |
| `MCSetup` | instances for TLC | symmetry |
| `SetupProof` | theorems | about `Setup` |
| `MdImport` | operators, and documents that grow line by line | the Markdown parser |
| `MCMdImport` | an instance for TLC | two levels of headings |
| `MdImportProof` | theorems | about `MdImport` |
| `Console` | detailed specification | the agents' inbox |
| `ConsoleProof` | theorems | about `Console` |

`Conversations` implements `Takeover` (`FollowsProtocol`: checked for one handler at a
time, proved as long as the row is kept while a handler holds what it read), and `Intake`
implements `Threads` (`FollowsThreads`, in every interleaving).
`Retrieval` extends `KnowledgeIndex`: its next-state relation runs the engine's turns
next to the requests and the worker. `Intake` and `Conversations` meet at the commit
that stores a text: `Intake` says into which conversation, `Conversations` what then
happens in one.

### 2.1 Conversations

| Variable | Code |
|---|---|
| `status`, `owner` | `conversation.status`, `conversation.assigned_agent_id` |
| `messages[p][s]` | how many rows of source `s` handler `p` committed; a system row is `noise` or `handoff` by its meta flag |
| `pc[p]` | the await at which `p` stands; for a request, also its last response |
| `seen[p]` | the status `p`'s SELECT returned, while `p` still holds it |
| `text[h]` | whether the text `h` works on is noise, a wish for a human, or a question (`domain/routing.py` decides; no text is both noise and a wish) |
| `agent[r]` | the agent a request runs for |
| `late[h]` | a history variable: answers `h` committed since the present agent took over |
| `aborts` | a bound: handlers that died |

| Actions | Code |
|---|---|
| `UserMessage`, `ReadStatus`, `SwitchBack`, `RequestHuman` | `ws_widget.widget_ws` 91-134 |
| `WebhookRead`, `WebhookStore` | `webhook.py` 41-64 |
| `TurnAnswers`, `TurnIsNoise`, `TurnEscalates` | `chat_service.run_turn` |
| `EscalateRead`, `EscalateCommit` | `handoff_service.escalate` |
| `ClaimRead`/`ClaimCommit`, `ReplyRead`/`ReplyCommit`, `SwitchRead`/`SwitchCommit`, `CloseRead`/`CloseCommit` | `agent_service` |
| `Abort` | a process that dies, a lost client or database between two commits |

Modelling decisions:

* **A session is two steps.** MySQL's repeatable read gives a session the
  snapshot of its first SELECT, and its INSERTs and UPDATEs take effect with its
  commit. So every session of the code is one SELECT step and one commit step;
  a session without a SELECT that matters is one step. `set_status` and
  `touch` issue UPDATE statements that name `id` and `tenant_id`, never the status
  that was read (`repositories/base.py` 36-42).
* **Any status goes with any handler.** A widget opens the conversation it
  remembers by id, whatever channel it came from, and the same conversation may
  be open in several tabs; so both kinds of handler appear in one instance.
* **The engine reads nothing of the conversation row.** Its outcome depends on
  the text and on what retrieval and the model return; a turn on a question may
  answer or escalate (low score, empty answer, any exception).
* **Pushes are left out** of these modules: they carry no state back.
* **Not modelled within a turn:** tokens, the prompt, the message's wording.
* A definition whose comment starts with "Fault:" is a wrong variant of the
  definition after it. No specification uses it; it shows that a run notices.

### 2.2 KnowledgeIndex

| Variable | Code |
|---|---|
| `version[i]` | the text of row `i`, as the number of times it was written; 0 before it exists |
| `live`, `indexed` | the rows that exist; those with `vector_status = indexed` |
| `point[i]` | the version whose embedding Qdrant holds for `i` |
| `pc`, `ids`, `snap` | where a request or worker stands in `index_items`/`delete_item`, what it was asked for, what its SELECT returned |
| `failures` | a bound |

| Actions | Code |
|---|---|
| `CreateItem`, `ImportMarkdown`, `UpdateItem`, `DeleteItem` | `api/kb.py` |
| `Scan` | `index_worker._scan_once` |
| `IndexRead`, `IndexUpsert`, `IndexCommit`, `IndexRefused` | `indexer.index_items`, `embedding.dense_embed` |
| `DeletePoint` | `indexer.delete_item` |
| `Fail` | an exception anywhere in it, which the callers swallow, or a process that dies |

One tenant: items, points and scans are all filtered by it. AUTO_INCREMENT never
hands out an id twice. The gateway returns one vector per text of a call or
refuses the call. A row deleted while `index_items` holds it is not an error:
the mark is an UPDATE by ids.

### 2.3 Retrieval

`stage`, `found`, `confident` and `hits` are a turn's place, the points Qdrant
returned with the version behind each, whether the best score reached the
threshold, and the rows MySQL returned. Of the points, any `TopK` may be the
nearest, and the best score is any of `Scores`, or 0 for an empty result. A configured
threshold or top_k of 0 counts as not configured (`InUse`), which is what keeps an
empty search from the model, except under a negative threshold: `bot_config` takes one,
so `ConfigAssumption` has any integer, and `UngroundedOnlyByDeletion` excuses it by name.
`Query`, `LoadRows`, `Grade` and `TurnFails` are
`retrieval.hybrid_search`, `nodes/grade.py` and the exception branch of
`run_turn`.

### 2.4 Realtime

| Variable | Code |
|---|---|
| `committed` | the message rows a SELECT returns |
| `origin[m]`, `stage[m]`, `todo[m]` | the instance whose handler committed row `m`; where that handler stands; the sockets the loop of `WSManager.send` has still to send to |
| `inbox[s]`, `relay[s]`, `up` | what Redis holds for the subscriber of instance `s`; what the subscriber has still to send and to whom; the instances whose subscriber task runs |
| `conn[w]`, `home[w]`, `registered` | where the connection of socket `w` stands, its instance, the registries (`_conns`) |
| `history[w]` | the rows its SELECT returned |
| `shown[w][m]`, `wiped[w]` | the bubbles of `m` in the widget; the rows it showed before the history, and not since |
| `failures` | a bound |

| Actions | Code |
|---|---|
| `Commit`, `BeginSend`, `Send`, `Publish`, `PublishFails` | `agent_service.reply` 54-64 or `handoff_service.escalate` 21-33, `WSManager.send` and `broadcast`, `pubsub.publish` |
| `Receive`, `Relay`, `SubscriberEnds` | `pubsub.run_subscriber` |
| `Connect`, `ReadHistory`, `SendHistory`, `Unregister` | `ws_widget.widget_ws` 42-78 and 150-151; `onEnvelope` of `app.ts` |
| `Disconnect` | a closed tab or lost network; `ws-client.ts` reconnects with a new socket |
| `InstanceRestarts` | the process ends, `main.lifespan` starts it anew |

Modelling decisions:

* **One conversation**, and of its rows those that are pushed: replies of agents and
  handoff notices. The engine's answers are streamed by the connection
  that runs the turn and reach no other socket; mode changes are no rows.
* **A socket is used once.** A client that reconnects is a new socket; the page it
  shows starts from the history of that socket.
* **What is sent is shown at once.** The transport keeps its order; what is under way
  when a connection dies is shown by nobody, which is what `Disconnect` allows for
  anyway.
* **An inbox is a set.** Nothing stated here depends on the order of pushes, and more
  behaviours are allowed than Redis has.
* **`Unregister` is not fair:** after any exception other than
  `WebSocketDisconnect` the loop ends without it, and the socket stays in the
  registry until a send to it fails.
* The agents' own stream (`notify.py`, `ws_agent.py`) is left out: no page of the console
  opens it (`useAgentSocket` is used nowhere), and it carries hints, no state.

### 2.5 Intake

| Variable | Code |
|---|---|
| `known` | contacts whose row is committed, by channel and external id |
| `state[k]`, `contact[k]` | conversation `k`: no row yet, open (any status but closed), closed; its contact |
| `ended` | a history variable: the conversations that were closed at some time, those that were opened again included |
| `delivered[k]`, `said[k]` | the texts of the webhook and of the tabs stored in it |
| `pc[h]`, `key[h]`, `target[h]` | where a transaction stands, its contact, the conversation its snapshot holds |
| `holds[w]`, `will[w]` | the conversation whose status writer `w` has read, and what it is going to write: closed, or any other status |
| `store` | `localStorage` of the browser |
| `link[t]`, `conv[t]`, `history[t]`, `sent[t]` | the connection of tab `t`, its conversation, the history on its way to the page, texts on their way from it |
| `shows[t]`, `bubbles[t]` | the conversation the page showed last, the user's texts on it |
| `opened` | a history variable: tabs that connected with nothing stored |
| `calls` | a bound |

| Actions | Code |
|---|---|
| `LookUp`, `InsertContact`, `DuplicateContact`, `CommitToFound`, `CommitToNew`, `Abort` | `contact.upsert`, `latest_active_for_contact`, `create`, in the transactions of `webhook.py` 48-60 and `ws_widget.py` 57-67 |
| `Connect`, `Serve`, `Greet`, `Lose` | `wsUrl` and `connect` of the widget, `ws_widget.widget_ws` 57-78, `onEnvelope` |
| `Type`, `StoreText` | `submit` and `send`, `ws_widget.widget_ws` 96-110 |
| `Decide`, `SetStatus`, `GiveUp` | `claim`, `set_mode` and `close` of `agent_service`, `handoff_service.escalate` 18-20, the switch back of `ws_widget` 110-133: a status is read, then one is written by id |

Modelling decisions:

* **A unique index is a lock.** An INSERT of a key that another transaction has
  inserted and not committed waits for it, and fails if it commits. That is
  InnoDB's behaviour and the only thing that orders two first contacts.
* **A transaction reads a snapshot.** So who sees a contact sees the conversation
  that was committed with it; this is why the race is harmless at first contact. After
  a conversation was closed there is no contact left to insert, and two deliveries
  open two (`Threads` says so).
* **A closed conversation may open again.** No event leads out of `closed`, but the
  writers of a status name only the id: one that read before the close writes after it,
  and the conversation is open again, next to one that its contact has opened
  since. `Intake` knows of a status only whether it is `closed`; `Conversations` has the
  same writers with all four. `Threads` says what is left of the promise: a conversation
  comes back only by a decision taken while it was open (`Hold`, `Resume`, `Release`), and a
  contact gets a second open one only after one of its conversations was ended.
* **The widget of this repository sends no `contact_key`.** Its tabs use the stored id;
  connections with a key are modelled next to the webhook, as the code takes them.
* A text is one bubble: two texts with the same wording are two values of `Texts`.

### 2.6 Setup

`tenant`, `agents`, `bots`, `channels[y]`, `faqs` and `items` count rows; `active[y]`
counts the enabled channels of a type; `tuned` and `emptied` remember that an
administrator changed the configuration or deleted the last item. `pc[c]` and `seen[c]`
are a container and the snapshot of its seed.

| Actions | Code |
|---|---|
| `Start`, `InsertTenant`, `TenantTaken`, `SeedRaises`, `SeedCommits` | `entrypoint.sh`, `seed.py` |
| `Stop` | a container that is stopped, or started again by hand after its script failed |
| `CreateChannel`, `PatchChannel`, `PutBotConfig`, `CreateItem`, `DeleteItem` | `api/channels.py`, `api/bot_config.py`, `api/kb.py` |

The seed is one transaction, and the tenant's INSERT is the first of its writes; with
the tenant there, its later INSERTs meet no lock. The FAQ is counted as one item, since
its rows come in one commit. Its index (lines 117-126) is that of any other item
(`KnowledgeIndex`). Two of the five types of channel stand for those the seed looks
for.

### 2.7 MdImport and Console

`MdImport` translates `parse_markdown_faq` as operators on a sequence of lines; a line
is a heading with its `Level` (a constant: any set of headings, each with a number; two
in the run), one of the two fences, text or blank. The variable
`doc` grows by a line per step, so that the run covers every document up to `MaxLines`.
The reference (`ItemsAreEntries`) does not say how items are found: it defines the code
blocks as Markdown does and the entries as maximal stretches between titles.

`Console` has the selected conversation, what the page shows (whose messages and how
many), the messages in the database and the calls under way. `Open`, `Poll` and `Act` begin a
call, `Acted`, `Answer` and `Arrive` are its stages, `Fail` drops it. Slots bound how many
are under way at once.

## 3. Runs

Passing:

| Run | Question | Instance |
|---|---|---|
| `conv_races` | whatever interleaves: is every text answered at most once, an agent talked over at most once by each connection and each delivery, a `human` conversation never without its agent, do only stale writers leave the table or take a conversation from its agent, and does every turn end in a message? | 1 widget, 1 webhook, 1 request slot, 1 agent, 2 texts each |
| `conv_serial` | with one handler at a time, is the code the protocol of `Takeover`, and is the engine silent while an agent has the conversation? | 1 widget, 1 webhook, 1 slot, 2 agents, 2 texts, 2 replies, 1 death |
| `kb_search` | do index and search keep their invariants whatever interleaves and fails, is an answer without a row due to a deletion only, and is everything that waits indexed in the end, once no refused text is left? | 2 items, one of them refused, 1 writer, 1 worker, 1 turn, 2 versions, 1 failure, threshold 0 |
| `kb_answers` | with one operation at a time, is the index current and free of orphans, and is the score that decides that of the text the model is given? | 3 items, one of them refused, 1 writer, 1 worker, 1 turn, 2 versions, threshold 0 |
| `rt_push` | is each push shown at most once by each widget, is no row missed, and is what is on its way shown in the end, also if another socket is lost and after a failure? | 1 row, 2 sockets, 2 instances, 1 failure |
| `intake` | next to writers that open closed conversations again: do first contacts that race open one conversation, is none without its text, are the rows those of `Threads`? | 3 handlers, 4 calls, 2 writers, 1 contact of each channel, 3 conversations |
| `intake_tabs` | does a tab come back to its conversation, and does it show as said only what was said? | 2 tabs, 2 texts, 3 conversations |
| `setup` | is the tenant seeded once and whole, are settings left alone, does some container serve? | 2 containers, 2 stops, 2 channels of a type, 2 items |
| `md_import` | are the items the entries of the file, is no text lost or imported twice, does a file that grows keep its items? | every document of at most 6 lines |
| `console` | does an agent who stays with a conversation see it, up to its last message? | 2 conversations, 2 messages, 3 calls at once, 1 failure |

Violations, each a promise of a document or a test that the code does not keep:

| Run | Promise | What TLC shows |
|---|---|---|
| `kb_stale` | an updated item is answered by its latest text | of two overlapping index operations the older upsert comes last; the row says `indexed`, nothing corrects it |
| `setup_rerun` | the seed may run again and again | POST /channels makes a second webhook channel, its default type; `_ensure_channel` then raises in every seed, and no container starts again |

Further divergences seen while modelling, for which there is no run of their own. Of the
conversation row:

* after a take-over the AI is to be silent (`contracts/rest-api.md` 61, `spec.md` 124): a
  claim that lands while a turn is under way is followed by its answer
  (`EngineSilentWhileHuman` fails under `Spec`). `TalksOverAtMostOnce` says how far this
  goes;
* the second agent is to be answered 409 (`rest-api.md` 61): two claims that read before
  either commits both answer 200, and the first agent is not told (`ClaimIsExclusive`
  fails under `Spec`);
* a reply is to be refused unless the conversation is the agent's (`rest-api.md` 64): one
  that was checked before the conversation was switched, closed or taken is stored after
  it (`ReplyIsByOwner` fails under `Spec`);
* nothing leads out of `closed` (`domain/conversation.py` 28-37, and every operation is to
  go through the state machine, `services/agent_service.py` 1): `claim`, `set_mode`, `escalate`
  and the switch back of the widget loop that read before a close write after it, and the
  conversation is open again (`ClosedStaysClosed` fails under `Spec`). A contact that
  has written in between has two open conversations then;
* `human` is to be left by an agent's request only (`data-model.md` 134-135): `escalate` and
  the switch back, with an earlier read, take the conversation from the agent who has
  just claimed it;
* who waits in `pending_human` is to stay queued, with the AI silent (`data-model.md` 136
  and 141, `spec.md` 108, line 5 of `ws_widget.py`, the unit test that
  `ai_may_answer(pending_human)` is false): a question switches the conversation back to
  `ai` and is answered (`ws_widget.py` 129-134), which the transition table allows. The
  model follows the code; no property takes it for a promise;
* only in status `ai` may the engine answer (`domain/conversation.py` 48): the widget loop
  goes on to a turn in every status but `human` and `pending_human`, closed included, and
  nothing calls `ai_may_answer`;
* `escalate` writes its notice in every status but moves only `ai` to
  `pending_human`: in a closed conversation, or after an agent's switch between
  its read and its commit, the user is told to wait and is in no queue;
* repeating a claim one already holds raises `InvalidTransition`, which no
  endpoint catches, while the contract calls claim idempotent.

Of the knowledge base:

* a deleted item is to be removed from the index (`rest-api.md` 34): the removal of
  the point may fail, which `delete_item` swallows, and the worker looks at rows only; and
  an index operation that read the row before its deletion writes the point again after
  it. Either way `QuietHasNoOrphan` fails under `Spec`;
* without a row the engine is not to answer (`data-model.md` 149): when every point found
  lost its row before the rows are read, the model answers from nothing, since the
  grade node looks at the best score alone (`UngroundedOnlyByDeletion` allows this); a
  negative threshold, which `PUT /bot-config` takes, lets an empty search pass as well;
* the worker is to index what requests could not (`workers/index_worker.py` 3): one text the
  gateway refuses fails the whole batch of the tenant, on every scan, and the backlog waits
  until that item is changed or deleted;
* a `#` in a code block is to be ignored (`domain/md_import.py` 6): a fence of the other kind
  inside a block ends it for the parser, and a `#` after it becomes a title.

Of the pushes:

* after the subscriber task of an instance ended, its widgets never again get what
  other instances commit, though they are connected (`research.md` 29 has each instance
  subscribe): `EventuallyShown` excuses them;
* a reply committed after a connecting widget's history was read, and pushed before
  that history is sent, is wiped by it (`wiped`) and not seen until the next reload,
  while `src/specs/001-ai-cs-agent-web-demo/spec.md`:134 has the history complete after
  a reconnection; one committed before the history was read and pushed after it is
  shown twice (the bound of `PushedAtMostOnce`); the envelope carries `message_id`
  but the widget does not look at it;
* the contract of the agents' socket (`contracts/websocket.md` 2) has a new message
  announced: nothing calls `notify.new_message`, and no page opens that socket.

### Bounds

`MaxTexts` (texts per handler): 2, so that the second text of a handler meets
what the first one left behind; a talk-over bound needs two. `MaxReplies` and
`MaxAsks` are 0 in `conv_races`, since a reply and a wish for a human that is pressed, not
typed, add nothing its properties look at that a text does not, and 2 and 1 in `conv_serial`.
`MaxAborts`, `MaxFailures`:
one death or failure at every point; a handler that died holds nothing, so a
second death only repeats the first. `conv_races` has none, because `TurnConcludes` is
about handlers that live, and one slot with one agent, who races both handlers: the
liveness check has to keep the whole graph. Any number of deaths, slots and agents is in
the theorems of section 5 about the other properties of that run. Two agents in
`conv_serial`, so that "another agent" exists. `MaxVersion`: 2,
so that a text can be stale at all; a third only repeats it.
`rt_push`: two instances, since an instance is either the row's own or
another; two sockets, so that one can be lost under a loop that has the other still to
serve; one row, since rows meet only where a subscriber that relays one lets the next wait.
`intake`: two handlers race for the same contact, a third reads while they do, a fourth
call follows; two writers, so that one closes what the other has read; three
conversations, so that a contact that comes back after an end can find two. Tabs
share no contact with handlers and look a stored id up whatever its status is, so they are
checked apart: `intake_tabs`
has two tabs, so that one can take the other along. `setup`: two containers, of which one has the tenant's
lock; two stops, so that both can restart. `MaxLines`: 6 holds a block with a title in
it between two entries. `console`: three calls, so that an older answer of each
conversation can be under way next to the last one.
`TopK`: 1 in `kb_search`, so that a search leaves points out, 2 of 3 items in
`kb_answers`. What holds for any size is proved (section 5).

`conv_serial` and `kb_answers` check `SerialSpec` and `RetrievalSerialSpec`: the same next-state relation,
restricted to states in which at most one handler is under way (in `conv_serial` by the
action constraint `OneAtATime`, under which `Spec` has just the behaviours of `SerialSpec`). It says what the
code does when nothing overlaps; it takes an overlap to break each of those properties,
and section 5 says which overlaps are harmless. In `kb_answers` the configured threshold is 0, so that the
default must step in.

Deadlock is checked in every run whose configuration does not say otherwise: in the
conversation runs the agents' requests keep every state alive. `intake` may stop when its
calls are used up and all conversations are closed, `rt_push` since
its rows are finite and its sockets are used once; so may `setup` when its containers and
administrators have reached their bounds, `md_import` at the last line and `console` when
nothing is selected and every conversation has its messages.

## 4. Fairness

`conv_races` checks `FairSpec`: weak fairness of each handler's own continuation.
The event loop resumes a coroutine once its await completes, and the awaits of a
turn end because model and embedding clients have time-outs (the OpenAI client's own, 60 s for
embeddings) whose exceptions
`run_turn` turns into an escalation. No fairness is assumed of users, of agents
or of death (`MaxAborts = 0` there: a handler that dies leaves its text
unanswered, by design of the code).

`kb_search` checks weak fairness of each step of `index_items` and of the worker's
scan: `main` of `index_worker` loops forever with a sleep and survives every
exception. Failures are finite in number (`MaxFailures`), nothing is assumed of
the requests or of turns.

`rt_push` checks weak fairness of each handler that pushes (`BeginSend`, `Send`,
`Publish`) and of each subscriber (`Receive`, `Relay`): the event loop resumes them when
a send completes or raises. Nothing is assumed of connections, of users or of
failures; `EventuallyShown` speaks of what is on its way and of failures that come later,
so that it holds a subscriber that runs to its work after a failure, too.

`setup` checks weak fairness of each seed that has started: a script that waits for
another's lock goes on when that one commits or is rolled back. Nothing is assumed of
starts, stops or administrators.

`console` checks weak fairness of each call's stages (a request is answered or fails) and
strong fairness of the timer: `setInterval` fires whatever is under way, but in the model
a poll needs a free slot, which may come and go; the bound, not the code, is what strong
fairness makes up for.

## 5. Proofs

All theorems hold for every number of widgets, webhooks, requests, agents, items,
writers, workers, turns, rows, sockets, instances, contacts, handlers, tabs, texts,
conversations, containers, calls of a console, lines and levels of headings and every
value of the bounds, under the named
assumptions of the modules: `NoInstance` is no instance, `NoKey` no key, `NoConv` no
conversation, `NoAgent` no agent, kinds of processes are disjoint, bounds are natural
numbers, refused items are items, the threshold is an integer, a heading is no other
kind of line and its level is a number.

Together they state every invariant and every action property that a passing run checks.
A theorem says nothing of a run's liveness property, but two of them prove what it rests on.

`ConversationsProof`:

* `TypeCorrect`: `Spec => []TypeOK`. `TypeOK` alone is not inductive:
  `ClaimCommit` assigns `agent[r]` and `Transition(seen[r], ...)`, so the
  strengthening `TypeInv` adds that an admitted request has an agent and has read
  a status from which its event is legal (`Admitted`).
* `HumanIsOwned`: only a claim leads to `human`, it commits with the owner, and
  whatever clears the owner moves the status to `ai` in the same commit, even when
  the writer is stale. This is the one take-over promise that survives every race.
* `AtMostOneAnswer`: from `AnswerInv`, that a handler in a turn has stored one
  more text than it has answered.
* `TalkOverBound`: from `TalkInv`, that a handler which has talked over the agent
  is not in a turn again until the agent lets go: its next text meets the row.
* `StaleWritesOnly`: each commit's target is a legal edge from `seen`, so if
  `seen = status` the step is on the table; and a handler writes a status only after it
  has read `ai` or `pending_human`.
* `KeptImplementsTakeover`, `KeptExclusiveClaim`, `KeptReply`, `KeptClosed`: the promises that races
  break hold as soon as the row changes only when nobody but the writer holds what its
  SELECT returned (`KeptSpec`), which a row lock taken by each SELECT would give; turns,
  connections and deliveries overlap as they like. `KeptInv` adds to `TypeInv` that what
  is held is what the row says, and that who claims or replies stands on the ground
  that was checked (`KeptFresh`), and what the row says of its owner (`OwnerFree`).
  The first of them is the refinement of `Takeover`: initial states map to initial
  states, each step to a step or a stutter.
* `StillSilence`: a lock is not enough for the engine's silence, since a turn reads
  nothing of the row. It takes that the row does not change during somebody's delivery or
  turn either, except by its own commit (`StillSpec`); then no turn is under way while
  an agent has the conversation (`TurnFresh`).
* `SerialImplementsTakeover`, `SerialSilence`:
  the same under `SerialSpec`, which `conv_serial` checks. They follow, since one handler
  at a time keeps the row still (`SerialIsStill`).

`KnowledgeIndexProof`:

* `TypeCorrect`.
* `IndexedIsSearchable`: from `PointInv`: an operation about to mark has points
  for its batch unless the row is gone, and a point is about to be removed only if
  its row is.
* `ApartIndexIsCurrent`: failures included, any number of operations may be under way as
  long as no two are about the same item (`ApartSpec`). So the loss that `kb_stale` shows
  needs two operations on one row, and nothing else breaks the index. `ApartInv` says
  that an operation has present texts in hand, that they are of items it was asked for,
  and that an idle process has none; without that, an upsert could touch another
  operation's item.
* `SerialIndexIsCurrent`: the same under `SerialSpec`, since operations that do not overlap
  at all are apart (`AloneIsApart`).

`RealtimeProof`:

* `TypeCorrect`.
* `PushedOnce`: `Spec => []PushedAtMostOnce`. `Routed` says where a row can be at each
  stage of its push: the own instance's loop serves only sockets of that instance,
  a subscriber only those of another, and no row is in an inbox and in the relay of
  the same instance. `PushedInv` adds that what is still on its way to a
  socket was not pushed to it before.
* `NoRowMissed`: `Spec => []NothingMissed`. `MissedInv` adds that an open socket is
  registered, that all subscribers run until something fails, and what holds
  while the history is under way: the row is in it, is shown, or is on its way.

`RetrievalProof`:

* `RetrievalTypeCorrect`; `NeverOlder`: from the lemma `NotAhead` of `KnowledgeIndexProof`
  (no snapshot and no point is ahead of its row) and from
  that a turn which has queried holds no version ahead of a row.
* `UngroundedIsDeleted`: `RetrievalSpec => []UngroundedOnlyByDeletion`, with any overlap, any
  failure and any threshold. `HitsInv` says that a turn which is confident under a threshold
  that is not negative has found something, which is where `InUse` enters, and that of what
  it has found and not loaded every row is gone; `GoneForGood`: AUTO_INCREMENT does
  not bring an id back.
* `ApartScoreFits`, `ApartNoOrphan`: with `MaxFailures = 0`, and
  as long as operations and turns overlap on different items only: no two operations
  are about one item, and none about an item that a turn under way has found
  (`RetrievalApartSpec`). `AnswerInv` adds to `ApartInv` of `KnowledgeIndexProof`:
  `Fit`, that a point which is not that of its row's present text has an operation at
  work on that item alone, and one without a row has its removal under way; and
  `Grounded`, that a turn under way found what is there.
  `FitLocal` is the lemma that makes
  overlaps tractable: a step of one operation leaves the fit of all items it was not asked
  for alone.
* `SerialScoreFits`, `SerialNoOrphan`: the same under
  `RetrievalSerialSpec`, which `kb_answers` checks (`SerialIsApart`).

`IntakeProof`:

* `TypeCorrect`.
* `FirstContact`: `Spec => []FirstContactIsSafe`, from `KeyInv`: whoever sees a contact
  sees a conversation of it; at most one handler per contact is past its INSERT, and then
  the contact is not known; a contact found without an open conversation has had one, which
  was ended. It may be open again by now, so the theorem speaks of what was ended at some
  time (`ended`). `WritersFit`: a writer holds a conversation that exists.
  `NoDirt` follows from the same invariant.
* `NothingShownInVain`: from `Follows`: the history on its way to a tab is part of what is
  stored in the conversation of its connection.
* `ReturnsToThread`: `Spec => ReturnsToItsThread`. As long as no second tab connected with
  nothing stored (`Single`), all there is names one conversation (`OneThread`): what the
  browser stores, what each tab shows and what each connection serves. The invariant
  `ThreadInv` is that implication; the set of tabs need not be finite, those that
  opened a conversation are.
* `ImplementsThreads`: initial states map to initial states; `CommitToNew` to `Begin`,
  `Decide` to `Hold`, `SetStatus` to `End` or `Resume`, `GiveUp` to `Release`, all else to a
  stutter; so does whatever concerns a tab's conversation. A tab's conversation belongs to no key
  and is no part of the abstract state.

`SetupProof`:

* `TypeCorrect`; `SeedIsSingle`: from `Inv`: the seed that inserts the tenant is alone with
  it until it commits (`InsertsAlone`), and what a snapshot holds of the tenant's rows is
  there still (`SeenHolds`). `SeedSkipsWhatExists` follows step by step from the same
  invariant.
* `FaqOnce`: `Spec => []FaqTwiceOnlyIfEmptied`, from `FaqInv`: a tenant comes with its
  FAQ in one commit, so whoever's snapshot has the tenant and no item saw it emptied.
* `RaceStaysOpen`: `Spec => []RaceIsOpen`, the safety that `SomeoneServes` rests on. Until a
  container serves or is stopped, one seed holds the tenant's row and commits, or none
  does and each one under way may insert it: no deadlock, and not all lose. Its
  `RaceInv` says that a seed is lost only to one that committed.

`MdImportProof`, for documents of any length:

* `NothingIsLost`, `EarlierStayed`: `Anchors` splits a document, and the last anchor
  before a line is the only one whose entry holds it; a line added at the end changes
  neither the fences nor, unless it outranks them, the anchors before it.
* `EntriesAreItems`: `Spec => []ItemsAreEntries`. Its core is `FencedIsHeld`: where no block
  holds a fence of the other kind, the flag that every fence flips is up exactly from the
  first line of a code block to the line before its last. Then the parser's headings are
  the titles that count, its anchors the titles that split, and its stripped bodies the
  reference's entries, in both directions.
* These are facts about recursive functions, and the induction theorems of the
  library are out of the provers' reach. They are proved by the least number
  instead: `LeastNat` (a set of numbers that is not empty has a least member) follows from
  the library's well-foundedness of `<`, and a property that fails somewhere fails
  first at some line, whose predecessor refutes it. The same argument shows that the
  recursive functions exist (`FlipsExists`, `OpensToExists`).

`ConsoleProof`:

* `ShownWasThere`: `Spec => []ShownIsThere`: no answer brings, and the page never shows, more
  of a conversation than is stored.
* `OldCallsOnly`: `Spec => OnlyOldCallsMislead`, the safety that `ShowsSelected` rests on.
  While an agent stays with a conversation and it gets no message, no call starts to
  mislead (to answer for another conversation or with fewer messages than there are), and
  what takes the page from all there is of the conversation is a call that did so before.
  Since each call ends once, only fairness is missing to `ShowsSelected`.

Only model-checked: the liveness properties (`TurnConcludes`,
`WorkerCatchesUp`, `EventuallyShown`, `SomeoneServes`, `ShowsSelected`), since fairness and
`ENABLED` are out of the prover's reach; and the violations, which are counterexamples.

## 6. Not modelled

* Tenants and authentication: who may call what is outside the project. One tenant is
  modelled throughout; every query of the code is filtered by it.
* Prompt text, model calls and tokens, rendering, logging, metrics, health, the run of
  the migrations.
* The agents' own stream (`realtime/notify.py`, `api/ws_agent.py`): hints to pages, of
  which no page of the console makes use.
* The order of pushes: no document promises one, and the history restores the order of
  the rows. Several instances can show two messages in different orders.
* `api/tenants.py`, `api/widget.py`, `core/config.py`: read or written singly.
* Feishu, Telegram, WhatsApp and the tool node raise `NotImplementedError`.
* The regular expressions of `routing.py` and of the parser: a text is given with its
  kind, a line with its class.
* A gateway that returns fewer vectors than texts: `indexer.py` 27 would pair them off and
  mark all rows indexed. The model takes one vector per text as the gateway's contract.
* The inbox's draft: it stays in the field when another conversation is selected, and
  is sent to that one.
* A text left unanswered by a handler that died: by design of the code nothing takes it
  up again.

## 7. Plan

What could follow, in order of what it would add:

1. Conditional writes (`UPDATE ... WHERE status = ?`), once the repositories have them:
   `KeptSpec` would become the specification, and its theorems promises of the code.
2. The agents' stream, once a page of the console uses it: counts and snapshots next to
   polling.
3. The order of pushes (inboxes as sequences), once the envelope's `message_id` is used
   to sort or to drop repeats.
4. The safety that the remaining liveness properties rest on, as `RaceStaysOpen` and
   `OldCallsOnly` state it for two of them: that a turn in `Conversations` and a pending row in
   `KnowledgeIndex` always have a step that leads on.
