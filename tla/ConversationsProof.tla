------------------------- MODULE ConversationsProof -------------------------
(***************************************************************************)
(* Theorems about Conversations, for any number of connections,            *)
(* deliveries, requests and agents and any bounds.                         *)
(***************************************************************************)
EXTENDS Conversations, TLAPS

(***************************************************************************)
(* The transition table                                                    *)
(***************************************************************************)

\* transition() is a function of the event alone wherever it is defined: the
\* target of a legal event does not depend on the status it was read from.
LEMMA TransitionTarget ==
    ASSUME NEW s \in Status
    PROVE  /\ Legal(s, "claim") => Transition(s, "claim") = "human"
           /\ Legal(s, "switch_to_ai") => Transition(s, "switch_to_ai") = "ai"
           /\ Legal(s, "close") => Transition(s, "close") = "closed"
           /\ Legal(s, "escalate") => Transition(s, "escalate") = "pending_human"
<1>1. Legal(s, "claim") => Transition(s, "claim") = "human"
  BY DEF Legal, Transition, Table, Status
<1>2. Legal(s, "switch_to_ai") => Transition(s, "switch_to_ai") = "ai"
  BY DEF Legal, Transition, Table, Status
<1>3. Legal(s, "close") => Transition(s, "close") = "closed"
  BY DEF Legal, Transition, Table, Status
<1>4. Legal(s, "escalate") => Transition(s, "escalate") = "pending_human"
  BY DEF Legal, Transition, Table, Status
<1>. QED  BY <1>1, <1>2, <1>3, <1>4

\* Which statuses an event may be fired from.
LEMMA LegalSources ==
    ASSUME NEW s \in Status
    PROVE  /\ Legal(s, "claim") <=> s \in {"ai", "pending_human"}
           /\ Legal(s, "switch_to_ai") <=> s \in {"pending_human", "human"}
           /\ Legal(s, "close") <=> s # "closed"
           /\ Legal(s, "escalate") <=> s = "ai"
  BY DEF Legal, Table, Status

(***************************************************************************)
(* Types                                                                   *)
(***************************************************************************)

\* Connections, deliveries and requests are different processes.
LEMMA ProcsPartition ==
    /\ Widgets \subseteq Handlers /\ Webhooks \subseteq Handlers
    /\ Handlers \subseteq Procs /\ Requests \subseteq Procs
    /\ \A h \in Handlers, r \in Requests : h # r
    /\ \A w \in Widgets, h \in Webhooks : w # h
  BY ProcessAssumption DEF Handlers, Procs

\* What the shared steps do to the types of what they write.
LEMMA StepTypes ==
    ASSUME TypeOK, NEW p \in Procs
    PROVE  /\ \A s \in Source : Append(p, s) => messages' \in [Procs -> [Source -> Nat]]
           /\ \A l \in Resting \cup Working :
                GoTo(p, l) => pc' \in [Procs -> Resting \cup Working]
           /\ Read(p) => seen' \in [Procs -> Status]
           /\ Forget(p) => seen' \in [Procs -> Status]
           /\ \A s \in Status : SetStatus(s) => status' \in Status /\ late' \in [Handlers -> Nat]
           /\ KeepRow => /\ status' \in Status /\ late' \in [Handlers -> Nat]
                         /\ owner' \in Agents \cup {NoAgent}
<1>1. \A s \in Source : Append(p, s) => messages' \in [Procs -> [Source -> Nat]]
  BY DEF TypeOK, Append
<1>2. \A l \in Resting \cup Working :
        GoTo(p, l) => pc' \in [Procs -> Resting \cup Working]
  BY DEF TypeOK, GoTo
<1>3. (Read(p) \/ Forget(p)) => seen' \in [Procs -> Status]
  BY DEF TypeOK, Read, Forget, Status
<1>4. \A s \in Status : SetStatus(s) => status' \in Status /\ late' \in [Handlers -> Nat]
  BY DEF TypeOK, SetStatus
<1>5. KeepRow => /\ status' \in Status /\ late' \in [Handlers -> Nat]
                 /\ owner' \in Agents \cup {NoAgent}
  BY DEF TypeOK, KeepRow, row
<1>. QED  BY <1>1, <1>2, <1>3, <1>4, <1>5

\* What an admitted request has read lets its event fire, and a widget is about
\* to switch back only after it has read pending_human.
Admitted ==
    /\ \A r \in Requests :
         /\ pc[r] = "claiming" => Legal(seen[r], "claim") /\ agent[r] \in Agents
         /\ pc[r] = "switching" => Legal(seen[r], "switch_to_ai")
         /\ pc[r] = "closing" => Legal(seen[r], "close")
    /\ \A h \in Handlers : pc[h] = "resume" => seen[h] = "pending_human"

\* The first half of a request, whichever it is: it leaves the types intact.
LEMMA FirstHalfTypes ==
    ASSUME TypeOK, NEW r \in Requests, NEW a \in Agents, Arrive(r),
           \/ \E response \in Resting : Refuse(r, response)
           \/ \E l \in Working : Admit(r, a, l)
    PROVE  TypeOK'
<1>1. pc' \in [Procs -> Resting \cup Working] /\ seen' \in [Procs -> Status]
  BY ProcsPartition, StepTypes DEF Refuse, Admit, TypeOK
<1>2. agent' \in [Requests -> Agents \cup {NoAgent}]
  BY DEF Refuse, Admit, TypeOK
<1>. QED  BY <1>1, <1>2, ProcsPartition, StepTypes DEF Arrive, TypeOK

\* Every action keeps every variable in its type.
LEMMA TypeStep ==
    ASSUME TypeOK, Admitted, [Next]_vars
    PROVE  TypeOK'
<1>1. ASSUME NEW w \in Widgets, UserMessage(w)  PROVE TypeOK'
  BY <1>1, ProcsPartition, StepTypes DEF UserMessage, TypeOK, Source, Resting, Working, TextKind
<1>2. ASSUME NEW w \in Widgets, ReadStatus(w)  PROVE TypeOK'
  BY <1>2, ProcsPartition, StepTypes DEF ReadStatus, Done, TypeOK, Source, Resting, Working
<1>3. ASSUME NEW w \in Widgets, SwitchBack(w)  PROVE TypeOK'
  BY <1>3, ProcsPartition, StepTypes DEF SwitchBack, TypeOK, Source, Resting, Working, Status
<1>4. ASSUME NEW w \in Widgets, RequestHuman(w)  PROVE TypeOK'
  BY <1>4, ProcsPartition, StepTypes DEF RequestHuman, TypeOK, Source, Resting, Working
<1>5. ASSUME NEW h \in Webhooks, WebhookRead(h)  PROVE TypeOK'
  BY <1>5, ProcsPartition, StepTypes DEF WebhookRead, TypeOK, Source, Resting, Working, TextKind
<1>6. ASSUME NEW h \in Webhooks, WebhookStore(h)  PROVE TypeOK'
  BY <1>6, ProcsPartition, StepTypes DEF WebhookStore, TypeOK, Source, Resting, Working
<1>7. ASSUME NEW h \in Handlers, TurnAnswers(h)  PROVE TypeOK'
  BY <1>7, ProcsPartition, StepTypes DEF TurnAnswers, TypeOK, Source, Resting, Working, row
<1>8. ASSUME NEW h \in Handlers, TurnIsNoise(h)  PROVE TypeOK'
  BY <1>8, ProcsPartition, StepTypes DEF TurnIsNoise, TypeOK, Source, Resting, Working
<1>9. ASSUME NEW h \in Handlers, TurnEscalates(h)  PROVE TypeOK'
  BY <1>9, ProcsPartition, StepTypes DEF TurnEscalates, TypeOK, Source, Resting, Working
<1>10. ASSUME NEW h \in Handlers, EscalateRead(h)  PROVE TypeOK'
  BY <1>10, ProcsPartition, StepTypes DEF EscalateRead, TypeOK, Source, Resting, Working
<1>11. ASSUME NEW h \in Handlers, EscalateCommit(h)  PROVE TypeOK'
  BY <1>11, ProcsPartition, StepTypes
     DEF EscalateCommit, Done, TypeOK, Source, Resting, Working, Status
<1>12. ASSUME NEW r \in Requests, NEW a \in Agents, ClaimRead(r, a)  PROVE TypeOK'
  BY <1>12, FirstHalfTypes DEF ClaimRead, Resting, Working, Arrive
<1>13. ASSUME NEW r \in Requests, NEW a \in Agents, ReplyRead(r, a)  PROVE TypeOK'
  BY <1>13, FirstHalfTypes DEF ReplyRead, Resting, Working, Arrive
<1>14. ASSUME NEW r \in Requests, NEW a \in Agents, SwitchRead(r, a)  PROVE TypeOK'
  BY <1>14, FirstHalfTypes DEF SwitchRead, Resting, Working, Arrive
<1>15. ASSUME NEW r \in Requests, NEW a \in Agents, CloseRead(r, a)  PROVE TypeOK'
  BY <1>15, FirstHalfTypes DEF CloseRead, Resting, Working, Arrive
<1>16. ASSUME NEW r \in Requests, ClaimCommit(r)  PROVE TypeOK'
  BY <1>16, ProcsPartition, StepTypes, TransitionTarget
     DEF ClaimCommit, Respond, TypeOK, Source, Resting, Working, Admitted, Status
<1>17. ASSUME NEW r \in Requests, ReplyCommit(r)  PROVE TypeOK'
  BY <1>17, ProcsPartition, StepTypes DEF ReplyCommit, Respond, TypeOK, Source, Resting, Working
<1>18. ASSUME NEW r \in Requests, SwitchCommit(r)  PROVE TypeOK'
  BY <1>18, ProcsPartition, StepTypes, TransitionTarget
     DEF SwitchCommit, Respond, TypeOK, Source, Resting, Working, Admitted, Status
<1>19. ASSUME NEW r \in Requests, CloseCommit(r)  PROVE TypeOK'
  BY <1>19, ProcsPartition, StepTypes, TransitionTarget
     DEF CloseCommit, Respond, TypeOK, Source, Resting, Working, Admitted, Status
<1>20. ASSUME NEW p \in Procs, Abort(p)  PROVE TypeOK'
  BY <1>20, ProcsPartition, StepTypes
     DEF Abort, Done, InFlight, TypeOK, Source, Resting, Working
<1>21. CASE UNCHANGED vars
  BY <1>21, ProcsPartition, StepTypes DEF vars, row, locals, TypeOK
<1>. QED
  BY <1>1, <1>2, <1>3, <1>4, <1>5, <1>6, <1>7, <1>8, <1>9, <1>10, <1>11, <1>12,
     <1>13, <1>14, <1>15, <1>16, <1>17, <1>18, <1>19, <1>20, <1>21
     DEF Next, WidgetNext, WebhookNext, TurnNext, RequestNext

\* Every action keeps Admitted: a request is admitted by its own read only.
LEMMA AdmittedStep ==
    ASSUME TypeOK, Admitted, [Next]_vars
    PROVE  Admitted'
<1>1. ASSUME NEW w \in Widgets, UserMessage(w)  PROVE Admitted'
  BY <1>1, ProcsPartition DEF UserMessage, GoTo, TypeOK, Admitted
<1>2. ASSUME NEW w \in Widgets, ReadStatus(w)  PROVE Admitted'
  BY <1>2, ProcsPartition DEF ReadStatus, Done, Forget, Read, GoTo, TypeOK, Admitted
<1>3. ASSUME NEW w \in Widgets, SwitchBack(w)  PROVE Admitted'
  BY <1>3, ProcsPartition DEF SwitchBack, GoTo, Forget, TypeOK, Admitted
<1>4. ASSUME NEW w \in Widgets, RequestHuman(w)  PROVE Admitted'
  BY <1>4, ProcsPartition DEF RequestHuman, GoTo, TypeOK, Admitted
<1>5. ASSUME NEW h \in Webhooks, WebhookRead(h)  PROVE Admitted'
  BY <1>5, ProcsPartition DEF WebhookRead, Read, GoTo, TypeOK, Admitted
<1>6. ASSUME NEW h \in Webhooks, WebhookStore(h)  PROVE Admitted'
  BY <1>6, ProcsPartition DEF WebhookStore, GoTo, Forget, TypeOK, Admitted
<1>7. ASSUME NEW h \in Handlers, TurnAnswers(h)  PROVE Admitted'
  BY <1>7, ProcsPartition DEF TurnAnswers, GoTo, TypeOK, Admitted
<1>8. ASSUME NEW h \in Handlers, TurnIsNoise(h)  PROVE Admitted'
  BY <1>8, ProcsPartition DEF TurnIsNoise, GoTo, TypeOK, Admitted
<1>9. ASSUME NEW h \in Handlers, TurnEscalates(h)  PROVE Admitted'
  BY <1>9, ProcsPartition DEF TurnEscalates, GoTo, TypeOK, Admitted
<1>10. ASSUME NEW h \in Handlers, EscalateRead(h)  PROVE Admitted'
  BY <1>10, ProcsPartition DEF EscalateRead, Read, GoTo, TypeOK, Admitted
<1>11. ASSUME NEW h \in Handlers, EscalateCommit(h)  PROVE Admitted'
  BY <1>11, ProcsPartition DEF EscalateCommit, Done, Forget, GoTo, TypeOK, Admitted
<1>12. ASSUME NEW r \in Requests, NEW a \in Agents, ClaimRead(r, a)  PROVE Admitted'
  BY <1>12, ProcsPartition
     DEF ClaimRead, Arrive, Refuse, Admit, Read, GoTo, Resting, TypeOK, Admitted
<1>13. ASSUME NEW r \in Requests, NEW a \in Agents, ReplyRead(r, a)  PROVE Admitted'
  BY <1>13, ProcsPartition
     DEF ReplyRead, Arrive, Refuse, Admit, Read, GoTo, Resting, TypeOK, Admitted
<1>14. ASSUME NEW r \in Requests, NEW a \in Agents, SwitchRead(r, a)  PROVE Admitted'
  BY <1>14, ProcsPartition
     DEF SwitchRead, Arrive, Refuse, Admit, Read, GoTo, Resting, TypeOK, Admitted
<1>15. ASSUME NEW r \in Requests, NEW a \in Agents, CloseRead(r, a)  PROVE Admitted'
  BY <1>15, ProcsPartition
     DEF CloseRead, Arrive, Refuse, Admit, Read, GoTo, Resting, TypeOK, Admitted
<1>16. ASSUME NEW r \in Requests, ClaimCommit(r)  PROVE Admitted'
  BY <1>16, ProcsPartition DEF ClaimCommit, Respond, GoTo, Forget, TypeOK, Admitted
<1>17. ASSUME NEW r \in Requests, ReplyCommit(r)  PROVE Admitted'
  BY <1>17, ProcsPartition DEF ReplyCommit, Respond, GoTo, Forget, TypeOK, Admitted
<1>18. ASSUME NEW r \in Requests, SwitchCommit(r)  PROVE Admitted'
  BY <1>18, ProcsPartition DEF SwitchCommit, Respond, GoTo, Forget, TypeOK, Admitted
<1>19. ASSUME NEW r \in Requests, CloseCommit(r)  PROVE Admitted'
  BY <1>19, ProcsPartition DEF CloseCommit, Respond, GoTo, Forget, TypeOK, Admitted
<1>20. ASSUME NEW p \in Procs, Abort(p)  PROVE Admitted'
  BY <1>20, ProcsPartition DEF Abort, Done, Forget, GoTo, TypeOK, Admitted
<1>21. CASE UNCHANGED vars
  BY <1>21, ProcsPartition DEF vars, row, locals, Admitted
<1>. QED
  BY <1>1, <1>2, <1>3, <1>4, <1>5, <1>6, <1>7, <1>8, <1>9, <1>10, <1>11, <1>12,
     <1>13, <1>14, <1>15, <1>16, <1>17, <1>18, <1>19, <1>20, <1>21
     DEF Next, WidgetNext, WebhookNext, TurnNext, RequestNext

TypeInv == TypeOK /\ Admitted

\* The initial state is well typed, with nobody admitted.
LEMMA TypeInvInit == ASSUME Init PROVE TypeInv
  BY ProcsPartition
     DEF Init, TypeInv, TypeOK, Admitted, Status, Source, Resting, Working, TextKind

\* Every variable keeps its type, and whoever is admitted may fire its event.
LEMMA TypeInvariance == Spec => []TypeInv
<1>1. Init => TypeInv
  BY TypeInvInit
<1>2. TypeInv /\ [Next]_vars => TypeInv'
  BY TypeStep, AdmittedStep DEF TypeInv
<1>. QED  BY <1>1, <1>2, PTL DEF Spec

\* Every variable keeps its type in every interleaving of the handlers.
THEOREM TypeCorrect == Spec => []TypeOK
<1>1. TypeInv => TypeOK
  BY DEF TypeInv
<1>. QED  BY <1>1, TypeInvariance, PTL

(***************************************************************************)
(* Ownership                                                               *)
(***************************************************************************)

\* Every action keeps the owner of a conversation that is with a human.
LEMMA OwnerStep ==
    ASSUME TypeInv, HumanHasOwner, [Next]_vars
    PROVE  HumanHasOwner'
<1>1. ASSUME NEW w \in Widgets, UserMessage(w)  PROVE HumanHasOwner'
  BY <1>1 DEF UserMessage, KeepRow, row, HumanHasOwner
<1>2. ASSUME NEW w \in Widgets, ReadStatus(w)  PROVE HumanHasOwner'
  BY <1>2 DEF ReadStatus, KeepRow, row, HumanHasOwner
<1>3. ASSUME NEW w \in Widgets, SwitchBack(w)  PROVE HumanHasOwner'
  BY <1>3 DEF SwitchBack, SetStatus, HumanHasOwner
<1>4. ASSUME NEW w \in Widgets, RequestHuman(w)  PROVE HumanHasOwner'
  BY <1>4 DEF RequestHuman, KeepRow, row, HumanHasOwner
<1>5. ASSUME NEW h \in Webhooks, WebhookRead(h)  PROVE HumanHasOwner'
  BY <1>5 DEF WebhookRead, KeepRow, row, HumanHasOwner
<1>6. ASSUME NEW h \in Webhooks, WebhookStore(h)  PROVE HumanHasOwner'
  BY <1>6 DEF WebhookStore, KeepRow, row, HumanHasOwner
<1>7. ASSUME NEW h \in Handlers, TurnAnswers(h)  PROVE HumanHasOwner'
  BY <1>7 DEF TurnAnswers, row, HumanHasOwner
<1>8. ASSUME NEW h \in Handlers, TurnIsNoise(h)  PROVE HumanHasOwner'
  BY <1>8 DEF TurnIsNoise, KeepRow, row, HumanHasOwner
<1>9. ASSUME NEW h \in Handlers, TurnEscalates(h)  PROVE HumanHasOwner'
  BY <1>9 DEF TurnEscalates, KeepRow, row, HumanHasOwner
<1>10. ASSUME NEW h \in Handlers, EscalateRead(h)  PROVE HumanHasOwner'
  BY <1>10 DEF EscalateRead, KeepRow, row, HumanHasOwner
<1>11. ASSUME NEW h \in Handlers, EscalateCommit(h)  PROVE HumanHasOwner'
  BY <1>11 DEF EscalateCommit, SetStatus, HumanHasOwner
<1>12. ASSUME NEW r \in Requests, NEW a \in Agents, ClaimRead(r, a)  PROVE HumanHasOwner'
  BY <1>12 DEF ClaimRead, Arrive, KeepRow, row, HumanHasOwner
<1>13. ASSUME NEW r \in Requests, NEW a \in Agents, ReplyRead(r, a)  PROVE HumanHasOwner'
  BY <1>13 DEF ReplyRead, Arrive, KeepRow, row, HumanHasOwner
<1>14. ASSUME NEW r \in Requests, NEW a \in Agents, SwitchRead(r, a)  PROVE HumanHasOwner'
  BY <1>14 DEF SwitchRead, Arrive, KeepRow, row, HumanHasOwner
<1>15. ASSUME NEW r \in Requests, NEW a \in Agents, CloseRead(r, a)  PROVE HumanHasOwner'
  BY <1>15 DEF CloseRead, Arrive, KeepRow, row, HumanHasOwner
<1>16. ASSUME NEW r \in Requests, ClaimCommit(r)  PROVE HumanHasOwner'
  BY <1>16, TransitionTarget, ProcsPartition
     DEF ClaimCommit, SetStatus, HumanHasOwner, TypeInv, TypeOK, Admitted
<1>17. ASSUME NEW r \in Requests, ReplyCommit(r)  PROVE HumanHasOwner'
  BY <1>17 DEF ReplyCommit, KeepRow, row, HumanHasOwner
<1>18. ASSUME NEW r \in Requests, SwitchCommit(r)  PROVE HumanHasOwner'
  BY <1>18, TransitionTarget, ProcsPartition
     DEF SwitchCommit, SetStatus, HumanHasOwner, TypeInv, TypeOK, Admitted
<1>19. ASSUME NEW r \in Requests, CloseCommit(r)  PROVE HumanHasOwner'
  BY <1>19, TransitionTarget, ProcsPartition
     DEF CloseCommit, SetStatus, HumanHasOwner, TypeInv, TypeOK, Admitted
<1>20. ASSUME NEW p \in Procs, Abort(p)  PROVE HumanHasOwner'
  BY <1>20 DEF Abort, KeepRow, row, HumanHasOwner
<1>21. CASE UNCHANGED vars
  BY <1>21 DEF vars, row, locals, HumanHasOwner
<1>. QED
  BY <1>1, <1>2, <1>3, <1>4, <1>5, <1>6, <1>7, <1>8, <1>9, <1>10, <1>11, <1>12,
     <1>13, <1>14, <1>15, <1>16, <1>17, <1>18, <1>19, <1>20, <1>21
     DEF Next, WidgetNext, WebhookNext, TurnNext, RequestNext

\* A conversation that is with a human always names an agent, whatever claims,
\* switches, closings and escalations race for the row.
THEOREM HumanIsOwned == Spec => []HumanHasOwner
<1>1. Init => HumanHasOwner
  BY DEF Init, HumanHasOwner
<1>2. TypeInv /\ HumanHasOwner /\ [Next]_vars => HumanHasOwner'
  BY OwnerStep
<1>. QED  BY <1>1, <1>2, TypeInvariance, PTL DEF Spec

(***************************************************************************)
(* Answers                                                                 *)
(***************************************************************************)

\* A text on its way to a turn, or in one, has not been answered yet.
Unanswered(h) == pc[h] \in {"stored", "resume", "turn"}

AnswerInv ==
    \A h \in Handlers :
        /\ Answers(h) <= messages[h]["user"]
        /\ Unanswered(h) => Answers(h) < messages[h]["user"]

\* Every action keeps AnswerInv: an answer leaves the turn it was due in.
LEMMA AnswerStep ==
    ASSUME TypeInv, AnswerInv, [Next]_vars
    PROVE  AnswerInv'
<1>1. ASSUME NEW w \in Widgets, UserMessage(w)  PROVE AnswerInv'
  BY <1>1, ProcsPartition
     DEF UserMessage, Append, GoTo, AnswerInv, Unanswered, Answers, TypeInv, TypeOK, Source
<1>2. ASSUME NEW w \in Widgets, ReadStatus(w)  PROVE AnswerInv'
  BY <1>2, ProcsPartition
     DEF ReadStatus, Done, Forget, Read, GoTo, AnswerInv, Unanswered, Answers, TypeInv, TypeOK
<1>3. ASSUME NEW w \in Widgets, SwitchBack(w)  PROVE AnswerInv'
  BY <1>3, ProcsPartition
     DEF SwitchBack, GoTo, Forget, AnswerInv, Unanswered, Answers, TypeInv, TypeOK
<1>4. ASSUME NEW w \in Widgets, RequestHuman(w)  PROVE AnswerInv'
  BY <1>4, ProcsPartition
     DEF RequestHuman, GoTo, AnswerInv, Unanswered, Answers, TypeInv, TypeOK
<1>5. ASSUME NEW h \in Webhooks, WebhookRead(h)  PROVE AnswerInv'
  BY <1>5, ProcsPartition
     DEF WebhookRead, Read, GoTo, AnswerInv, Unanswered, Answers, TypeInv, TypeOK
<1>6. ASSUME NEW h \in Webhooks, WebhookStore(h)  PROVE AnswerInv'
  BY <1>6, ProcsPartition
     DEF WebhookStore, Append, GoTo, Forget, AnswerInv, Unanswered, Answers, TypeInv,
         TypeOK, Source
<1>7. ASSUME NEW h \in Handlers, TurnAnswers(h)  PROVE AnswerInv'
  BY <1>7, ProcsPartition
     DEF TurnAnswers, Append, GoTo, AnswerInv, Unanswered, Answers, TypeInv, TypeOK, Source
<1>8. ASSUME NEW h \in Handlers, TurnIsNoise(h)  PROVE AnswerInv'
  BY <1>8, ProcsPartition
     DEF TurnIsNoise, Append, GoTo, AnswerInv, Unanswered, Answers, TypeInv, TypeOK, Source
<1>9. ASSUME NEW h \in Handlers, TurnEscalates(h)  PROVE AnswerInv'
  BY <1>9, ProcsPartition
     DEF TurnEscalates, GoTo, AnswerInv, Unanswered, Answers, TypeInv, TypeOK
<1>10. ASSUME NEW h \in Handlers, EscalateRead(h)  PROVE AnswerInv'
  BY <1>10, ProcsPartition
     DEF EscalateRead, Read, GoTo, AnswerInv, Unanswered, Answers, TypeInv, TypeOK
<1>11. ASSUME NEW h \in Handlers, EscalateCommit(h)  PROVE AnswerInv'
  BY <1>11, ProcsPartition
     DEF EscalateCommit, Append, Done, Forget, GoTo, AnswerInv, Unanswered, Answers,
         TypeInv, TypeOK, Source
<1>12. ASSUME NEW r \in Requests, NEW a \in Agents, ClaimRead(r, a)  PROVE AnswerInv'
  BY <1>12, ProcsPartition
     DEF ClaimRead, Arrive, Refuse, Admit, Read, GoTo, Resting, AnswerInv, Unanswered,
         Answers, TypeInv, TypeOK
<1>13. ASSUME NEW r \in Requests, NEW a \in Agents, ReplyRead(r, a)  PROVE AnswerInv'
  BY <1>13, ProcsPartition
     DEF ReplyRead, Arrive, Refuse, Admit, Read, GoTo, Resting, AnswerInv, Unanswered,
         Answers, TypeInv, TypeOK
<1>14. ASSUME NEW r \in Requests, NEW a \in Agents, SwitchRead(r, a)  PROVE AnswerInv'
  BY <1>14, ProcsPartition
     DEF SwitchRead, Arrive, Refuse, Admit, Read, GoTo, Resting, AnswerInv, Unanswered,
         Answers, TypeInv, TypeOK
<1>15. ASSUME NEW r \in Requests, NEW a \in Agents, CloseRead(r, a)  PROVE AnswerInv'
  BY <1>15, ProcsPartition
     DEF CloseRead, Arrive, Refuse, Admit, Read, GoTo, Resting, AnswerInv, Unanswered,
         Answers, TypeInv, TypeOK
<1>16. ASSUME NEW r \in Requests, ClaimCommit(r)  PROVE AnswerInv'
  BY <1>16, ProcsPartition
     DEF ClaimCommit, Respond, GoTo, Forget, AnswerInv, Unanswered, Answers, TypeInv, TypeOK
<1>17. ASSUME NEW r \in Requests, ReplyCommit(r)  PROVE AnswerInv'
  BY <1>17, ProcsPartition
     DEF ReplyCommit, Append, Respond, GoTo, Forget, AnswerInv, Unanswered, Answers,
         TypeInv, TypeOK, Source
<1>18. ASSUME NEW r \in Requests, SwitchCommit(r)  PROVE AnswerInv'
  BY <1>18, ProcsPartition
     DEF SwitchCommit, Respond, GoTo, Forget, AnswerInv, Unanswered, Answers, TypeInv, TypeOK
<1>19. ASSUME NEW r \in Requests, CloseCommit(r)  PROVE AnswerInv'
  BY <1>19, ProcsPartition
     DEF CloseCommit, Respond, GoTo, Forget, AnswerInv, Unanswered, Answers, TypeInv, TypeOK
<1>20. ASSUME NEW p \in Procs, Abort(p)  PROVE AnswerInv'
  BY <1>20, ProcsPartition
     DEF Abort, Done, Forget, GoTo, AnswerInv, Unanswered, Answers, TypeInv, TypeOK
<1>21. CASE UNCHANGED vars
  BY <1>21, ProcsPartition DEF vars, row, locals, AnswerInv, Unanswered, Answers
<1>. QED
  BY <1>1, <1>2, <1>3, <1>4, <1>5, <1>6, <1>7, <1>8, <1>9, <1>10, <1>11, <1>12,
     <1>13, <1>14, <1>15, <1>16, <1>17, <1>18, <1>19, <1>20, <1>21
     DEF Next, WidgetNext, WebhookNext, TurnNext, RequestNext

\* No text is answered twice by the engine.
THEOREM AtMostOneAnswer == Spec => []OneAnswerPerText
<1>1. Init => AnswerInv
  BY ProcsPartition DEF Init, AnswerInv, Unanswered, Answers, Source
<1>2. TypeInv /\ AnswerInv /\ [Next]_vars => AnswerInv'
  BY AnswerStep
<1>3. AnswerInv => OneAnswerPerText
  BY DEF AnswerInv, OneAnswerPerText
<1>. QED  BY <1>1, <1>2, <1>3, TypeInvariance, PTL DEF Spec

(***************************************************************************)
(* Talking over the agent                                                  *)
(***************************************************************************)

\* A handler that has yet to answer on the strength of what it read before the
\* agent took over.
OnOldNews(h) == \/ pc[h] = "turn"
                \/ pc[h] = "received" /\ seen[h] \notin {"human", "pending_human"}

\* Nothing is counted while no agent has the conversation; and while one has
\* it, a handler that may still answer has not yet done so.
TalkInv ==
    \A h \in Handlers :
        /\ late[h] <= 1
        /\ status # "human" => late[h] = 0
        /\ OnOldNews(h) => late[h] = 0

\* Every action keeps TalkInv.
LEMMA TalkStep ==
    ASSUME TypeInv, TalkInv, [Next]_vars
    PROVE  TalkInv'
<1>1. ASSUME NEW w \in Widgets, UserMessage(w)  PROVE TalkInv'
  BY <1>1, ProcsPartition
     DEF UserMessage, GoTo, KeepRow, row, TalkInv, OnOldNews, TypeInv, TypeOK
<1>2. ASSUME NEW w \in Widgets, ReadStatus(w)  PROVE TalkInv'
  BY <1>2, ProcsPartition
     DEF ReadStatus, Done, Forget, Read, GoTo, KeepRow, row, TalkInv, OnOldNews, TypeInv, TypeOK
<1>3. ASSUME NEW w \in Widgets, SwitchBack(w)  PROVE TalkInv'
  BY <1>3, ProcsPartition
     DEF SwitchBack, GoTo, Forget, SetStatus, TalkInv, OnOldNews, TypeInv, TypeOK
<1>4. ASSUME NEW w \in Widgets, RequestHuman(w)  PROVE TalkInv'
  BY <1>4, ProcsPartition
     DEF RequestHuman, GoTo, KeepRow, row, TalkInv, OnOldNews, TypeInv, TypeOK
<1>5. ASSUME NEW h \in Webhooks, WebhookRead(h)  PROVE TalkInv'
  BY <1>5, ProcsPartition
     DEF WebhookRead, Read, GoTo, KeepRow, row, TalkInv, OnOldNews, TypeInv, TypeOK
<1>6. ASSUME NEW h \in Webhooks, WebhookStore(h)  PROVE TalkInv'
  BY <1>6, ProcsPartition
     DEF WebhookStore, GoTo, Forget, KeepRow, row, TalkInv, OnOldNews, TypeInv, TypeOK
<1>7. ASSUME NEW h \in Handlers, TurnAnswers(h)  PROVE TalkInv'
  BY <1>7, ProcsPartition DEF TurnAnswers, GoTo, TalkInv, OnOldNews, TypeInv, TypeOK, row
<1>8. ASSUME NEW h \in Handlers, TurnIsNoise(h)  PROVE TalkInv'
  BY <1>8, ProcsPartition
     DEF TurnIsNoise, GoTo, KeepRow, row, TalkInv, OnOldNews, TypeInv, TypeOK
<1>9. ASSUME NEW h \in Handlers, TurnEscalates(h)  PROVE TalkInv'
  BY <1>9, ProcsPartition
     DEF TurnEscalates, GoTo, KeepRow, row, TalkInv, OnOldNews, TypeInv, TypeOK
<1>10. ASSUME NEW h \in Handlers, EscalateRead(h)  PROVE TalkInv'
  BY <1>10, ProcsPartition
     DEF EscalateRead, Read, GoTo, KeepRow, row, TalkInv, OnOldNews, TypeInv, TypeOK
<1>11. ASSUME NEW h \in Handlers, EscalateCommit(h)  PROVE TalkInv'
  BY <1>11, ProcsPartition
     DEF EscalateCommit, Done, Forget, GoTo, SetStatus, TalkInv, OnOldNews, TypeInv, TypeOK
<1>12. ASSUME NEW r \in Requests, NEW a \in Agents, ClaimRead(r, a)  PROVE TalkInv'
  BY <1>12, ProcsPartition
     DEF ClaimRead, Arrive, Refuse, Admit, Read, GoTo, Resting, KeepRow, row, TalkInv,
         OnOldNews, TypeInv, TypeOK
<1>13. ASSUME NEW r \in Requests, NEW a \in Agents, ReplyRead(r, a)  PROVE TalkInv'
  BY <1>13, ProcsPartition
     DEF ReplyRead, Arrive, Refuse, Admit, Read, GoTo, Resting, KeepRow, row, TalkInv,
         OnOldNews, TypeInv, TypeOK
<1>14. ASSUME NEW r \in Requests, NEW a \in Agents, SwitchRead(r, a)  PROVE TalkInv'
  BY <1>14, ProcsPartition
     DEF SwitchRead, Arrive, Refuse, Admit, Read, GoTo, Resting, KeepRow, row, TalkInv,
         OnOldNews, TypeInv, TypeOK
<1>15. ASSUME NEW r \in Requests, NEW a \in Agents, CloseRead(r, a)  PROVE TalkInv'
  BY <1>15, ProcsPartition
     DEF CloseRead, Arrive, Refuse, Admit, Read, GoTo, Resting, KeepRow, row, TalkInv,
         OnOldNews, TypeInv, TypeOK
<1>16. ASSUME NEW r \in Requests, ClaimCommit(r)  PROVE TalkInv'
  BY <1>16, ProcsPartition
     DEF ClaimCommit, Respond, GoTo, Forget, SetStatus, TalkInv, OnOldNews, TypeInv, TypeOK
<1>17. ASSUME NEW r \in Requests, ReplyCommit(r)  PROVE TalkInv'
  BY <1>17, ProcsPartition
     DEF ReplyCommit, Respond, GoTo, Forget, KeepRow, row, TalkInv, OnOldNews, TypeInv, TypeOK
<1>18. ASSUME NEW r \in Requests, SwitchCommit(r)  PROVE TalkInv'
  BY <1>18, ProcsPartition
     DEF SwitchCommit, Respond, GoTo, Forget, SetStatus, TalkInv, OnOldNews, TypeInv, TypeOK
<1>19. ASSUME NEW r \in Requests, CloseCommit(r)  PROVE TalkInv'
  BY <1>19, ProcsPartition
     DEF CloseCommit, Respond, GoTo, Forget, SetStatus, TalkInv, OnOldNews, TypeInv, TypeOK
<1>20. ASSUME NEW p \in Procs, Abort(p)  PROVE TalkInv'
  BY <1>20, ProcsPartition
     DEF Abort, Done, Forget, GoTo, KeepRow, row, TalkInv, OnOldNews, TypeInv, TypeOK
<1>21. CASE UNCHANGED vars
  BY <1>21, ProcsPartition DEF vars, row, locals, TalkInv, OnOldNews
<1>. QED
  BY <1>1, <1>2, <1>3, <1>4, <1>5, <1>6, <1>7, <1>8, <1>9, <1>10, <1>11, <1>12,
     <1>13, <1>14, <1>15, <1>16, <1>17, <1>18, <1>19, <1>20, <1>21
     DEF Next, WidgetNext, WebhookNext, TurnNext, RequestNext

\* After an agent has taken over, each connection or delivery talks over the
\* agent at most once until the conversation leaves human again.
THEOREM TalkOverBound == Spec => []TalksOverAtMostOnce
<1>1. Init => TalkInv
  BY ProcsPartition DEF Init, TalkInv, OnOldNews
<1>2. TypeInv /\ TalkInv /\ [Next]_vars => TalkInv'
  BY TalkStep
<1>3. TalkInv => TalksOverAtMostOnce
  BY DEF TalkInv, TalksOverAtMostOnce
<1>. QED  BY <1>1, <1>2, <1>3, TypeInvariance, PTL DEF Spec

(***************************************************************************)
(* Edges of the table                                                      *)
(***************************************************************************)

\* A legal event follows an edge of the table, and so do the two direct writes
\* of the widget loop and of the escalation.
LEMMA EdgesOnTable ==
    ASSUME NEW s \in Status
    PROVE  /\ \A e \in Event : Legal(s, e) => OnTable(s, Transition(s, e))
           /\ OnTable("pending_human", "ai")
           /\ OnTable("ai", "pending_human")
  BY TransitionTarget DEF OnTable, Table, Event, Status, Legal

\* Every status that a handler or a request writes is one the table allows from what
\* it read, and a handler has read no human: only if the row has changed since can the
\* status leave the table, or leave human without an agent's request.
THEOREM StaleWritesOnly == Spec => OffTableOnlyIfStale
<1>. DEFINE Edge == status' # status =>
                        \/ OnTable(status, status') /\ (status = "human" => ~ByHandler)
                        \/ StaleWriter
<1>1. ASSUME TypeInv, [Next]_vars  PROVE Edge
  <2>1. ASSUME NEW w \in Widgets, UserMessage(w)  PROVE Edge
    BY <2>1 DEF UserMessage, KeepRow, row
  <2>2. ASSUME NEW w \in Widgets, ReadStatus(w)  PROVE Edge
    BY <2>2 DEF ReadStatus, KeepRow, row
  <2>3. ASSUME NEW w \in Widgets, SwitchBack(w)  PROVE Edge
    BY <2>3, <1>1, EdgesOnTable, ProcsPartition
       DEF SwitchBack, SetStatus, GoTo, Done, Respond, StaleWriter, ByHandler, Holds, TypeInv,
           TypeOK, Admitted, Event
  <2>4. ASSUME NEW w \in Widgets, RequestHuman(w)  PROVE Edge
    BY <2>4 DEF RequestHuman, KeepRow, row
  <2>5. ASSUME NEW h \in Webhooks, WebhookRead(h)  PROVE Edge
    BY <2>5 DEF WebhookRead, KeepRow, row
  <2>6. ASSUME NEW h \in Webhooks, WebhookStore(h)  PROVE Edge
    BY <2>6 DEF WebhookStore, KeepRow, row
  <2>7. ASSUME NEW h \in Handlers, TurnAnswers(h)  PROVE Edge
    BY <2>7 DEF TurnAnswers, row
  <2>8. ASSUME NEW h \in Handlers, TurnIsNoise(h)  PROVE Edge
    BY <2>8 DEF TurnIsNoise, KeepRow, row
  <2>9. ASSUME NEW h \in Handlers, TurnEscalates(h)  PROVE Edge
    BY <2>9 DEF TurnEscalates, KeepRow, row
  <2>10. ASSUME NEW h \in Handlers, EscalateRead(h)  PROVE Edge
    BY <2>10 DEF EscalateRead, KeepRow, row
  <2>11. ASSUME NEW h \in Handlers, EscalateCommit(h)  PROVE Edge
    BY <2>11, <1>1, EdgesOnTable, ProcsPartition
       DEF EscalateCommit, SetStatus, GoTo, Done, Respond, StaleWriter, ByHandler, Holds, TypeInv,
           TypeOK, Admitted, Event
  <2>12. ASSUME NEW r \in Requests, NEW a \in Agents, ClaimRead(r, a)  PROVE Edge
    BY <2>12 DEF ClaimRead, Arrive, KeepRow, row
  <2>13. ASSUME NEW r \in Requests, NEW a \in Agents, ReplyRead(r, a)  PROVE Edge
    BY <2>13 DEF ReplyRead, Arrive, KeepRow, row
  <2>14. ASSUME NEW r \in Requests, NEW a \in Agents, SwitchRead(r, a)  PROVE Edge
    BY <2>14 DEF SwitchRead, Arrive, KeepRow, row
  <2>15. ASSUME NEW r \in Requests, NEW a \in Agents, CloseRead(r, a)  PROVE Edge
    BY <2>15 DEF CloseRead, Arrive, KeepRow, row
  <2>16. ASSUME NEW r \in Requests, ClaimCommit(r)  PROVE Edge
    BY <2>16, <1>1, EdgesOnTable, ProcsPartition
       DEF ClaimCommit, SetStatus, GoTo, Done, Respond, StaleWriter, ByHandler, Holds, TypeInv,
           TypeOK, Admitted, Event
  <2>17. ASSUME NEW r \in Requests, ReplyCommit(r)  PROVE Edge
    BY <2>17 DEF ReplyCommit, KeepRow, row
  <2>18. ASSUME NEW r \in Requests, SwitchCommit(r)  PROVE Edge
    BY <2>18, <1>1, EdgesOnTable, ProcsPartition
       DEF SwitchCommit, SetStatus, GoTo, Done, Respond, StaleWriter, ByHandler, Holds, TypeInv,
           TypeOK, Admitted, Event
  <2>19. ASSUME NEW r \in Requests, CloseCommit(r)  PROVE Edge
    BY <2>19, <1>1, EdgesOnTable, ProcsPartition
       DEF CloseCommit, SetStatus, GoTo, Done, Respond, StaleWriter, ByHandler, Holds, TypeInv,
           TypeOK, Admitted, Event
  <2>20. ASSUME NEW p \in Procs, Abort(p)  PROVE Edge
    BY <2>20 DEF Abort, KeepRow, row
  <2>21. CASE UNCHANGED vars
    BY <2>21 DEF vars, row, locals
  <2>. QED
    BY <1>1, <2>1, <2>2, <2>3, <2>4, <2>5, <2>6, <2>7, <2>8, <2>9, <2>10, <2>11, <2>12,
       <2>13, <2>14, <2>15, <2>16, <2>17, <2>18, <2>19, <2>20, <2>21
       DEF Next, WidgetNext, WebhookNext, TurnNext, RequestNext
<1>2. TypeInv /\ [Next]_vars => [Edge]_vars
  BY <1>1
<1>. QED  BY <1>2, TypeInvariance, PTL DEF Spec, OffTableOnlyIfStale

(***************************************************************************)
(* A row that is kept while somebody holds it                              *)
(***************************************************************************)

\* The row changes only when nobody but the writer holds it, as under a lock that
\* each SELECT takes.  Turns, connections and deliveries overlap as they like.
RowIsKept == row' # row => \A p \in Procs : Holds(p) => pc'[p] # pc[p]

KeptSpec == Init /\ [][Next /\ RowIsKept]_vars

\* What was read is what the row says, and who claims or replies stands on the
\* ground that was checked.
KeptFresh ==
    \A p \in Procs :
        /\ Holds(p) => seen[p] = status
        /\ p \in Requests /\ pc[p] = "claiming" => ~TakenByOther(agent[p])
        /\ p \in Requests /\ pc[p] = "replying" => status = "human" /\ owner = agent[p]

\* Only a conversation that an agent has, or had when it was closed, has an owner.
OwnerFree == owner # NoAgent => status \in {"human", "closed"}

KeptInv == TypeInv /\ KeptFresh /\ OwnerFree

\* A commit, after which its writer holds nothing: nobody else holds the row if
\* it changes.
LEMMA WriterKeeps ==
    ASSUME KeptInv, RowIsKept, NEW p \in Procs, pc'[p] \in {"turn", "idle", "ok"},
           \A q \in Procs \ {p} : pc'[q] = pc[q] /\ seen'[q] = seen[q],
           \A r \in Requests \ {p} : agent'[r] = agent[r]
    PROVE  KeptFresh'
<1>. SUFFICES ASSUME NEW q \in Procs
              PROVE  /\ Holds(q)' => seen'[q] = status'
                     /\ q \in Requests /\ pc'[q] = "claiming" => ~TakenByOther(agent[q])'
                     /\ q \in Requests /\ pc'[q] = "replying" => status' = "human" /\ owner' = agent'[q]
     BY DEF KeptFresh
<1>1. CASE q = p
  BY <1>1 DEF Holds
<1>2. CASE q # p /\ row' = row
  BY <1>2, ProcsPartition DEF row, KeptInv, KeptFresh, Holds, TakenByOther
<1>3. CASE q # p /\ row' # row
  <2>1. ~Holds(q) /\ pc'[q] = pc[q]
    BY <1>3 DEF RowIsKept
  <2>. QED  BY <2>1 DEF Holds
<1>. QED  BY <1>1, <1>2, <1>3

\* Whoever holds the row has it as it was read, until the commit.
LEMMA KeptFreshStep ==
    ASSUME KeptInv, Next \/ UNCHANGED vars, RowIsKept
    PROVE  KeptFresh'
<1>1. ASSUME NEW w \in Widgets, UserMessage(w)  PROVE KeptFresh'
  BY <1>1, ProcsPartition
     DEF UserMessage, GoTo, KeepRow, row, KeptFresh, Holds, TakenByOther, RowIsKept,
         row, Resting, KeptInv, TypeInv, TypeOK
<1>2. ASSUME NEW w \in Widgets, ReadStatus(w)  PROVE KeptFresh'
  BY <1>2, ProcsPartition
     DEF ReadStatus, Done, Forget, Read, GoTo, KeepRow, row, KeptFresh, Holds, TakenByOther,
         RowIsKept, Resting, KeptInv, TypeInv, TypeOK
<1>3. ASSUME NEW w \in Widgets, SwitchBack(w)  PROVE KeptFresh'
  BY <1>3, ProcsPartition, WriterKeeps DEF SwitchBack, GoTo, Forget, KeptInv, TypeInv, TypeOK
<1>4. ASSUME NEW w \in Widgets, RequestHuman(w)  PROVE KeptFresh'
  BY <1>4, ProcsPartition
     DEF RequestHuman, GoTo, KeepRow, row, KeptFresh, Holds, TakenByOther, RowIsKept,
         row, Resting, KeptInv, TypeInv, TypeOK
<1>5. ASSUME NEW h \in Webhooks, WebhookRead(h)  PROVE KeptFresh'
  BY <1>5, ProcsPartition
     DEF WebhookRead, Read, GoTo, KeepRow, row, KeptFresh, Holds, TakenByOther, RowIsKept, Resting, KeptInv, TypeInv, TypeOK
<1>6. ASSUME NEW h \in Webhooks, WebhookStore(h)  PROVE KeptFresh'
  BY <1>6, ProcsPartition
     DEF WebhookStore, GoTo, Forget, KeepRow, row, KeptFresh, Holds, TakenByOther, RowIsKept, Resting, KeptInv, TypeInv, TypeOK
<1>7. ASSUME NEW h \in Handlers, TurnAnswers(h)  PROVE KeptFresh'
  BY <1>7, ProcsPartition
     DEF TurnAnswers, GoTo, KeptFresh, Holds, TakenByOther, RowIsKept, Resting,
         KeptInv, TypeInv, TypeOK, row
<1>8. ASSUME NEW h \in Handlers, TurnIsNoise(h)  PROVE KeptFresh'
  BY <1>8, ProcsPartition
     DEF TurnIsNoise, GoTo, KeepRow, row, KeptFresh, Holds, TakenByOther, RowIsKept,
         row, Resting, KeptInv, TypeInv, TypeOK
<1>9. ASSUME NEW h \in Handlers, TurnEscalates(h)  PROVE KeptFresh'
  BY <1>9, ProcsPartition
     DEF TurnEscalates, GoTo, KeepRow, row, KeptFresh, Holds, TakenByOther, RowIsKept,
         row, Resting, KeptInv, TypeInv, TypeOK
<1>10. ASSUME NEW h \in Handlers, EscalateRead(h)  PROVE KeptFresh'
  BY <1>10, ProcsPartition
     DEF EscalateRead, Read, GoTo, KeepRow, row, KeptFresh, Holds, TakenByOther, RowIsKept, Resting, KeptInv, TypeInv, TypeOK
<1>11. ASSUME NEW h \in Handlers, EscalateCommit(h)  PROVE KeptFresh'
  BY <1>11, ProcsPartition, WriterKeeps DEF EscalateCommit, Done, Forget, GoTo, KeptInv, TypeInv, TypeOK
<1>12. ASSUME NEW r \in Requests, NEW a \in Agents, ClaimRead(r, a)  PROVE KeptFresh'
  BY <1>12, ProcsPartition
     DEF ClaimRead, Arrive, Refuse, Admit, Read, GoTo, KeepRow, row, KeptFresh, Holds,
         TakenByOther, RowIsKept, Resting, KeptInv, TypeInv, TypeOK
<1>13. ASSUME NEW r \in Requests, NEW a \in Agents, ReplyRead(r, a)  PROVE KeptFresh'
  BY <1>13, ProcsPartition
     DEF ReplyRead, Arrive, Refuse, Admit, Read, GoTo, KeepRow, row, KeptFresh, Holds,
         TakenByOther, RowIsKept, Resting, KeptInv, TypeInv, TypeOK
<1>14. ASSUME NEW r \in Requests, NEW a \in Agents, SwitchRead(r, a)  PROVE KeptFresh'
  BY <1>14, ProcsPartition
     DEF SwitchRead, Arrive, Refuse, Admit, Read, GoTo, KeepRow, row, KeptFresh, Holds,
         TakenByOther, RowIsKept, Resting, KeptInv, TypeInv, TypeOK
<1>15. ASSUME NEW r \in Requests, NEW a \in Agents, CloseRead(r, a)  PROVE KeptFresh'
  BY <1>15, ProcsPartition
     DEF CloseRead, Arrive, Refuse, Admit, Read, GoTo, KeepRow, row, KeptFresh, Holds,
         TakenByOther, RowIsKept, Resting, KeptInv, TypeInv, TypeOK
<1>16. ASSUME NEW r \in Requests, ClaimCommit(r)  PROVE KeptFresh'
  BY <1>16, ProcsPartition, WriterKeeps DEF ClaimCommit, Respond, GoTo, Forget, KeptInv, TypeInv, TypeOK
<1>17. ASSUME NEW r \in Requests, ReplyCommit(r)  PROVE KeptFresh'
  BY <1>17, ProcsPartition
     DEF ReplyCommit, Respond, GoTo, Forget, KeepRow, row, KeptFresh, Holds, TakenByOther,
         RowIsKept, Resting, KeptInv, TypeInv, TypeOK
<1>18. ASSUME NEW r \in Requests, SwitchCommit(r)  PROVE KeptFresh'
  BY <1>18, ProcsPartition, WriterKeeps DEF SwitchCommit, Respond, GoTo, Forget, KeptInv, TypeInv, TypeOK
<1>19. ASSUME NEW r \in Requests, CloseCommit(r)  PROVE KeptFresh'
  BY <1>19, ProcsPartition, WriterKeeps DEF CloseCommit, Respond, GoTo, Forget, KeptInv, TypeInv, TypeOK
<1>20. ASSUME NEW p \in Procs, Abort(p)  PROVE KeptFresh'
  BY <1>20, ProcsPartition
     DEF Abort, Done, Forget, GoTo, KeepRow, row, KeptFresh, Holds, TakenByOther, RowIsKept, Resting, KeptInv, TypeInv, TypeOK
<1>21. CASE UNCHANGED vars
  BY <1>21, ProcsPartition DEF vars, row, locals, KeptFresh, Holds, TakenByOther, KeptInv
<1>. QED
  BY <1>1, <1>2, <1>3, <1>4, <1>5, <1>6, <1>7, <1>8, <1>9, <1>10, <1>11, <1>12,
     <1>13, <1>14, <1>15, <1>16, <1>17, <1>18, <1>19, <1>20, <1>21
     DEF Next, WidgetNext, WebhookNext, TurnNext, RequestNext

\* Leaving human for ai clears the owner.
LEMMA OwnerFreeStep ==
    ASSUME KeptInv, Next \/ UNCHANGED vars
    PROVE  OwnerFree'
<1>1. ASSUME NEW w \in Widgets, UserMessage(w)  PROVE OwnerFree'
  BY <1>1 DEF UserMessage, KeepRow, row, OwnerFree, KeptInv
<1>2. ASSUME NEW w \in Widgets, ReadStatus(w)  PROVE OwnerFree'
  BY <1>2 DEF ReadStatus, KeepRow, row, OwnerFree, KeptInv
<1>3. ASSUME NEW w \in Widgets, SwitchBack(w)  PROVE OwnerFree'
  BY <1>3, ProcsPartition
     DEF SwitchBack, SetStatus, OwnerFree, KeptInv, TypeInv, TypeOK, Admitted, KeptFresh, Holds
<1>4. ASSUME NEW w \in Widgets, RequestHuman(w)  PROVE OwnerFree'
  BY <1>4 DEF RequestHuman, KeepRow, row, OwnerFree, KeptInv
<1>5. ASSUME NEW h \in Webhooks, WebhookRead(h)  PROVE OwnerFree'
  BY <1>5 DEF WebhookRead, KeepRow, row, OwnerFree, KeptInv
<1>6. ASSUME NEW h \in Webhooks, WebhookStore(h)  PROVE OwnerFree'
  BY <1>6 DEF WebhookStore, KeepRow, row, OwnerFree, KeptInv
<1>7. ASSUME NEW h \in Handlers, TurnAnswers(h)  PROVE OwnerFree'
  BY <1>7 DEF TurnAnswers, row, OwnerFree, KeptInv
<1>8. ASSUME NEW h \in Handlers, TurnIsNoise(h)  PROVE OwnerFree'
  BY <1>8 DEF TurnIsNoise, KeepRow, row, OwnerFree, KeptInv
<1>9. ASSUME NEW h \in Handlers, TurnEscalates(h)  PROVE OwnerFree'
  BY <1>9 DEF TurnEscalates, KeepRow, row, OwnerFree, KeptInv
<1>10. ASSUME NEW h \in Handlers, EscalateRead(h)  PROVE OwnerFree'
  BY <1>10 DEF EscalateRead, KeepRow, row, OwnerFree, KeptInv
<1>11. ASSUME NEW h \in Handlers, EscalateCommit(h)  PROVE OwnerFree'
  BY <1>11, ProcsPartition
     DEF EscalateCommit, SetStatus, OwnerFree, KeptInv, TypeInv, TypeOK, Admitted, KeptFresh,
         Holds
<1>12. ASSUME NEW r \in Requests, NEW a \in Agents, ClaimRead(r, a)  PROVE OwnerFree'
  BY <1>12 DEF ClaimRead, Arrive, KeepRow, row, OwnerFree, KeptInv
<1>13. ASSUME NEW r \in Requests, NEW a \in Agents, ReplyRead(r, a)  PROVE OwnerFree'
  BY <1>13 DEF ReplyRead, Arrive, KeepRow, row, OwnerFree, KeptInv
<1>14. ASSUME NEW r \in Requests, NEW a \in Agents, SwitchRead(r, a)  PROVE OwnerFree'
  BY <1>14 DEF SwitchRead, Arrive, KeepRow, row, OwnerFree, KeptInv
<1>15. ASSUME NEW r \in Requests, NEW a \in Agents, CloseRead(r, a)  PROVE OwnerFree'
  BY <1>15 DEF CloseRead, Arrive, KeepRow, row, OwnerFree, KeptInv
<1>16. ASSUME NEW r \in Requests, ClaimCommit(r)  PROVE OwnerFree'
  BY <1>16, TransitionTarget, ProcsPartition
     DEF ClaimCommit, SetStatus, OwnerFree, KeptInv, TypeInv, TypeOK, Admitted, KeptFresh,
         Holds
<1>17. ASSUME NEW r \in Requests, ReplyCommit(r)  PROVE OwnerFree'
  BY <1>17 DEF ReplyCommit, KeepRow, row, OwnerFree, KeptInv
<1>18. ASSUME NEW r \in Requests, SwitchCommit(r)  PROVE OwnerFree'
  BY <1>18, TransitionTarget, ProcsPartition
     DEF SwitchCommit, SetStatus, OwnerFree, KeptInv, TypeInv, TypeOK, Admitted, KeptFresh,
         Holds
<1>19. ASSUME NEW r \in Requests, CloseCommit(r)  PROVE OwnerFree'
  BY <1>19, TransitionTarget, ProcsPartition
     DEF CloseCommit, SetStatus, OwnerFree, KeptInv, TypeInv, TypeOK, Admitted, KeptFresh,
         Holds
<1>20. ASSUME NEW p \in Procs, Abort(p)  PROVE OwnerFree'
  BY <1>20 DEF Abort, KeepRow, row, OwnerFree, KeptInv
<1>21. CASE UNCHANGED vars
  BY <1>21 DEF vars, row, locals, OwnerFree, KeptInv
<1>. QED
  BY <1>1, <1>2, <1>3, <1>4, <1>5, <1>6, <1>7, <1>8, <1>9, <1>10, <1>11, <1>12,
     <1>13, <1>14, <1>15, <1>16, <1>17, <1>18, <1>19, <1>20, <1>21
     DEF Next, WidgetNext, WebhookNext, TurnNext, RequestNext

LEMMA KeptInvInit == ASSUME Init PROVE KeptInv
<1>1. KeptFresh /\ OwnerFree
  BY DEF Init, KeptFresh, Holds, OwnerFree
<1>. QED  BY <1>1, TypeInvInit DEF KeptInv

LEMMA KeptInvariance == KeptSpec => []KeptInv
<1>1. Init => KeptInv
  BY KeptInvInit
<1>2. ASSUME KeptInv, [Next /\ RowIsKept]_vars  PROVE KeptInv'
  <2>1. [Next]_vars /\ (Next \/ UNCHANGED vars)
    BY <1>2
  <2>2. RowIsKept
    BY <1>2 DEF RowIsKept, vars
  <2>3. TypeInv'
    BY <1>2, <2>1, TypeStep, AdmittedStep DEF KeptInv, TypeInv
  <2>. QED  BY <1>2, <2>1, <2>2, <2>3, KeptFreshStep, OwnerFreeStep DEF KeptInv
<1>. QED  BY <1>1, <1>2, PTL DEF KeptSpec

(***************************************************************************)
(* Refinement                                                              *)
(***************************************************************************)

\* The protocol's table is the code's.
LEMMA SameTable ==
    \A st, ev : /\ Protocol!Legal(st, ev) <=> Legal(st, ev)
                /\ Protocol!Transition(st, ev) = Transition(st, ev)
  BY DEF Protocol!Legal, Protocol!Transition, Protocol!Table, Protocol!Status,
         Legal, Transition, Table, Status

\* Every step next to a kept row is a step of the take-over protocol, or a stutter.
LEMMA ProtocolStep ==
    ASSUME KeptInv, Next \/ UNCHANGED vars
    PROVE  [Protocol!Next]_(Protocol!vars)
<1>1. ASSUME NEW w \in Widgets, UserMessage(w)  PROVE [Protocol!Next]_(Protocol!vars)
  BY <1>1 DEF UserMessage, KeepRow, row, Protocol!vars
<1>2. ASSUME NEW w \in Widgets, ReadStatus(w)  PROVE [Protocol!Next]_(Protocol!vars)
  BY <1>2 DEF ReadStatus, KeepRow, row, Protocol!vars
<1>3. ASSUME NEW w \in Widgets, SwitchBack(w)  PROVE [Protocol!Next]_(Protocol!vars)
  <2>1. seen[w] = status /\ status = "pending_human" /\ owner = NoAgent
    BY <1>3, ProcsPartition
       DEF SwitchBack, KeptInv, TypeInv, TypeOK, Admitted, KeptFresh, Holds, OwnerFree
  <2>2. Legal(status, "switch_to_ai") /\ Transition(status, "switch_to_ai") = "ai"
    BY <2>1, LegalSources, TransitionTarget DEF Status
  <2>3. Protocol!SwitchToAI
    BY <1>3, <2>1, <2>2, SameTable DEF SwitchBack, SetStatus, Protocol!SwitchToAI, Protocol!Fire
  <2>. QED  BY <2>3 DEF Protocol!Next
<1>4. ASSUME NEW w \in Widgets, RequestHuman(w)  PROVE [Protocol!Next]_(Protocol!vars)
  BY <1>4 DEF RequestHuman, KeepRow, row, Protocol!vars
<1>5. ASSUME NEW h \in Webhooks, WebhookRead(h)  PROVE [Protocol!Next]_(Protocol!vars)
  BY <1>5 DEF WebhookRead, KeepRow, row, Protocol!vars
<1>6. ASSUME NEW h \in Webhooks, WebhookStore(h)  PROVE [Protocol!Next]_(Protocol!vars)
  BY <1>6 DEF WebhookStore, KeepRow, row, Protocol!vars
<1>7. ASSUME NEW h \in Handlers, TurnAnswers(h)  PROVE [Protocol!Next]_(Protocol!vars)
  BY <1>7 DEF TurnAnswers, row, Protocol!vars
<1>8. ASSUME NEW h \in Handlers, TurnIsNoise(h)  PROVE [Protocol!Next]_(Protocol!vars)
  BY <1>8 DEF TurnIsNoise, KeepRow, row, Protocol!vars
<1>9. ASSUME NEW h \in Handlers, TurnEscalates(h)  PROVE [Protocol!Next]_(Protocol!vars)
  BY <1>9 DEF TurnEscalates, KeepRow, row, Protocol!vars
<1>10. ASSUME NEW h \in Handlers, EscalateRead(h)  PROVE [Protocol!Next]_(Protocol!vars)
  BY <1>10 DEF EscalateRead, KeepRow, row, Protocol!vars
<1>11. ASSUME NEW h \in Handlers, EscalateCommit(h)  PROVE [Protocol!Next]_(Protocol!vars)
  <2>1. CASE seen[h] = "ai"
    <3>1. status = "ai"
      BY <1>11, <2>1, ProcsPartition DEF EscalateCommit, KeptInv, KeptFresh, Holds
    <3>2. Legal(status, "escalate") /\ Transition(status, "escalate") = "pending_human"
      BY <3>1, LegalSources, TransitionTarget DEF Status
    <3>3. Protocol!Escalate
      BY <1>11, <2>1, <3>2, SameTable
         DEF EscalateCommit, SetStatus, Protocol!Escalate, Protocol!Fire
    <3>. QED  BY <3>3 DEF Protocol!Next
  <2>2. CASE seen[h] # "ai"
    BY <1>11, <2>2 DEF EscalateCommit, Protocol!vars
  <2>. QED  BY <2>1, <2>2
<1>12. ASSUME NEW r \in Requests, NEW a \in Agents, ClaimRead(r, a)
      PROVE [Protocol!Next]_(Protocol!vars)
  BY <1>12 DEF ClaimRead, Arrive, KeepRow, row, Protocol!vars
<1>13. ASSUME NEW r \in Requests, NEW a \in Agents, ReplyRead(r, a)
      PROVE [Protocol!Next]_(Protocol!vars)
  BY <1>13 DEF ReplyRead, Arrive, KeepRow, row, Protocol!vars
<1>14. ASSUME NEW r \in Requests, NEW a \in Agents, SwitchRead(r, a)
      PROVE [Protocol!Next]_(Protocol!vars)
  BY <1>14 DEF SwitchRead, Arrive, KeepRow, row, Protocol!vars
<1>15. ASSUME NEW r \in Requests, NEW a \in Agents, CloseRead(r, a)
      PROVE [Protocol!Next]_(Protocol!vars)
  BY <1>15 DEF CloseRead, Arrive, KeepRow, row, Protocol!vars
<1>16. ASSUME NEW r \in Requests, ClaimCommit(r)  PROVE [Protocol!Next]_(Protocol!vars)
  <2>1. seen[r] = status /\ Legal(status, "claim") /\ agent[r] \in Agents
    BY <1>16, ProcsPartition DEF ClaimCommit, KeptInv, TypeInv, Admitted, KeptFresh, Holds
  <2>2. Protocol!Claim(agent[r])
    BY <1>16, <2>1, SameTable DEF ClaimCommit, SetStatus, Protocol!Claim, Protocol!Fire
  <2>. QED  BY <2>1, <2>2 DEF Protocol!Next
<1>17. ASSUME NEW r \in Requests, ReplyCommit(r)  PROVE [Protocol!Next]_(Protocol!vars)
  BY <1>17 DEF ReplyCommit, KeepRow, row, Protocol!vars
<1>18. ASSUME NEW r \in Requests, SwitchCommit(r)  PROVE [Protocol!Next]_(Protocol!vars)
  <2>1. seen[r] = status /\ Legal(status, "switch_to_ai")
    BY <1>18, ProcsPartition DEF SwitchCommit, KeptInv, TypeInv, Admitted, KeptFresh, Holds
  <2>2. Protocol!SwitchToAI
    BY <1>18, <2>1, SameTable DEF SwitchCommit, SetStatus, Protocol!SwitchToAI, Protocol!Fire
  <2>. QED  BY <2>1, <2>2 DEF Protocol!Next
<1>19. ASSUME NEW r \in Requests, CloseCommit(r)  PROVE [Protocol!Next]_(Protocol!vars)
  <2>1. seen[r] = status /\ Legal(status, "close")
    BY <1>19, ProcsPartition DEF CloseCommit, KeptInv, TypeInv, Admitted, KeptFresh, Holds
  <2>2. Protocol!Close
    BY <1>19, <2>1, SameTable DEF CloseCommit, SetStatus, Protocol!Close, Protocol!Fire
  <2>. QED  BY <2>1, <2>2 DEF Protocol!Next
<1>20. ASSUME NEW p \in Procs, Abort(p)  PROVE [Protocol!Next]_(Protocol!vars)
  BY <1>20 DEF Abort, KeepRow, row, Protocol!vars
<1>21. CASE UNCHANGED vars
  BY <1>21 DEF vars, row, locals, Protocol!vars
<1>. QED
  BY <1>1, <1>2, <1>3, <1>4, <1>5, <1>6, <1>7, <1>8, <1>9, <1>10, <1>11, <1>12,
     <1>13, <1>14, <1>15, <1>16, <1>17, <1>18, <1>19, <1>20, <1>21
     DEF Next, WidgetNext, WebhookNext, TurnNext, RequestNext

\* As long as the row is kept for whoever holds it, the code implements the
\* take-over protocol, however many turns and requests are under way.
THEOREM KeptImplementsTakeover == KeptSpec => FollowsProtocol
<1>1. Init => Protocol!Init
  BY DEF Init, Protocol!Init
<1>2. KeptInv /\ [Next /\ RowIsKept]_vars => [Protocol!Next]_(Protocol!vars)
  BY ProtocolStep
<1>. QED  BY <1>1, <1>2, KeptInvariance, PTL DEF KeptSpec, FollowsProtocol, Protocol!Spec

\* As long as the row is kept, what was closed stays closed: only a stale writer
\* opens a conversation again.
THEOREM KeptClosed == KeptSpec => ClosedStaysClosed
<1>1. ASSUME KeptInv, Next \/ UNCHANGED vars, status = "closed"
      PROVE  status' = "closed"
  <2>1. [Protocol!Next]_(Protocol!vars)
    BY <1>1, ProtocolStep
  <2>2. \A ev \in Event : ~Protocol!Legal(status, ev)
    BY <1>1, SameTable DEF Legal, Table, Event
  <2>3. ~Protocol!Next
    BY <2>2 DEF Protocol!Next, Protocol!Escalate, Protocol!Claim, Protocol!SwitchToAI,
                Protocol!Close, Protocol!Fire, Event
  <2>. QED  BY <1>1, <2>1, <2>3 DEF Protocol!vars
<1>2. KeptInv /\ [Next /\ RowIsKept]_vars => [status = "closed" => status' = "closed"]_vars
  BY <1>1
<1>. QED  BY <1>2, KeptInvariance, PTL DEF KeptSpec, ClosedStaysClosed

(***************************************************************************)
(* What the documents promise of claims and replies                        *)
(***************************************************************************)

Promised ==
    \A r \in Requests :
         /\ pc[r] = "claiming" /\ pc'[r] = "ok" => ~TakenByOther(agent[r])
         /\ messages'[r]["agent"] > messages[r]["agent"] =>
                status = "human" /\ owner = agent[r]

\* Every step next to a kept row keeps the two promises.
LEMMA PromisedStep ==
    ASSUME KeptInv, Next \/ UNCHANGED vars
    PROVE  Promised
<1>1. ASSUME NEW w \in Widgets, UserMessage(w)  PROVE Promised
  BY <1>1, ProcsPartition
     DEF UserMessage, Append, Promised, KeptInv, TypeInv, TypeOK, KeptFresh, Source
<1>2. ASSUME NEW w \in Widgets, ReadStatus(w)  PROVE Promised
  BY <1>2, ProcsPartition DEF ReadStatus, Promised, KeptInv, TypeInv, TypeOK, KeptFresh, Source
<1>3. ASSUME NEW w \in Widgets, SwitchBack(w)  PROVE Promised
  BY <1>3, ProcsPartition DEF SwitchBack, Promised, KeptInv, TypeInv, TypeOK, KeptFresh, Source
<1>4. ASSUME NEW w \in Widgets, RequestHuman(w)  PROVE Promised
  BY <1>4, ProcsPartition DEF RequestHuman, Promised, KeptInv, TypeInv, TypeOK, KeptFresh, Source
<1>5. ASSUME NEW h \in Webhooks, WebhookRead(h)  PROVE Promised
  BY <1>5, ProcsPartition DEF WebhookRead, Promised, KeptInv, TypeInv, TypeOK, KeptFresh, Source
<1>6. ASSUME NEW h \in Webhooks, WebhookStore(h)  PROVE Promised
  BY <1>6, ProcsPartition
     DEF WebhookStore, Append, Promised, KeptInv, TypeInv, TypeOK, KeptFresh, Source
<1>7. ASSUME NEW h \in Handlers, TurnAnswers(h)  PROVE Promised
  BY <1>7, ProcsPartition
     DEF TurnAnswers, Append, Promised, KeptInv, TypeInv, TypeOK, KeptFresh, Source
<1>8. ASSUME NEW h \in Handlers, TurnIsNoise(h)  PROVE Promised
  BY <1>8, ProcsPartition
     DEF TurnIsNoise, Append, Promised, KeptInv, TypeInv, TypeOK, KeptFresh, Source
<1>9. ASSUME NEW h \in Handlers, TurnEscalates(h)  PROVE Promised
  BY <1>9, ProcsPartition DEF TurnEscalates, Promised, KeptInv, TypeInv, TypeOK, KeptFresh, Source
<1>10. ASSUME NEW h \in Handlers, EscalateRead(h)  PROVE Promised
  BY <1>10, ProcsPartition DEF EscalateRead, Promised, KeptInv, TypeInv, TypeOK, KeptFresh, Source
<1>11. ASSUME NEW h \in Handlers, EscalateCommit(h)  PROVE Promised
  BY <1>11, ProcsPartition
     DEF EscalateCommit, Append, Promised, KeptInv, TypeInv, TypeOK, KeptFresh, Source
<1>12. ASSUME NEW r \in Requests, NEW a \in Agents, ClaimRead(r, a)  PROVE Promised
  BY <1>12, ProcsPartition
     DEF ClaimRead, Arrive, GoTo, Refuse, Admit, Promised, KeptInv, TypeInv, TypeOK,
         KeptFresh, Source
<1>13. ASSUME NEW r \in Requests, NEW a \in Agents, ReplyRead(r, a)  PROVE Promised
  BY <1>13, ProcsPartition
     DEF ReplyRead, Arrive, GoTo, Refuse, Admit, Promised, KeptInv, TypeInv, TypeOK,
         KeptFresh, Source
<1>14. ASSUME NEW r \in Requests, NEW a \in Agents, SwitchRead(r, a)  PROVE Promised
  BY <1>14, ProcsPartition
     DEF SwitchRead, Arrive, GoTo, Refuse, Admit, Promised, KeptInv, TypeInv, TypeOK,
         KeptFresh, Source
<1>15. ASSUME NEW r \in Requests, NEW a \in Agents, CloseRead(r, a)  PROVE Promised
  BY <1>15, ProcsPartition
     DEF CloseRead, Arrive, GoTo, Refuse, Admit, Promised, KeptInv, TypeInv, TypeOK,
         KeptFresh, Source
<1>16. ASSUME NEW r \in Requests, ClaimCommit(r)  PROVE Promised
  BY <1>16, ProcsPartition DEF ClaimCommit, Promised, KeptInv, TypeInv, TypeOK, KeptFresh, Source
<1>17. ASSUME NEW r \in Requests, ReplyCommit(r)  PROVE Promised
  BY <1>17, ProcsPartition
     DEF ReplyCommit, Append, Promised, KeptInv, TypeInv, TypeOK, KeptFresh, Source
<1>18. ASSUME NEW r \in Requests, SwitchCommit(r)  PROVE Promised
  BY <1>18, ProcsPartition DEF SwitchCommit, Promised, KeptInv, TypeInv, TypeOK, KeptFresh, Source
<1>19. ASSUME NEW r \in Requests, CloseCommit(r)  PROVE Promised
  BY <1>19, ProcsPartition DEF CloseCommit, Promised, KeptInv, TypeInv, TypeOK, KeptFresh, Source
<1>20. ASSUME NEW p \in Procs, Abort(p)  PROVE Promised
  BY <1>20, ProcsPartition DEF Abort, Promised, KeptInv, TypeInv, TypeOK, KeptFresh, Source
<1>21. CASE UNCHANGED vars
  BY <1>21, ProcsPartition DEF vars, row, locals, Promised, KeptInv, TypeInv, TypeOK, Source
<1>. QED
  BY <1>1, <1>2, <1>3, <1>4, <1>5, <1>6, <1>7, <1>8, <1>9, <1>10, <1>11, <1>12,
     <1>13, <1>14, <1>15, <1>16, <1>17, <1>18, <1>19, <1>20, <1>21
     DEF Next, WidgetNext, WebhookNext, TurnNext, RequestNext

\* As long as the row is kept, no claim takes a conversation from another agent.
THEOREM KeptExclusiveClaim == KeptSpec => ClaimIsExclusive
<1>1. KeptInv /\ [Next /\ RowIsKept]_vars =>
        [\A r \in Requests : pc[r] = "claiming" /\ pc'[r] = "ok" => ~TakenByOther(agent[r])]_vars
  BY PromisedStep DEF Promised
<1>. QED  BY <1>1, KeptInvariance, PTL DEF KeptSpec, ClaimIsExclusive

\* As long as the row is kept, only the owner's replies are stored.
THEOREM KeptReply == KeptSpec => ReplyIsByOwner
<1>1. KeptInv /\ [Next /\ RowIsKept]_vars =>
        [\A r \in Requests : messages'[r]["agent"] > messages[r]["agent"] =>
             status = "human" /\ owner = agent[r]]_vars
  BY PromisedStep DEF Promised
<1>. QED  BY <1>1, KeptInvariance, PTL DEF KeptSpec, ReplyIsByOwner

(***************************************************************************)
(* A row that is kept during turns, too                                    *)
(***************************************************************************)

\* A delivery that has read the row, or a turn that goes by what was read.
Engaged(h) == pc[h] \in {"received", "turn"}

\* The row changes only when nobody but the writer holds it or is engaged.
RowIsStill ==
    row' # row => \A p \in Procs : Holds(p) \/ Engaged(p) => pc'[p] # pc[p]

StillSpec == Init /\ [][Next /\ RowIsStill]_vars

\* No turn is under way while an agent has the conversation.
TurnFresh ==
    \A h \in Handlers : /\ pc[h] = "received" => seen[h] = status
                        /\ pc[h] = "turn" => status # "human"

\* A step of p is p's own affair unless it changes the row, and then nobody else
\* is engaged.
LEMMA OthersEngaged ==
    ASSUME TurnFresh, RowIsStill, NEW p \in Procs,
           \A q \in Procs \ {p} : pc'[q] = pc[q] /\ seen'[q] = seen[q],
           p \in Handlers => /\ pc'[p] = "received" => seen'[p] = status'
                             /\ pc'[p] = "turn" => status' # "human"
    PROVE  TurnFresh'
<1>. SUFFICES ASSUME NEW h \in Handlers, h # p
              PROVE  /\ pc'[h] = "received" => seen'[h] = status'
                     /\ pc'[h] = "turn" => status' # "human"
     BY DEF TurnFresh
<1>1. pc'[h] = pc[h] /\ seen'[h] = seen[h]
  BY ProcsPartition
<1>2. CASE row' = row
  BY <1>1, <1>2 DEF row, TurnFresh
<1>3. CASE row' # row
  BY <1>1, <1>3, ProcsPartition DEF RowIsStill, Engaged
<1>. QED  BY <1>2, <1>3

\* Whoever enters a turn has read, or made it so, that no agent has the
\* conversation.
LEMMA TurnFreshStep ==
    ASSUME TypeInv, TurnFresh, RowIsStill, Next \/ UNCHANGED vars
    PROVE  TurnFresh'
<1>1. ASSUME NEW w \in Widgets, UserMessage(w)  PROVE TurnFresh'
  BY <1>1, ProcsPartition, OthersEngaged
     DEF UserMessage, GoTo, KeepRow, row, TurnFresh, Resting, TypeInv, TypeOK
<1>2. ASSUME NEW w \in Widgets, ReadStatus(w)  PROVE TurnFresh'
  BY <1>2, ProcsPartition, OthersEngaged
     DEF ReadStatus, Done, Forget, Read, GoTo, KeepRow, row, TurnFresh, Resting, TypeInv,
         TypeOK
<1>3. ASSUME NEW w \in Widgets, SwitchBack(w)  PROVE TurnFresh'
  BY <1>3, ProcsPartition, OthersEngaged
     DEF SwitchBack, GoTo, Forget, SetStatus, TurnFresh, Resting, TypeInv, TypeOK
<1>4. ASSUME NEW w \in Widgets, RequestHuman(w)  PROVE TurnFresh'
  BY <1>4, ProcsPartition, OthersEngaged
     DEF RequestHuman, GoTo, KeepRow, row, TurnFresh, Resting, TypeInv, TypeOK
<1>5. ASSUME NEW h \in Webhooks, WebhookRead(h)  PROVE TurnFresh'
  BY <1>5, ProcsPartition, OthersEngaged
     DEF WebhookRead, Read, GoTo, KeepRow, row, TurnFresh, Resting, TypeInv, TypeOK
<1>6. ASSUME NEW h \in Webhooks, WebhookStore(h)  PROVE TurnFresh'
  BY <1>6, ProcsPartition, OthersEngaged
     DEF WebhookStore, GoTo, Forget, KeepRow, row, TurnFresh, Resting, TypeInv, TypeOK
<1>7. ASSUME NEW h \in Handlers, TurnAnswers(h)  PROVE TurnFresh'
  BY <1>7, ProcsPartition, OthersEngaged
     DEF TurnAnswers, GoTo, TurnFresh, Resting, TypeInv, TypeOK
<1>8. ASSUME NEW h \in Handlers, TurnIsNoise(h)  PROVE TurnFresh'
  BY <1>8, ProcsPartition, OthersEngaged
     DEF TurnIsNoise, GoTo, KeepRow, row, TurnFresh, Resting, TypeInv, TypeOK
<1>9. ASSUME NEW h \in Handlers, TurnEscalates(h)  PROVE TurnFresh'
  BY <1>9, ProcsPartition, OthersEngaged
     DEF TurnEscalates, GoTo, KeepRow, row, TurnFresh, Resting, TypeInv, TypeOK
<1>10. ASSUME NEW h \in Handlers, EscalateRead(h)  PROVE TurnFresh'
  BY <1>10, ProcsPartition, OthersEngaged
     DEF EscalateRead, Read, GoTo, KeepRow, row, TurnFresh, Resting, TypeInv, TypeOK
<1>11. ASSUME NEW h \in Handlers, EscalateCommit(h)  PROVE TurnFresh'
  BY <1>11, ProcsPartition, OthersEngaged
     DEF EscalateCommit, Done, Forget, GoTo, TurnFresh, Resting, TypeInv, TypeOK
<1>12. ASSUME NEW r \in Requests, NEW a \in Agents, ClaimRead(r, a)  PROVE TurnFresh'
  BY <1>12, ProcsPartition, OthersEngaged
     DEF ClaimRead, Arrive, Refuse, Admit, Read, GoTo, KeepRow, row, TurnFresh, Resting,
         TypeInv, TypeOK
<1>13. ASSUME NEW r \in Requests, NEW a \in Agents, ReplyRead(r, a)  PROVE TurnFresh'
  BY <1>13, ProcsPartition, OthersEngaged
     DEF ReplyRead, Arrive, Refuse, Admit, Read, GoTo, KeepRow, row, TurnFresh, Resting,
         TypeInv, TypeOK
<1>14. ASSUME NEW r \in Requests, NEW a \in Agents, SwitchRead(r, a)  PROVE TurnFresh'
  BY <1>14, ProcsPartition, OthersEngaged
     DEF SwitchRead, Arrive, Refuse, Admit, Read, GoTo, KeepRow, row, TurnFresh, Resting,
         TypeInv, TypeOK
<1>15. ASSUME NEW r \in Requests, NEW a \in Agents, CloseRead(r, a)  PROVE TurnFresh'
  BY <1>15, ProcsPartition, OthersEngaged
     DEF CloseRead, Arrive, Refuse, Admit, Read, GoTo, KeepRow, row, TurnFresh, Resting,
         TypeInv, TypeOK
<1>16. ASSUME NEW r \in Requests, ClaimCommit(r)  PROVE TurnFresh'
  BY <1>16, ProcsPartition, OthersEngaged
     DEF ClaimCommit, Respond, GoTo, Forget, TurnFresh, Resting, TypeInv, TypeOK
<1>17. ASSUME NEW r \in Requests, ReplyCommit(r)  PROVE TurnFresh'
  BY <1>17, ProcsPartition, OthersEngaged
     DEF ReplyCommit, Respond, GoTo, Forget, KeepRow, row, TurnFresh, Resting, TypeInv,
         TypeOK
<1>18. ASSUME NEW r \in Requests, SwitchCommit(r)  PROVE TurnFresh'
  BY <1>18, ProcsPartition, OthersEngaged
     DEF SwitchCommit, Respond, GoTo, Forget, TurnFresh, Resting, TypeInv, TypeOK
<1>19. ASSUME NEW r \in Requests, CloseCommit(r)  PROVE TurnFresh'
  BY <1>19, ProcsPartition, OthersEngaged
     DEF CloseCommit, Respond, GoTo, Forget, TurnFresh, Resting, TypeInv, TypeOK
<1>20. ASSUME NEW p \in Procs, Abort(p)  PROVE TurnFresh'
  BY <1>20, ProcsPartition, OthersEngaged
     DEF Abort, Done, Forget, GoTo, KeepRow, row, TurnFresh, Resting, TypeInv, TypeOK
<1>21. CASE UNCHANGED vars
  BY <1>21 DEF vars, row, locals, TurnFresh
<1>. QED
  BY <1>1, <1>2, <1>3, <1>4, <1>5, <1>6, <1>7, <1>8, <1>9, <1>10, <1>11, <1>12,
     <1>13, <1>14, <1>15, <1>16, <1>17, <1>18, <1>19, <1>20, <1>21
     DEF Next, WidgetNext, WebhookNext, TurnNext, RequestNext

LEMMA StillInvariance == StillSpec => [](TypeInv /\ TurnFresh)
<1>1. ASSUME Init  PROVE TypeInv /\ TurnFresh
  <2>1. TurnFresh
    BY <1>1, ProcsPartition DEF Init, TurnFresh
  <2>. QED  BY <1>1, <2>1, TypeInvInit
<1>2. ASSUME TypeInv, TurnFresh, [Next /\ RowIsStill]_vars  PROVE TypeInv' /\ TurnFresh'
  <2>1. [Next]_vars /\ (Next \/ UNCHANGED vars)
    BY <1>2
  <2>2. RowIsStill
    BY <1>2 DEF RowIsStill, vars
  <2>3. TypeInv'
    BY <1>2, <2>1, TypeStep, AdmittedStep DEF TypeInv
  <2>. QED  BY <1>2, <2>1, <2>2, <2>3, TurnFreshStep
<1>. QED  BY <1>1, <1>2, PTL DEF StillSpec

\* Only a turn's answer is a message of the engine.
LEMMA AnswersInTurns ==
    ASSUME TypeInv, Next \/ UNCHANGED vars,
           NEW g \in Handlers, messages'[g]["ai"] > messages[g]["ai"]
    PROVE  pc[g] = "turn"
<1>1. ASSUME NEW w \in Widgets, UserMessage(w)  PROVE pc[g] = "turn"
  BY <1>1, ProcsPartition DEF UserMessage, Append, TypeInv, TypeOK, Source
<1>2. ASSUME NEW w \in Widgets, ReadStatus(w)  PROVE pc[g] = "turn"
  BY <1>2, ProcsPartition DEF ReadStatus, TypeInv, TypeOK, Source
<1>3. ASSUME NEW w \in Widgets, SwitchBack(w)  PROVE pc[g] = "turn"
  BY <1>3, ProcsPartition DEF SwitchBack, TypeInv, TypeOK, Source
<1>4. ASSUME NEW w \in Widgets, RequestHuman(w)  PROVE pc[g] = "turn"
  BY <1>4, ProcsPartition DEF RequestHuman, TypeInv, TypeOK, Source
<1>5. ASSUME NEW h \in Webhooks, WebhookRead(h)  PROVE pc[g] = "turn"
  BY <1>5, ProcsPartition DEF WebhookRead, TypeInv, TypeOK, Source
<1>6. ASSUME NEW h \in Webhooks, WebhookStore(h)  PROVE pc[g] = "turn"
  BY <1>6, ProcsPartition DEF WebhookStore, Append, TypeInv, TypeOK, Source
<1>7. ASSUME NEW h \in Handlers, TurnAnswers(h)  PROVE pc[g] = "turn"
  BY <1>7, ProcsPartition DEF TurnAnswers, Append, TypeInv, TypeOK, Source
<1>8. ASSUME NEW h \in Handlers, TurnIsNoise(h)  PROVE pc[g] = "turn"
  BY <1>8, ProcsPartition DEF TurnIsNoise, Append, TypeInv, TypeOK, Source
<1>9. ASSUME NEW h \in Handlers, TurnEscalates(h)  PROVE pc[g] = "turn"
  BY <1>9, ProcsPartition DEF TurnEscalates, TypeInv, TypeOK, Source
<1>10. ASSUME NEW h \in Handlers, EscalateRead(h)  PROVE pc[g] = "turn"
  BY <1>10, ProcsPartition DEF EscalateRead, TypeInv, TypeOK, Source
<1>11. ASSUME NEW h \in Handlers, EscalateCommit(h)  PROVE pc[g] = "turn"
  BY <1>11, ProcsPartition DEF EscalateCommit, Append, TypeInv, TypeOK, Source
<1>12. ASSUME NEW r \in Requests, NEW a \in Agents, ClaimRead(r, a)  PROVE pc[g] = "turn"
  BY <1>12, ProcsPartition DEF ClaimRead, Arrive, TypeInv, TypeOK, Source
<1>13. ASSUME NEW r \in Requests, NEW a \in Agents, ReplyRead(r, a)  PROVE pc[g] = "turn"
  BY <1>13, ProcsPartition DEF ReplyRead, Arrive, TypeInv, TypeOK, Source
<1>14. ASSUME NEW r \in Requests, NEW a \in Agents, SwitchRead(r, a)  PROVE pc[g] = "turn"
  BY <1>14, ProcsPartition DEF SwitchRead, Arrive, TypeInv, TypeOK, Source
<1>15. ASSUME NEW r \in Requests, NEW a \in Agents, CloseRead(r, a)  PROVE pc[g] = "turn"
  BY <1>15, ProcsPartition DEF CloseRead, Arrive, TypeInv, TypeOK, Source
<1>16. ASSUME NEW r \in Requests, ClaimCommit(r)  PROVE pc[g] = "turn"
  BY <1>16, ProcsPartition DEF ClaimCommit, TypeInv, TypeOK, Source
<1>17. ASSUME NEW r \in Requests, ReplyCommit(r)  PROVE pc[g] = "turn"
  BY <1>17, ProcsPartition DEF ReplyCommit, Append, TypeInv, TypeOK, Source
<1>18. ASSUME NEW r \in Requests, SwitchCommit(r)  PROVE pc[g] = "turn"
  BY <1>18, ProcsPartition DEF SwitchCommit, TypeInv, TypeOK, Source
<1>19. ASSUME NEW r \in Requests, CloseCommit(r)  PROVE pc[g] = "turn"
  BY <1>19, ProcsPartition DEF CloseCommit, TypeInv, TypeOK, Source
<1>20. ASSUME NEW p \in Procs, Abort(p)  PROVE pc[g] = "turn"
  BY <1>20, ProcsPartition DEF Abort, TypeInv, TypeOK, Source
<1>21. CASE UNCHANGED vars
  BY <1>21, ProcsPartition DEF vars, TypeInv, TypeOK, Source
<1>. QED
  BY <1>1, <1>2, <1>3, <1>4, <1>5, <1>6, <1>7, <1>8, <1>9, <1>10, <1>11, <1>12,
     <1>13, <1>14, <1>15, <1>16, <1>17, <1>18, <1>19, <1>20, <1>21
     DEF Next, WidgetNext, WebhookNext, TurnNext, RequestNext

\* The engine talks over an agent only where the row changes during a delivery or
\* a turn: as long as it does not, the engine is silent while an agent has the
\* conversation (ws_widget.py 110-114, webhook.py 53-64).
THEOREM StillSilence == StillSpec => EngineSilentWhileHuman
<1>1. TypeInv /\ TurnFresh /\ [Next /\ RowIsStill]_vars =>
        [\A h \in Handlers : messages'[h]["ai"] > messages[h]["ai"] => status # "human"]_vars
  BY AnswersInTurns DEF TurnFresh
<1>. QED  BY <1>1, StillInvariance, PTL DEF StillSpec, EngineSilentWhileHuman

(***************************************************************************)
(* One handler at a time                                                   *)
(***************************************************************************)

\* Whoever changes the row goes on to another place.
LEMMA WritersMove ==
    ASSUME TypeInv, Next \/ UNCHANGED vars, row' # row
    PROVE  \E p \in Procs : InFlight(p) /\ pc'[p] # pc[p]
<1>1. ASSUME NEW w \in Widgets, UserMessage(w)  PROVE FALSE
  BY <1>1 DEF UserMessage, KeepRow, row
<1>2. ASSUME NEW w \in Widgets, ReadStatus(w)  PROVE FALSE
  BY <1>2 DEF ReadStatus, KeepRow, row
<1>3. ASSUME NEW w \in Widgets, SwitchBack(w)  PROVE InFlight(w) /\ pc'[w] # pc[w]
  BY <1>3, ProcsPartition DEF SwitchBack, GoTo, InFlight, Resting, TypeInv, TypeOK
<1>4. ASSUME NEW w \in Widgets, RequestHuman(w)  PROVE FALSE
  BY <1>4 DEF RequestHuman, KeepRow, row
<1>5. ASSUME NEW h \in Webhooks, WebhookRead(h)  PROVE FALSE
  BY <1>5 DEF WebhookRead, KeepRow, row
<1>6. ASSUME NEW h \in Webhooks, WebhookStore(h)  PROVE FALSE
  BY <1>6 DEF WebhookStore, KeepRow, row
<1>7. ASSUME NEW h \in Handlers, TurnAnswers(h)  PROVE FALSE
  BY <1>7 DEF TurnAnswers, row
<1>8. ASSUME NEW h \in Handlers, TurnIsNoise(h)  PROVE FALSE
  BY <1>8 DEF TurnIsNoise, KeepRow, row
<1>9. ASSUME NEW h \in Handlers, TurnEscalates(h)  PROVE FALSE
  BY <1>9 DEF TurnEscalates, KeepRow, row
<1>10. ASSUME NEW h \in Handlers, EscalateRead(h)  PROVE FALSE
  BY <1>10 DEF EscalateRead, KeepRow, row
<1>11. ASSUME NEW h \in Handlers, EscalateCommit(h)  PROVE InFlight(h) /\ pc'[h] # pc[h]
  BY <1>11, ProcsPartition
     DEF EscalateCommit, Done, GoTo, InFlight, Resting, TypeInv, TypeOK
<1>12. ASSUME NEW r \in Requests, NEW a \in Agents, ClaimRead(r, a)  PROVE FALSE
  BY <1>12 DEF ClaimRead, Arrive, KeepRow, row
<1>13. ASSUME NEW r \in Requests, NEW a \in Agents, ReplyRead(r, a)  PROVE FALSE
  BY <1>13 DEF ReplyRead, Arrive, KeepRow, row
<1>14. ASSUME NEW r \in Requests, NEW a \in Agents, SwitchRead(r, a)  PROVE FALSE
  BY <1>14 DEF SwitchRead, Arrive, KeepRow, row
<1>15. ASSUME NEW r \in Requests, NEW a \in Agents, CloseRead(r, a)  PROVE FALSE
  BY <1>15 DEF CloseRead, Arrive, KeepRow, row
<1>16. ASSUME NEW r \in Requests, ClaimCommit(r)  PROVE InFlight(r) /\ pc'[r] # pc[r]
  BY <1>16, ProcsPartition
     DEF ClaimCommit, Respond, GoTo, InFlight, Resting, TypeInv, TypeOK
<1>17. ASSUME NEW r \in Requests, ReplyCommit(r)  PROVE FALSE
  BY <1>17 DEF ReplyCommit, KeepRow, row
<1>18. ASSUME NEW r \in Requests, SwitchCommit(r)  PROVE InFlight(r) /\ pc'[r] # pc[r]
  BY <1>18, ProcsPartition
     DEF SwitchCommit, Respond, GoTo, InFlight, Resting, TypeInv, TypeOK
<1>19. ASSUME NEW r \in Requests, CloseCommit(r)  PROVE InFlight(r) /\ pc'[r] # pc[r]
  BY <1>19, ProcsPartition
     DEF CloseCommit, Respond, GoTo, InFlight, Resting, TypeInv, TypeOK
<1>20. ASSUME NEW p \in Procs, Abort(p)  PROVE FALSE
  BY <1>20 DEF Abort, KeepRow, row
<1>21. CASE UNCHANGED vars
  BY <1>21 DEF vars
<1>. QED
  BY <1>1, <1>2, <1>3, <1>4, <1>5, <1>6, <1>7, <1>8, <1>9, <1>10, <1>11, <1>12,
     <1>13, <1>14, <1>15, <1>16, <1>17, <1>18, <1>19, <1>20, <1>21, ProcsPartition
     DEF Next, WidgetNext, WebhookNext, TurnNext, RequestNext

LEMMA SerialInvariance == SerialSpec => [](TypeInv /\ Alone)
<1>1. Init => TypeInv /\ Alone
  BY TypeInvInit DEF Init, Alone, InFlight, Resting
<1>2. ASSUME TypeInv, Alone, [Next /\ Alone']_vars  PROVE TypeInv' /\ Alone'
  <2>1. Alone'
    BY <1>2 DEF Alone, InFlight, vars, locals
  <2>. QED  BY <1>2, <2>1, TypeStep, AdmittedStep DEF TypeInv
<1>. QED  BY <1>1, <1>2, PTL DEF SerialSpec

\* With one handler at a time the row is kept for whoever holds it or is engaged.
LEMMA SerialIsStill == SerialSpec => StillSpec /\ KeptSpec
<1>1. ASSUME TypeInv, Alone, Next  PROVE RowIsStill /\ RowIsKept
  <2>. SUFFICES ASSUME row' # row, NEW q \in Procs, Holds(q) \/ Engaged(q)
                PROVE  pc'[q] # pc[q]
       BY DEF RowIsStill, RowIsKept
  <2>1. PICK p \in Procs : InFlight(p) /\ pc'[p] # pc[p]
    BY <1>1, WritersMove
  <2>2. InFlight(q)
    BY DEF Holds, Engaged, InFlight, Resting
  <2>. QED  BY <1>1, <2>1, <2>2 DEF Alone
<1>2. TypeInv /\ Alone /\ [Next /\ Alone']_vars
          => [Next /\ RowIsStill]_vars /\ [Next /\ RowIsKept]_vars
  BY <1>1
<1>. QED  BY <1>2, SerialInvariance, PTL DEF SerialSpec, StillSpec, KeptSpec

\* Run one handler at a time, the code implements the take-over protocol.
THEOREM SerialImplementsTakeover == SerialSpec => FollowsProtocol
BY SerialIsStill, KeptImplementsTakeover

\* Run one handler at a time, the engine is silent while an agent has the
\* conversation.
THEOREM SerialSilence == SerialSpec => EngineSilentWhileHuman
BY SerialIsStill, StillSilence
=============================================================================
