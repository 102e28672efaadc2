-------------------------- MODULE ConversationFSM --------------------------
(***************************************************************************)
(* The pure conversation state machine of domain/conversation.py: the four *)
(* statuses a conversation row can have, the events that move it, and the  *)
(* transition table.  A pair that is not in the table is an illegal        *)
(* transition (the code raises InvalidTransition).                         *)
(***************************************************************************)

Status == {"ai", "pending_human", "human", "closed"}

Event == {"escalate", "claim", "switch_to_ai", "close"}

\* The rows <<from, event, to>> of the table, in the order of the source.
Table ==
    { << "ai",            "escalate",     "pending_human" >>,
      << "ai",            "claim",        "human" >>,
      << "ai",            "close",        "closed" >>,
      << "pending_human", "claim",        "human" >>,
      << "pending_human", "switch_to_ai", "ai" >>,
      << "pending_human", "close",        "closed" >>,
      << "human",         "switch_to_ai", "ai" >>,
      << "human",         "close",        "closed" >> }

Legal(s, e) == \E t \in Status : << s, e, t >> \in Table

Transition(s, e) == CHOOSE t \in Status : << s, e, t >> \in Table

\* Some event takes a conversation from status s to status t.
OnTable(s, t) == \E e \in Event : << s, e, t >> \in Table
=============================================================================
