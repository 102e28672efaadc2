------------------------------ MODULE Takeover ------------------------------
(***************************************************************************)
(* What the conversation service promises about the hand-over between the  *)
(* engine and the agents, one atomic step per event of the table.  It is   *)
(* the abstract specification of module Conversations: the promise of      *)
(* services/agent_service.py ("every operation goes through the state      *)
(* machine") and of the data model.                                        *)
(***************************************************************************)
EXTENDS ConversationFSM

CONSTANTS Agents,      \* the agents (human operators) of the tenant
          NoAgent      \* the NULL of assigned_agent_id

VARIABLES status,      \* conversation.status
          owner        \* conversation.assigned_agent_id

vars == << status, owner >>

Init == status = "ai" /\ owner = NoAgent

\* The row moves along an edge of the table.
Fire(event) == /\ Legal(status, event)
               /\ status' = Transition(status, event)

\* The user waits for an agent; the assignment is left alone.
Escalate == Fire("escalate") /\ UNCHANGED owner

\* An agent takes the conversation over and owns it from then on.
Claim(a) == Fire("claim") /\ owner' = a

\* The engine answers again and nobody owns the conversation.
SwitchToAI == Fire("switch_to_ai") /\ owner' = NoAgent

\* The conversation ends; the row keeps its last owner.
Close == Fire("close") /\ UNCHANGED owner

Next == Escalate \/ (\E a \in Agents : Claim(a)) \/ SwitchToAI \/ Close

Spec == Init /\ [][Next]_vars
=============================================================================
