-------------------------- MODULE MCConversations --------------------------
(***************************************************************************)
(* Instances of Conversations for TLC.  The processes and the agents are   *)
(* model values; those of one kind are interchangeable.                    *)
(***************************************************************************)
EXTENDS Conversations, TLC

Symmetric == Permutations(Widgets) \cup Permutations(Webhooks)
                 \cup Permutations(Requests) \cup Permutations(Agents)

\* Spec under this constraint has the behaviours of SerialSpec.
OneAtATime == Alone'
=============================================================================
