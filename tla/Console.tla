------------------------------- MODULE Console -------------------------------
(***************************************************************************)
(* The agents' inbox: one page that selects a conversation, asks for its   *)
(* messages then and every 2.5 seconds, and acts on it.  Any number of     *)
(* calls are under way at once, each of them sets the messages on the page *)
(* when its answer arrives, and answers arrive in any order.               *)
(***************************************************************************)
EXTENDS Naturals

CONSTANTS Convs,         \* conversations
          NoConv,        \* the null of sel
          Slots,         \* bound: calls under way at once
          MaxMessages,   \* bound: messages of a conversation
          MaxFailures    \* bound: calls that fail

ASSUME ConvAssumption == NoConv \notin Convs

VARIABLES
    total,      \* total[x]: messages of conversation x in the database
    sel,        \* the conversation that is selected
    shown,      \* whose messages the page shows, and how many
    calls,      \* calls[s]: a call under way, its conversation and what it returns;
                \* acting: the POST of an action and the list come first;
                \* asking: GET messages is on its way; answering: its answer is
    failures    \* how many calls failed so far

vars == << total, sel, shown, calls, failures >>

Free == [step |-> "free", conv |-> NoConv, upto |-> 0]

Init ==
    /\ total = [x \in Convs |-> 1]
    /\ sel = NoConv
    /\ shown = [conv |-> NoConv, upto |-> 0]
    /\ calls = [s \in Slots |-> Free]
    /\ failures = 0
-----------------------------------------------------------------------------
Begin(s, step, x) ==
    /\ calls[s].step = "free"
    /\ calls' = [calls EXCEPT ![s] = [step |-> step, conv |-> x, upto |-> 0]]

\* A click on the list.
Open(s, x) ==
    /\ sel' = x
    /\ Begin(s, "asking", x)
    /\ UNCHANGED << total, shown, failures >>

\* Fault: the timer's function sees what was selected when the page was opened.
PollOfMount(s) ==
    /\ FALSE
    /\ Begin(s, "asking", sel)
    /\ UNCHANGED << total, sel, shown, failures >>

\* The timer: selRef holds what is selected by now.
Poll(s) ==
    /\ sel # NoConv
    /\ Begin(s, "asking", sel)
    /\ UNCHANGED << total, sel, shown, failures >>

\* Take over, reply, switch to AI, close: of what is selected at the click.
Act(s) ==
    /\ sel # NoConv
    /\ Begin(s, "acting", sel)
    /\ UNCHANGED << total, sel, shown, failures >>

\* The action is done, with or without a message, and the list is loaded.
Acted(s) ==
    /\ calls[s].step = "acting"
    /\ LET x == calls[s].conv
       IN  \/ UNCHANGED total
           \/ total[x] < MaxMessages /\ total' = [total EXCEPT ![x] = @ + 1]
    /\ calls' = [calls EXCEPT ![s].step = "asking"]
    /\ UNCHANGED << sel, shown, failures >>

\* The server reads the history.
Answer(s) ==
    /\ calls[s].step = "asking"
    /\ calls' = [calls EXCEPT ![s].step = "answering", ![s].upto = total[calls[s].conv]]
    /\ UNCHANGED << total, sel, shown, failures >>

\* setMsgs, whatever is selected by now.
Arrive(s) ==
    /\ calls[s].step = "answering"
    /\ shown' = [conv |-> calls[s].conv, upto |-> calls[s].upto]
    /\ calls' = [calls EXCEPT ![s] = Free]
    /\ UNCHANGED << total, sel, failures >>

\* A call fails or is refused: nothing more comes of it.
Fail(s) ==
    /\ calls[s].step # "free"
    /\ failures < MaxFailures
    /\ failures' = failures + 1
    /\ calls' = [calls EXCEPT ![s] = Free]
    /\ UNCHANGED << total, sel, shown >>

\* A message of the user, the engine or another agent.
Grow(x) ==
    /\ total[x] < MaxMessages
    /\ total' = [total EXCEPT ![x] = @ + 1]
    /\ UNCHANGED << sel, shown, calls, failures >>

Proceed(s) == Acted(s) \/ Answer(s) \/ Arrive(s)

Next == \/ \E s \in Slots : \/ \E x \in Convs : Open(s, x)
                            \/ Poll(s) \/ Act(s) \/ Proceed(s) \/ Fail(s)
        \/ \E x \in Convs : Grow(x)

Spec == Init /\ [][Next]_vars

\* The timer fires again and again; a call that has not failed is answered.
FairSpec == /\ Spec
            /\ SF_vars(\E s \in Slots : Poll(s))
            /\ \A s \in Slots : WF_vars(Proceed(s))
-----------------------------------------------------------------------------
\* An agent who stays with a conversation ends up seeing it, up to its last
\* message, and keeps seeing it: neither the late answer for the conversation
\* left before, nor an older answer that comes last, nor a failed call stands
\* for good.
ShowsSelected ==
    \A x \in Convs :
        <>[](sel = x) => <>[](shown = [conv |-> x, upto |-> total[x]])
=============================================================================
