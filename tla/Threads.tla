------------------------------ MODULE Threads ------------------------------
(***************************************************************************)
(* What a contact who writes again and again may count on: the first thing *)
(* that comes in opens one conversation, and later ones go on with it.  A  *)
(* conversation that has ended comes back only by a decision that was      *)
(* under way when it ended, never by one made afterwards.  Only a contact  *)
(* who comes back after an end may find two conversations open: nothing in *)
(* the database forbids it.                                                *)
(* It is the abstract specification of module Intake.                      *)
(***************************************************************************)
CONSTANTS Keys,    \* contacts, by channel and external id
          Convs    \* conversation ids

VARIABLES open,    \* open[x]: the conversations of x that are not closed
          past,    \* past[x]: those that have ended at some time
          held     \* held[x]: those that somebody decided to go on with

vars == << open, past, held >>

Init == /\ open = [x \in Keys |-> {}]
        /\ past = [x \in Keys |-> {}]
        /\ held = [x \in Keys |-> {}]

Begin(x, k) ==
    /\ open' = [open EXCEPT ![x] = @ \cup {k}]
    /\ open[x] = {} \/ past[x] # {}
    /\ \A y \in Keys : k \notin open[y] \cup past[y]
    /\ UNCHANGED << past, held >>

End(x, k) ==
    /\ open' = [open EXCEPT ![x] = @ \ {k}]
    /\ k \in open[x]
    /\ past' = [past EXCEPT ![x] = @ \cup {k}]
    /\ UNCHANGED held

\* Somebody decides to go on with a conversation, which is open then.
Hold(x, k) ==
    /\ held' = [held EXCEPT ![x] = @ \cup {k}]
    /\ k \in open[x]
    /\ UNCHANGED << open, past >>

\* The last who did is through.
Release(x, k) ==
    /\ held' = [held EXCEPT ![x] = @ \ {k}]
    /\ UNCHANGED << open, past >>

\* The decision takes effect after the end; another may be under way still.
Resume(x, k) ==
    /\ open' = [open EXCEPT ![x] = @ \cup {k}]
    /\ k \in held[x]
    /\ \E S \in {held[x], held[x] \ {k}} : held' = [held EXCEPT ![x] = S]
    /\ UNCHANGED past

Next == \E x \in Keys, k \in Convs :
            \/ Begin(x, k) \/ End(x, k)
            \/ Hold(x, k) \/ Release(x, k) \/ Resume(x, k)

Spec == Init /\ [][Next]_vars
=============================================================================
