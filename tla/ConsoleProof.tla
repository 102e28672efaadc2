---------------------------- MODULE ConsoleProof ----------------------------
(***************************************************************************)
(* What ShowsSelected rests on, for any number of conversations, calls and *)
(* messages: that what the page shows was there, and that only a call from *)
(* before can make it show something other than what is selected.          *)
(***************************************************************************)
EXTENDS Console, TLAPS

USE DEF vars

Call == [step : {"free", "acting", "asking", "answering"}, conv : Convs \cup {NoConv}, upto : Nat]

\* A call is about a conversation, and brings no more than is stored of it.
Fits(s) == /\ calls[s].step # "free" => calls[s].conv \in Convs
           /\ calls[s].step = "answering" => calls[s].upto <= total[calls[s].conv]

\* The page shows no more of a conversation than is stored.
ShownIsThere == shown.conv # NoConv => shown.upto <= total[shown.conv]

Inv ==
    /\ total \in [Convs -> Nat]
    /\ sel \in Convs \cup {NoConv}
    /\ shown \in [conv : Convs \cup {NoConv}, upto : Nat]
    /\ calls \in [Slots -> Call]
    /\ \A s \in Slots : Fits(s)
    /\ ShownIsThere

\* All there is of conversation x.
Whole(x) == [conv |-> x, upto |-> total[x]]

\* Call s will set other messages than those of x, or fewer than there are.
Misleads(s, x) ==
    /\ calls[s].step # "free"
    /\ \/ calls[s].conv # x
       \/ calls[s].step = "answering" /\ calls[s].upto # total[x]

\* While x is selected and gets no message, no call starts to mislead, and none
\* but one that does takes the page from all there is of x.
OnlyOldCallsMislead ==
    [][\A x \in Convs : sel = x /\ sel' = x /\ total'[x] = total[x] =>
           /\ \A s \in Slots : Misleads(s, x)' => Misleads(s, x)
           /\ shown' # shown => \/ shown' = Whole(x)'
                                \/ \E s \in Slots : Misleads(s, x)]_vars

(***************************************************************************)
(* The invariant                                                           *)
(***************************************************************************)

LEMMA InitInv == Init => Inv
BY DEF Init, Inv, Fits, Call, Free, ShownIsThere

\* What a call becomes when it begins.
LEMMA BeginFits ==
    ASSUME Inv, NEW s \in Slots, NEW x \in Convs, NEW l \in {"asking", "acting"}, Begin(s, l, x)
    PROVE  /\ calls[s].step = "free"
           /\ calls' \in [Slots -> Call]
           /\ calls'[s].step = l /\ calls'[s].conv = x
           /\ \A r \in Slots \ {s} : calls'[r] = calls[r]
<1>1. [step |-> l, conv |-> x, upto |-> 0] \in Call  BY DEF Call
<1>2. calls' = [calls EXCEPT ![s] = [step |-> l, conv |-> x, upto |-> 0]]
      BY DEF Begin
<1>. QED  BY <1>1, <1>2 DEF Begin, Inv

\* Open, Poll and Act begin a call for what is selected then.
LEMMA Beginning ==
    ASSUME Inv, NEW s \in Slots, Poll(s) \/ Act(s) \/ \E x \in Convs : Open(s, x)
    PROVE  /\ sel' \in Convs
           /\ \E l \in {"asking", "acting"} : Begin(s, l, sel')
           /\ UNCHANGED << total, shown, failures >>
<1>1. CASE Poll(s) \/ Act(s)  BY <1>1 DEF Poll, Act, Inv
<1>2. CASE \E x \in Convs : Open(s, x)  BY <1>2 DEF Open
<1>. QED  BY <1>1, <1>2

LEMMA BeginningKeeps ==
    ASSUME Inv, NEW s \in Slots, Poll(s) \/ Act(s) \/ \E x \in Convs : Open(s, x)
    PROVE  Inv'
<1>1. /\ calls' \in [Slots -> Call]
      /\ calls'[s].conv = sel' /\ calls'[s].step \in {"asking", "acting"}
      /\ \A r \in Slots \ {s} : calls'[r] = calls[r]
  <2>1. PICK l \in {"asking", "acting"} : Begin(s, l, sel')  BY Beginning
  <2>2. sel' \in Convs  BY Beginning
  <2>3. /\ calls' \in [Slots -> Call]
        /\ calls'[s].step = l /\ calls'[s].conv = sel'
        /\ \A r \in Slots \ {s} : calls'[r] = calls[r]
        BY <2>1, <2>2, BeginFits
  <2>. QED  BY <2>3
<1>2. \A r \in Slots : Fits(r)'  BY <1>1, Beginning DEF Inv, Fits
<1>. QED  BY <1>1, <1>2, Beginning DEF Inv, ShownIsThere

\* Messages are only added.
LEMMA MoreKeeps ==
    ASSUME Inv, total' \in [Convs -> Nat], \A x \in Convs : total[x] <= total'[x],
           UNCHANGED << sel, shown >>, calls' \in [Slots -> Call],
           \A s \in Slots : \/ calls'[s] = calls[s]
                            \/ calls'[s].step # "answering" /\ calls'[s].conv \in Convs
    PROVE  Inv'
<1>1. ASSUME NEW s \in Slots PROVE Fits(s)'
  <2>1. CASE calls'[s] = calls[s]
    <3>1. calls[s] \in Call  BY DEF Inv
    <3>2. calls[s].upto \in Nat  BY <3>1 DEF Call
    <3>3. ASSUME calls[s].step = "answering" PROVE calls[s].upto <= total'[calls[s].conv]
      <4>1. calls[s].conv \in Convs /\ calls[s].upto <= total[calls[s].conv]
            BY <3>3 DEF Inv, Fits
      <4>2. total[calls[s].conv] \in Nat /\ total'[calls[s].conv] \in Nat
            BY <4>1 DEF Inv
      <4>. QED  BY <3>2, <4>1, <4>2
    <3>. QED  BY <2>1, <3>3 DEF Inv, Fits
  <2>2. CASE calls'[s] # calls[s]  BY <2>2 DEF Fits
  <2>. QED  BY <2>1, <2>2
<1>2. ShownIsThere'
  <2>1. ASSUME shown.conv # NoConv PROVE shown.upto <= total'[shown.conv]
    <3>1. shown.conv \in Convs /\ shown.upto \in Nat /\ shown.upto <= total[shown.conv]
          BY <2>1 DEF Inv, ShownIsThere
    <3>2. total[shown.conv] \in Nat /\ total'[shown.conv] \in Nat  BY <3>1 DEF Inv
    <3>. QED  BY <3>1, <3>2
  <2>. QED  BY <2>1 DEF ShownIsThere
<1>. QED  BY <1>1, <1>2 DEF Inv

LEMMA InvStep == Inv /\ [Next]_vars => Inv'
<1>. SUFFICES ASSUME Inv, [Next]_vars PROVE Inv'
     OBVIOUS
<1>1. ASSUME NEW s \in Slots, Poll(s) \/ Act(s) \/ \E x \in Convs : Open(s, x) PROVE Inv'
      BY <1>1, BeginningKeeps
<1>2. ASSUME NEW s \in Slots, Acted(s) PROVE Inv'
  <2>1. /\ calls[s].step = "acting" /\ calls[s].conv \in Convs /\ calls[s] \in Call
        BY <1>2 DEF Acted, Inv, Fits
  <2>2. /\ calls' \in [Slots -> Call]
        /\ calls'[s].step = "asking" /\ calls'[s].conv = calls[s].conv
        /\ \A r \in Slots \ {s} : calls'[r] = calls[r]
        BY <1>2, <2>1 DEF Acted, Inv, Call
  <2>3. total' \in [Convs -> Nat] /\ \A x \in Convs : total[x] <= total'[x]
        BY <1>2, <2>1 DEF Acted, Inv
  <2>. QED  BY <1>2, <2>1, <2>2, <2>3, MoreKeeps DEF Acted
<1>3. ASSUME NEW s \in Slots, Answer(s) PROVE Inv'
  <2>1. /\ calls[s].step = "asking" /\ calls[s].conv \in Convs /\ calls[s] \in Call
        BY <1>3 DEF Answer, Inv, Fits
  <2>2. total[calls[s].conv] \in Nat  BY <2>1 DEF Inv
  <2>3. /\ calls' \in [Slots -> Call]
        /\ calls'[s].conv = calls[s].conv /\ calls'[s].upto = total[calls[s].conv]
        /\ \A r \in Slots \ {s} : calls'[r] = calls[r]
        BY <1>3, <2>1, <2>2 DEF Answer, Inv, Call
  <2>4. \A r \in Slots : Fits(r)'  BY <1>3, <2>1, <2>2, <2>3 DEF Answer, Inv, Fits
  <2>. QED  BY <1>3, <2>3, <2>4 DEF Answer, Inv, ShownIsThere
<1>4. ASSUME NEW s \in Slots, Arrive(s) PROVE Inv'
  <2>1. /\ calls[s].conv \in Convs /\ calls[s] \in Call
        /\ calls[s].upto <= total[calls[s].conv]
        BY <1>4 DEF Arrive, Inv, Fits
  <2>2. calls' \in [Slots -> Call]  BY <1>4 DEF Arrive, Inv, Call, Free
  <2>3. \A r \in Slots : Fits(r)'  BY <1>4 DEF Arrive, Inv, Fits, Free
  <2>4. shown' \in [conv : Convs \cup {NoConv}, upto : Nat] /\ ShownIsThere'
        BY <1>4, <2>1 DEF Arrive, Call, ShownIsThere
  <2>. QED  BY <1>4, <2>2, <2>3, <2>4 DEF Arrive, Inv
<1>5. ASSUME NEW s \in Slots, Fail(s) PROVE Inv'
  <2>1. calls' \in [Slots -> Call]  BY <1>5 DEF Fail, Inv, Call, Free
  <2>2. \A r \in Slots : Fits(r)'  BY <1>5 DEF Fail, Inv, Fits, Free
  <2>. QED  BY <1>5, <2>1, <2>2 DEF Fail, Inv, ShownIsThere
<1>6. ASSUME NEW x \in Convs, Grow(x) PROVE Inv'
  <2>1. total' \in [Convs -> Nat] /\ \A y \in Convs : total[y] <= total'[y]
        BY <1>6 DEF Grow, Inv
  <2>. QED  BY <1>6, <2>1, MoreKeeps DEF Grow, Inv
<1>7. CASE UNCHANGED vars
      BY <1>7 DEF Inv, Fits, ShownIsThere
<1>. QED  BY <1>1, <1>2, <1>3, <1>4, <1>5, <1>6, <1>7 DEF Next, Proceed

THEOREM Invariance == Spec => []Inv
<1>. QED  BY InitInv, InvStep, PTL DEF Spec

\* The page never shows more of a conversation than the database holds, however
\* late an answer is (Inbox.tsx 47-49).
THEOREM ShownWasThere == Spec => []ShownIsThere
<1>1. Inv => ShownIsThere  BY DEF Inv
<1>. QED  BY <1>1, Invariance, PTL

(***************************************************************************)
(* What misleads                                                           *)
(***************************************************************************)

LEMMA NoNewMisleads ==
    ASSUME Inv, [Next]_vars, NEW x \in Convs, sel = x, sel' = x, total'[x] = total[x],
           NEW s \in Slots, Misleads(s, x)'
    PROVE  Misleads(s, x)
<1>1. ASSUME NEW r \in Slots, Poll(r) \/ Act(r) \/ \E y \in Convs : Open(r, y)
      PROVE  Misleads(s, x)
  <2>1. /\ calls'[r].conv = x /\ calls'[r].step \in {"asking", "acting"}
        /\ \A q \in Slots \ {r} : calls'[q] = calls[q]
    <3>1. PICK l \in {"asking", "acting"} : Begin(r, l, x)  BY <1>1, Beginning
    <3>2. /\ calls'[r].step = l /\ calls'[r].conv = x
          /\ \A q \in Slots \ {r} : calls'[q] = calls[q]
          BY <3>1, BeginFits
    <3>. QED  BY <3>2
  <2>. QED  BY <2>1 DEF Misleads
<1>2. ASSUME NEW r \in Slots, Acted(r) PROVE Misleads(s, x)
  <2>1. /\ calls[r].step = "acting"
        /\ calls'[r].step = "asking" /\ calls'[r].conv = calls[r].conv
        /\ \A q \in Slots \ {r} : calls'[q] = calls[q]
        BY <1>2 DEF Acted, Inv, Call
  <2>. QED  BY <2>1 DEF Misleads
<1>3. ASSUME NEW r \in Slots, Answer(r) PROVE Misleads(s, x)
  <2>1. /\ calls[r].step = "asking"
        /\ calls'[r].conv = calls[r].conv /\ calls'[r].upto = total[calls[r].conv]
        /\ \A q \in Slots \ {r} : calls'[q] = calls[q]
        BY <1>3 DEF Answer, Inv, Call
  <2>. QED  BY <2>1 DEF Misleads
<1>4. ASSUME NEW r \in Slots, Arrive(r) \/ Fail(r) PROVE Misleads(s, x)
  <2>1. /\ calls'[r].step = "free"
        /\ \A q \in Slots \ {r} : calls'[q] = calls[q]
        BY <1>4 DEF Arrive, Fail, Free, Inv
  <2>. QED  BY <2>1 DEF Misleads
<1>5. ASSUME UNCHANGED calls PROVE Misleads(s, x)
      BY <1>5 DEF Misleads
<1>. QED  BY <1>1, <1>2, <1>3, <1>4, <1>5 DEF Next, Proceed, Grow

LEMMA OnlyMisleadingCallsShow ==
    ASSUME Inv, [Next]_vars, NEW x \in Convs, total'[x] = total[x],
           shown' # shown, \A s \in Slots : ~Misleads(s, x)
    PROVE  shown' = Whole(x)'
<1>1. PICK s \in Slots : Arrive(s)
  <2>1. ASSUME NEW s \in Slots, Poll(s) \/ Act(s) \/ \E y \in Convs : Open(s, y)
        PROVE  FALSE
        BY <2>1, Beginning
  <2>. QED  BY <2>1 DEF Next, Proceed, Acted, Answer, Fail, Grow
<1>2. calls[s].conv = x /\ calls[s].upto = total[x]
      BY <1>1 DEF Arrive, Misleads
<1>. QED  BY <1>1, <1>2 DEF Arrive, Whole

\* While a conversation stays selected and gets no message, an answer that sets
\* something else on the page is one that was under way before: there are fewer
\* and fewer of those, and when they are gone the page stays as it should
\* (Inbox.tsx 51-70).
THEOREM OldCallsOnly == Spec => OnlyOldCallsMislead
<1>1. Inv /\ [Next]_vars =>
         [\A x \in Convs : sel = x /\ sel' = x /\ total'[x] = total[x] =>
             /\ \A s \in Slots : Misleads(s, x)' => Misleads(s, x)
             /\ shown' # shown => \/ shown' = Whole(x)'
                                  \/ \E s \in Slots : Misleads(s, x)]_vars
      BY NoNewMisleads, OnlyMisleadingCallsShow
<1>. QED  BY <1>1, Invariance, PTL DEF Spec, OnlyOldCallsMislead
=============================================================================
