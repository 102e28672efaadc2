------------------------------- MODULE Intake -------------------------------
(***************************************************************************)
(* How a message finds its conversation.  A webhook delivery, or a widget  *)
(* connection with a contact_key, looks its contact up by key, then the    *)
(* contact's latest conversation that is not closed, and creates what is   *)
(* missing, all in one transaction; the unique index of the contacts is    *)
(* the only thing that keeps two of them apart.  The widget of this        *)
(* repository sends no key: it connects with the conversation id that its  *)
(* browser stores, or, without one, gets a contact of its own.             *)
(*                                                                         *)
(* A transaction reads from the snapshot its first SELECT takes, and its   *)
(* rows are seen by others when it commits; but another INSERT of the same *)
(* key waits for it, and fails if it commits.                              *)
(*                                                                         *)
(* Meanwhile agents and engine move the conversations, by writers that     *)
(* read a status, then write one by id whatever it has become: one that    *)
(* read before the end opens what has ended again.                         *)
(***************************************************************************)
EXTENDS Naturals, FiniteSets

CONSTANTS WebhookKeys,     \* contacts of the webhook channel, by external_user_id
          WidgetKeys,      \* contacts of the widget channel, by contact_key
          NoKey,           \* the random key of a widget without contact_key
          Handlers,        \* webhook requests and connections with a contact_key
          Writers,         \* whoever has read a status and is about to write one
          Tabs,            \* tabs of one browser that show the widget
          Texts,           \* texts typed into them
          Convs,           \* conversation ids that AUTO_INCREMENT will hand out
          NoConv,          \* None, or nothing in the browser's storage
          MaxCalls         \* bound: deliveries and connections with a contact_key

ASSUME KeyAssumption == NoKey \notin WebhookKeys \cup WidgetKeys

ASSUME NoConvAssumption == NoConv \notin Convs

ASSUME BoundAssumption == MaxCalls \in Nat

Keys == WebhookKeys \cup WidgetKeys

VARIABLES
    known,      \* the contacts whose row is committed
    state,      \* state[k]: none (no row yet), open (any status but closed), closed
    ended,      \* the conversations that were closed at some time
    contact,    \* contact[k]: whose conversation k is
    delivered,  \* delivered[k]: texts of the webhook stored in k
    said,       \* said[k]: texts of the tabs stored in k
    pc,         \* where each handler stands
    key,        \* key[h]: the contact it serves
    target,     \* target[h]: the conversation its snapshot holds for that contact
    calls,      \* how many calls there were
    holds,      \* holds[w]: the conversation whose status writer w has read
    will,       \* will[w]: what it makes of it, open (any status but closed) or closed
    store,      \* the conversation id in the browser's local storage
    link,       \* link[t]: where the connection of tab t stands
    conv,       \* conv[t]: the conversation of that connection
    history,    \* history[t]: what its SELECT returned
    sent,       \* sent[t]: texts on their way over it
    shows,      \* shows[t]: the conversation t showed last
    bubbles,    \* bubbles[t]: the user's texts that t shows
    opened      \* the tabs that got a conversation of their own

rows == << known, state, ended, contact, delivered, said >>
handlers == << pc, key, target, calls >>
writers == << holds, will >>
links == << link, conv, history, sent >>
pages == << store, shows, bubbles, opened >>
vars == << rows, handlers, writers, links, pages >>

\* unknown: the snapshot has no contact; inserted: it waits for its commit.
Place == {"idle", "unknown", "found", "inserted"}

\* accepted: the socket is open; served: the loop runs, nothing was received yet.
Link == {"off", "accepted", "served", "live"}

Fresh == {k \in Convs : state[k] = "none"}

Open(x) == {k \in Convs : contact[k] = x /\ state[k] = "open"}

Past(x) == {k \in ended : contact[k] = x}

Held(x) == {k \in Convs : /\ contact[k] = x
                          /\ \E w \in Writers : holds[w] = k /\ will[w] = "open"}

TypeOK ==
    /\ known \subseteq Keys
    /\ state \in [Convs -> {"none", "open", "closed"}]
    /\ ended \subseteq Convs
    /\ contact \in [Convs -> Keys \cup {NoKey}]
    /\ delivered \in [Convs -> Nat]
    /\ said \in [Convs -> SUBSET Texts]
    /\ pc \in [Handlers -> Place]
    /\ key \in [Handlers -> Keys \cup {NoKey}]
    /\ target \in [Handlers -> Convs \cup {NoConv}]
    /\ calls \in Nat
    /\ holds \in [Writers -> Convs \cup {NoConv}]
    /\ will \in [Writers -> {"open", "closed"}]
    /\ link \in [Tabs -> Link]
    /\ conv \in [Tabs -> Convs \cup {NoConv}]
    /\ history \in [Tabs -> SUBSET Texts]
    /\ sent \in [Tabs -> SUBSET Texts]
    /\ store \in Convs \cup {NoConv}
    /\ shows \in [Tabs -> Convs \cup {NoConv}]
    /\ bubbles \in [Tabs -> SUBSET Texts]
    /\ opened \subseteq Tabs

Init ==
    /\ known = {}
    /\ state = [k \in Convs |-> "none"]
    /\ ended = {}
    /\ contact = [k \in Convs |-> NoKey]
    /\ delivered = [k \in Convs |-> 0]
    /\ said = [k \in Convs |-> {}]
    /\ pc = [h \in Handlers |-> "idle"]
    /\ key = [h \in Handlers |-> NoKey]
    /\ target = [h \in Handlers |-> NoConv]
    /\ calls = 0
    /\ holds = [w \in Writers |-> NoConv]
    /\ will = [w \in Writers |-> "open"]
    /\ link = [t \in Tabs |-> "off"]
    /\ conv = [t \in Tabs |-> NoConv]
    /\ history = [t \in Tabs |-> {}]
    /\ sent = [t \in Tabs |-> {}]
    /\ store = NoConv
    /\ shows = [t \in Tabs |-> NoConv]
    /\ bubbles = [t \in Tabs |-> {}]
    /\ opened = {}
-----------------------------------------------------------------------------
(* The handlers that have a key.  A delivery without a valid token or       *)
(* payload ends before any of this.                                        *)

\* The transaction is over, one way or another.
End(h) ==
    /\ pc' = [pc EXCEPT ![h] = "idle"]
    /\ key' = [key EXCEPT ![h] = NoKey]
    /\ target' = [target EXCEPT ![h] = NoConv]
    /\ UNCHANGED calls

\* upsert's SELECT and latest_active_for_contact; of two conversations that were
\* active in the same second either may be the latest.
LookUp(h, x) ==
    /\ pc[h] = "idle"
    /\ calls < MaxCalls
    /\ calls' = calls + 1
    /\ pc' = [pc EXCEPT ![h] = IF x \in known THEN "found" ELSE "unknown"]
    /\ key' = [key EXCEPT ![h] = x]
    /\ \E k \in IF Open(x) = {} THEN {NoConv} ELSE Open(x) :
            target' = [target EXCEPT ![h] = k]
    /\ UNCHANGED << rows, writers, links, pages >>

\* Fault: nothing keeps two contacts with one key apart.
InsertContactAnyway(h) ==
    /\ pc[h] = "unknown"
    /\ pc' = [pc EXCEPT ![h] = "inserted"]
    /\ UNCHANGED << key, target, calls, rows, writers, links, pages >>

\* The contact's INSERT: it waits for an uncommitted one of the same key.
InsertContact(h) ==
    /\ pc[h] = "unknown"
    /\ key[h] \notin known
    /\ \A g \in Handlers : pc[g] = "inserted" => key[g] # key[h]
    /\ pc' = [pc EXCEPT ![h] = "inserted"]
    /\ UNCHANGED << key, target, calls, rows, writers, links, pages >>

\* Fault: the handler is left at a place nothing leads on from.
DuplicateContactStuck(h) ==
    /\ pc[h] = "unknown"
    /\ key[h] \in known
    /\ pc' = [pc EXCEPT ![h] = "failed"]
    /\ UNCHANGED << key, target, calls, rows, writers, links, pages >>

\* The unique index: the transaction is rolled back, the caller told to fail.
DuplicateContact(h) ==
    /\ pc[h] = "unknown"
    /\ key[h] \in known
    /\ End(h)
    /\ UNCHANGED << rows, writers, links, pages >>

\* A webhook stores its text in the same transaction, a connection has none yet.
TextOf(h) == IF key[h] \in WebhookKeys THEN 1 ELSE 0

\* The conversation that was found, whatever has become of it.
CommitToFound(h) ==
    /\ pc[h] = "found" /\ target[h] # NoConv
    /\ delivered' = [delivered EXCEPT ![target[h]] = @ + TextOf(h)]
    /\ End(h)
    /\ UNCHANGED << known, state, ended, contact, said, writers, links, pages >>

NeedsConversation(h) == pc[h] = "inserted" \/ (pc[h] = "found" /\ target[h] = NoConv)

\* Fault: the conversation is committed before its text, which gets lost.
CommitToNewWithoutText(h) ==
    /\ NeedsConversation(h)
    /\ \E k \in Fresh : /\ state' = [state EXCEPT ![k] = "open"]
                        /\ contact' = [contact EXCEPT ![k] = key[h]]
    /\ known' = known \cup {key[h]}
    /\ End(h)
    /\ UNCHANGED << ended, delivered, said, writers, links, pages >>

\* A new conversation, of a new contact or of one that has no other open.
CommitToNew(h) ==
    /\ NeedsConversation(h)
    /\ \E k \in Fresh : /\ state' = [state EXCEPT ![k] = "open"]
                        /\ contact' = [contact EXCEPT ![k] = key[h]]
                        /\ delivered' = [delivered EXCEPT ![k] = TextOf(h)]
    /\ known' = known \cup {key[h]}
    /\ End(h)
    /\ UNCHANGED << ended, said, writers, links, pages >>

\* The process or the database dies: the transaction is rolled back.
Abort(h) ==
    /\ pc[h] # "idle"
    /\ End(h)
    /\ UNCHANGED << rows, writers, links, pages >>
-----------------------------------------------------------------------------
(* The widget's tabs.                                                      *)

\* Fault: the stored id is not sent.
ConnectWithoutId(t) ==
    /\ link[t] = "off"
    /\ link' = [link EXCEPT ![t] = "accepted"]
    /\ UNCHANGED << conv, history, sent, rows, handlers, writers, pages >>

\* The page is loaded, or reconnects: wsUrl reads the storage each time.
Connect(t) ==
    /\ link[t] = "off"
    /\ link' = [link EXCEPT ![t] = "accepted"]
    /\ conv' = [conv EXCEPT ![t] = store]
    /\ UNCHANGED << history, sent, rows, handlers, writers, pages >>

\* The id is looked up whatever its status is; without one a contact with a
\* random key and its conversation are created.  Then the history is read.
Serve(t) ==
    /\ link[t] = "accepted"
    /\ \/ /\ conv[t] # NoConv
          /\ history' = [history EXCEPT ![t] = said[conv[t]]]
          /\ UNCHANGED << state, conv, opened >>
       \/ /\ conv[t] = NoConv
          /\ \E k \in Fresh : /\ state' = [state EXCEPT ![k] = "open"]
                              /\ conv' = [conv EXCEPT ![t] = k]
          /\ opened' = opened \cup {t}
          /\ UNCHANGED history
    /\ link' = [link EXCEPT ![t] = "served"]
    /\ UNCHANGED << known, ended, contact, delivered, said, handlers, writers, sent,
                    store, shows, bubbles >>

\* Fault: the history is added to what the page shows.
GreetAdding(t) ==
    /\ link[t] = "served"
    /\ link' = [link EXCEPT ![t] = "live"]
    /\ store' = conv[t]
    /\ shows' = [shows EXCEPT ![t] = conv[t]]
    /\ bubbles' = [bubbles EXCEPT ![t] = @ \cup history[t]]
    /\ history' = [history EXCEPT ![t] = {}]
    /\ UNCHANGED << rows, handlers, writers, conv, sent, opened >>

\* The tab gets the id and the history: it stores the one and shows the other,
\* and nothing else.
Greet(t) ==
    /\ link[t] = "served"
    /\ link' = [link EXCEPT ![t] = "live"]
    /\ store' = conv[t]
    /\ shows' = [shows EXCEPT ![t] = conv[t]]
    /\ bubbles' = [bubbles EXCEPT ![t] = history[t]]
    /\ history' = [history EXCEPT ![t] = {}]
    /\ UNCHANGED << rows, handlers, writers, conv, sent, opened >>

Unsaid(x) == \A t \in Tabs : x \notin sent[t] \cup bubbles[t]

\* A bubble in any case; the text is dropped unless the socket is open.
Type(t, x) ==
    /\ Unsaid(x)
    /\ \A k \in Convs : x \notin said[k]
    /\ bubbles' = [bubbles EXCEPT ![t] = @ \cup {x}]
    /\ sent' = [sent EXCEPT ![t] = IF link[t] = "off" THEN @ ELSE @ \cup {x}]
    /\ UNCHANGED << rows, handlers, writers, link, conv, history, store, shows, opened >>

\* The loop takes a text: it is stored whatever the status is.
StoreText(t, x) ==
    /\ link[t] \in {"served", "live"}
    /\ x \in sent[t]
    /\ sent' = [sent EXCEPT ![t] = @ \ {x}]
    /\ said' = [said EXCEPT ![conv[t]] = @ \cup {x}]
    /\ UNCHANGED << known, state, ended, contact, delivered, handlers, writers, link, conv,
                    history, pages >>

\* The connection is lost at any point, and what was on its way with it.
Lose(t) ==
    /\ link[t] # "off"
    /\ link' = [link EXCEPT ![t] = "off"]
    /\ conv' = [conv EXCEPT ![t] = NoConv]
    /\ history' = [history EXCEPT ![t] = {}]
    /\ sent' = [sent EXCEPT ![t] = {}]
    /\ UNCHANGED << rows, handlers, writers, pages >>
-----------------------------------------------------------------------------
(* The writers of a status: claim, set_mode and close of the agents,        *)
(* escalate, and the widget's automatic switch back.                       *)

\* Fault: the status is not looked at, so that a closed conversation can be taken.
DecideAnyway(w, k, s) ==
    /\ holds[w] = NoConv
    /\ state[k] # "none"
    /\ holds' = [holds EXCEPT ![w] = k]
    /\ will' = [will EXCEPT ![w] = s]
    /\ UNCHANGED << rows, handlers, links, pages >>

\* It reads the status and decides; nothing leads out of closed (ConversationFSM).
Decide(w, k, s) ==
    /\ holds[w] = NoConv
    /\ state[k] = "open"
    /\ holds' = [holds EXCEPT ![w] = k]
    /\ will' = [will EXCEPT ![w] = s]
    /\ UNCHANGED << rows, handlers, links, pages >>

Release(w) ==
    /\ holds' = [holds EXCEPT ![w] = NoConv]
    /\ will' = [will EXCEPT ![w] = "open"]

\* It writes by id, also if the conversation was closed meanwhile.
SetStatus(w) ==
    /\ holds[w] # NoConv
    /\ state' = [state EXCEPT ![holds[w]] = will[w]]
    /\ ended' = IF will[w] = "closed" THEN ended \cup {holds[w]} ELSE ended
    /\ Release(w)
    /\ UNCHANGED << known, contact, delivered, said, handlers, links, pages >>

\* Its transaction is rolled back, or never begins.
GiveUp(w) ==
    /\ holds[w] # NoConv
    /\ Release(w)
    /\ UNCHANGED << rows, handlers, links, pages >>

HandlerNext(h) == \/ \E x \in Keys : LookUp(h, x)
                  \/ InsertContact(h) \/ DuplicateContact(h)
                  \/ CommitToFound(h) \/ CommitToNew(h) \/ Abort(h)

TabNext(t) == \/ Connect(t) \/ Serve(t) \/ Greet(t) \/ Lose(t)
              \/ \E x \in Texts : Type(t, x) \/ StoreText(t, x)

WriterNext(w) == \/ \E k \in Convs, s \in {"open", "closed"} : Decide(w, k, s)
                 \/ SetStatus(w) \/ GiveUp(w)

Next == \/ \E h \in Handlers : HandlerNext(h)
        \/ \E t \in Tabs : TabNext(t)
        \/ \E w \in Writers : WriterNext(w)

Spec == Init /\ [][Next]_vars
-----------------------------------------------------------------------------
\* Two conversations of one contact are open at once only if one of its
\* conversations has ended at some time, though it may be open again: handlers that
\* race for a first contact are kept apart by the unique index, since whoever sees
\* the contact sees its conversation.
FirstContactIsSafe ==
    \A x \in Keys : \A j, k \in Open(x) : j # k => Past(x) # {}

\* A delivery that loses the race or dies leaves no conversation without a text
\* behind (FR-011).
NoDirtyConversation ==
    \A k \in Convs : contact[k] \in WebhookKeys => delivered[k] > 0

\* A tab that reconnects comes back to the conversation it showed (FR-015),
\* unless two tabs connected before there was anything to remember: then the id
\* that is stored last takes the other tab along.
ReturnsToItsThread ==
    [][\A t \in Tabs : shows[t] # NoConv /\ shows'[t] # shows[t]
                           => Cardinality(opened) > 1]_vars

\* While a tab is connected, each text it shows as said is stored in its
\* conversation or on its way there: what was typed while it was not connected,
\* or lost with a connection, goes from the page with the next history.
ShownIsSaid ==
    \A t \in Tabs : link[t] = "live" => bubbles[t] \subseteq said[conv[t]] \cup sent[t]

\* Per contact, the conversations follow the abstract specification.
Contacts == INSTANCE Threads WITH
                open <- [x \in Keys |-> Open(x)],
                past <- [x \in Keys |-> Past(x)],
                held <- [x \in Keys |-> Held(x)]

FollowsThreads == Contacts!Spec
=============================================================================
