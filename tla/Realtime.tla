------------------------------ MODULE Realtime ------------------------------
(***************************************************************************)
(* How a row that an agent's request commits (a reply) or an escalation    *)
(* commits (a notice) reaches the widgets of its conversation: the handler *)
(* sends it to the sockets registered with its own instance and publishes  *)
(* it to Redis; the subscriber of every other instance sends it to its     *)
(* own.  A widget that connects is registered first and is sent the        *)
(* history then, which replaces what it shows.  Every send, SELECT and     *)
(* publish is an await at which the others run.                            *)
(*                                                                         *)
(* What is sent to a socket is shown at once: the transport keeps the      *)
(* order, and what is on its way when a connection dies is shown by nobody.*)
(* Redis keeps the order, too; nothing below depends on it, so an inbox is *)
(* a set.                                                                  *)
(***************************************************************************)
EXTENDS Naturals, FiniteSets

CONSTANTS Messages,     \* rows that are committed and pushed
          Sockets,      \* WebSocket objects of the conversation, used once each
          Instances,    \* server processes
          NoInstance,   \* not decided yet
          MaxFailures   \* bound: failed publications, subscribers, instances

ASSUME NoInstanceAssumption == NoInstance \notin Instances

ASSUME BoundAssumption == MaxFailures \in Nat

VARIABLES
    committed,   \* the rows a SELECT returns
    origin,      \* origin[m]: the instance whose handler committed m
    stage,       \* stage[m]: where that handler stands
    todo,        \* todo[m]: sockets its loop has still to send m to
    inbox,       \* inbox[s]: what Redis has for the subscriber of s
    relay,       \* relay[s]: what that subscriber has still to send, and to whom
    up,          \* the instances whose subscriber task runs
    conn,        \* conn[w]: where the connection w stands
    home,        \* home[w]: its instance
    registered,  \* the sockets in the registries of the instances
    history,     \* history[w]: the rows its SELECT returned
    shown,       \* shown[w][m]: bubbles that the widget shows of m
    wiped,       \* wiped[w]: rows shown before the history, and not in it
    failures     \* how many failures there were

pushes == << committed, origin, stage, todo >>
relays == << inbox, relay, up >>
sockets == << conn, home, registered >>
views == << history, shown, wiped >>
vars == << pushes, relays, sockets, views, failures >>

Stage == {"none", "committed", "sending", "done"}

\* registered, history read, history sent; lost.
Connection == {"new", "registered", "reading", "live", "dead"}

Open(w) == conn[w] \in {"registered", "reading", "live"}

TypeOK ==
    /\ committed \subseteq Messages
    /\ origin \in [Messages -> Instances \cup {NoInstance}]
    /\ stage \in [Messages -> Stage]
    /\ todo \in [Messages -> SUBSET Sockets]
    /\ inbox \in [Instances -> SUBSET Messages]
    /\ relay \in [Instances -> SUBSET (Messages \X Sockets)]
    /\ up \subseteq Instances
    /\ conn \in [Sockets -> Connection]
    /\ home \in [Sockets -> Instances \cup {NoInstance}]
    /\ registered \subseteq Sockets
    /\ history \in [Sockets -> SUBSET Messages]
    /\ shown \in [Sockets -> [Messages -> Nat]]
    /\ wiped \in [Sockets -> SUBSET Messages]
    /\ failures \in Nat

Init ==
    /\ committed = {}
    /\ origin = [m \in Messages |-> NoInstance]
    /\ stage = [m \in Messages |-> "none"]
    /\ todo = [m \in Messages |-> {}]
    /\ inbox = [s \in Instances |-> {}]
    /\ relay = [s \in Instances |-> {}]
    /\ up = Instances
    /\ conn = [w \in Sockets |-> "new"]
    /\ home = [w \in Sockets |-> NoInstance]
    /\ registered = {}
    /\ history = [w \in Sockets |-> {}]
    /\ shown = [w \in Sockets |-> [m \in Messages |-> 0]]
    /\ wiped = [w \in Sockets |-> {}]
    /\ failures = 0
-----------------------------------------------------------------------------
\* list(self._conns.get(conversation_id, ())) on instance s.
Registered(s) == {w \in registered : home[w] = s}

\* ws.send_json: a socket that is lost raises, and is unregistered after the
\* loop; until then a second attempt would only raise again.
SendTo(w, m) ==
    IF Open(w)
      THEN /\ shown' = [shown EXCEPT ![w][m] = @ + 1]
           /\ UNCHANGED registered
      ELSE /\ registered' = registered \ {w}
           /\ UNCHANGED shown

Failure == failures < MaxFailures /\ failures' = failures + 1
-----------------------------------------------------------------------------
(* The handler that commits m: agent_service, handoff_service, broadcast.  *)

Commit(m, s) ==
    /\ stage[m] = "none"
    /\ committed' = committed \cup {m}
    /\ origin' = [origin EXCEPT ![m] = s]
    /\ stage' = [stage EXCEPT ![m] = "committed"]
    /\ UNCHANGED << todo, relays, sockets, views, failures >>

BeginSend(m) ==
    /\ stage[m] = "committed"
    /\ todo' = [todo EXCEPT ![m] = Registered(origin[m])]
    /\ stage' = [stage EXCEPT ![m] = "sending"]
    /\ UNCHANGED << committed, origin, relays, sockets, views, failures >>

\* Fault: a socket that raises ends the loop.
SendUnguarded(m, w) ==
    /\ w \in todo[m]
    /\ todo' = [todo EXCEPT ![m] = IF Open(w) THEN @ \ {w} ELSE {}]
    /\ SendTo(w, m)
    /\ UNCHANGED << committed, origin, stage, relays, conn, home, history, wiped, failures >>

Send(m, w) ==
    /\ w \in todo[m]
    /\ todo' = [todo EXCEPT ![m] = @ \ {w}]
    /\ SendTo(w, m)
    /\ UNCHANGED << committed, origin, stage, relays, conn, home, history, wiped, failures >>

\* Every subscriber that listens gets it, that of the own instance included.
Publish(m) ==
    /\ stage[m] = "sending" /\ todo[m] = {}
    /\ inbox' = [s \in Instances |-> IF s \in up THEN inbox[s] \cup {m} ELSE inbox[s]]
    /\ stage' = [stage EXCEPT ![m] = "done"]
    /\ UNCHANGED << committed, origin, todo, relay, up, sockets, views, failures >>

\* Redis cannot be reached: swallowed.
PublishFails(m) ==
    /\ stage[m] = "sending" /\ todo[m] = {}
    /\ Failure
    /\ stage' = [stage EXCEPT ![m] = "done"]
    /\ UNCHANGED << committed, origin, todo, relays, sockets, views >>
-----------------------------------------------------------------------------
(* The subscriber task of instance s: one envelope at a time.              *)

\* Fault: what the own instance published is sent once more.
ReceiveOwn(s, m) ==
    /\ m \in inbox[s] /\ relay[s] = {}
    /\ inbox' = [inbox EXCEPT ![s] = @ \ {m}]
    /\ relay' = [relay EXCEPT ![s] = {m} \X Registered(s)]
    /\ UNCHANGED << up, pushes, sockets, views, failures >>

Receive(s, m) ==
    /\ m \in inbox[s] /\ relay[s] = {}
    /\ inbox' = [inbox EXCEPT ![s] = @ \ {m}]
    /\ relay' = [relay EXCEPT ![s] = IF origin[m] = s THEN {} ELSE {m} \X Registered(s)]
    /\ UNCHANGED << up, pushes, sockets, views, failures >>

Relay(s, m, w) ==
    /\ << m, w >> \in relay[s]
    /\ relay' = [relay EXCEPT ![s] = @ \ {<< m, w >>}]
    /\ SendTo(w, m)
    /\ UNCHANGED << inbox, up, pushes, conn, home, history, wiped, failures >>

\* listen() raises: nothing restarts the task.
SubscriberEnds(s) ==
    /\ s \in up /\ relay[s] = {}
    /\ Failure
    /\ up' = up \ {s}
    /\ inbox' = [inbox EXCEPT ![s] = {}]
    /\ UNCHANGED << relay, pushes, sockets, views >>
-----------------------------------------------------------------------------
(* The widget connection and its client.                                   *)

\* Fault: the socket is registered only with the history.
ConnectUnregistered(w, s) ==
    /\ conn[w] = "new"
    /\ conn' = [conn EXCEPT ![w] = "registered"]
    /\ home' = [home EXCEPT ![w] = s]
    /\ UNCHANGED << registered, pushes, relays, views, failures >>

Connect(w, s) ==
    /\ conn[w] = "new"
    /\ conn' = [conn EXCEPT ![w] = "registered"]
    /\ home' = [home EXCEPT ![w] = s]
    /\ registered' = registered \cup {w}
    /\ UNCHANGED << pushes, relays, views, failures >>

\* Fault: the connection is left at a place nothing leads on from.
ReadHistoryStuck(w) ==
    /\ conn[w] = "registered"
    /\ conn' = [conn EXCEPT ![w] = "read"]
    /\ history' = [history EXCEPT ![w] = committed]
    /\ UNCHANGED << home, registered, shown, wiped, pushes, relays, failures >>

ReadHistory(w) ==
    /\ conn[w] = "registered"
    /\ conn' = [conn EXCEPT ![w] = "reading"]
    /\ history' = [history EXCEPT ![w] = committed]
    /\ UNCHANGED << home, registered, shown, wiped, pushes, relays, failures >>

\* The widget clears its bubbles and shows the history instead.
SendHistory(w) ==
    /\ conn[w] = "reading"
    /\ conn' = [conn EXCEPT ![w] = "live"]
    /\ wiped' = [wiped EXCEPT ![w] = {m \in Messages : shown[w][m] > 0} \ history[w]]
    /\ shown' = [shown EXCEPT ![w] =
                    [m \in Messages |-> IF m \in history[w] THEN 1 ELSE 0]]
    /\ UNCHANGED << home, registered, history, pushes, relays, failures >>

\* The tab is closed or the network lost.
Disconnect(w) ==
    /\ Open(w)
    /\ conn' = [conn EXCEPT ![w] = "dead"]
    /\ UNCHANGED << home, registered, pushes, relays, views, failures >>

\* WebSocketDisconnect, if it is that exception that ends the loop.
Unregister(w) ==
    /\ conn[w] = "dead"
    /\ w \in registered
    /\ registered' = registered \ {w}
    /\ UNCHANGED << conn, home, pushes, relays, views, failures >>

\* The process ends and is started anew: its connections, its registry, its
\* subscriber and the pushes it was about to make are gone.
InstanceRestarts(s) ==
    /\ Failure
    /\ conn' = [w \in Sockets |-> IF home[w] = s THEN "dead" ELSE conn[w]]
    /\ registered' = registered \ Registered(s)
    /\ stage' = [m \in Messages |-> IF origin[m] = s THEN "done" ELSE stage[m]]
    /\ todo' = [m \in Messages |-> IF origin[m] = s THEN {} ELSE todo[m]]
    /\ inbox' = [inbox EXCEPT ![s] = {}]
    /\ relay' = [relay EXCEPT ![s] = {}]
    /\ up' = up \cup {s}
    /\ UNCHANGED << committed, origin, home, views >>

PushNext(m) == BeginSend(m) \/ Publish(m) \/ \E w \in Sockets : Send(m, w)

RelayNext(s) == \E m \in Messages : Receive(s, m) \/ \E w \in Sockets : Relay(s, m, w)

WidgetNext(w) == \/ \E s \in Instances : Connect(w, s)
                 \/ ReadHistory(w) \/ SendHistory(w) \/ Disconnect(w) \/ Unregister(w)

Next ==
    \/ \E m \in Messages, s \in Instances : Commit(m, s)
    \/ \E m \in Messages : PushNext(m) \/ PublishFails(m)
    \/ \E s \in Instances : RelayNext(s) \/ SubscriberEnds(s) \/ InstanceRestarts(s)
    \/ \E w \in Sockets : WidgetNext(w)

Spec == Init /\ [][Next]_vars

\* The event loop resumes handlers and subscribers whose await has completed.
FairSpec == /\ Spec
            /\ \A m \in Messages : WF_vars(PushNext(m))
            /\ \A s \in Instances : WF_vars(RelayNext(s))
-----------------------------------------------------------------------------
\* However local loops, Redis, the history and reconnections interleave, a
\* push reaches a socket at most once; a bubble more there is only for a row
\* that was in the history, too.
PushedAtMostOnce ==
    \A w \in Sockets, m \in Messages :
        shown[w][m] <= IF conn[w] \in {"live", "dead"} /\ m \in history[w] THEN 2 ELSE 1

\* m has still to be sent to w.
OnItsWay(m, w) ==
    IF home[w] = origin[m]
      THEN stage[m] = "committed" \/ w \in todo[m]
      ELSE \/ stage[m] \in {"committed", "sending"}
           \/ m \in inbox[home[w]]
           \/ << m, w >> \in relay[home[w]]

\* A widget with its history shows every row, or will: a row that was committed
\* before its SELECT is in the history, a later one finds the socket
\* registered.  Only the history itself may wipe a row that came in between
\* the two, and only failures keep a row from another instance.
NothingMissed ==
    \A w \in Sockets, m \in committed :
        \/ conn[w] # "live"
        \/ shown[w][m] > 0
        \/ m \in wiped[w]
        \/ OnItsWay(m, w)
        \/ failures > 0 /\ home[w] # origin[m]

\* What is on its way to a widget that stays connected is shown in the end (FR-006),
\* whatever becomes of the other sockets, and also after failures: unless something
\* fails from now on, the subscriber it would come through has ended, or the history
\* wipes it.
EventuallyShown ==
    \A w \in Sockets, m \in Messages : \A f \in 0..MaxFailures :
        (/\ conn[w] = "live" /\ OnItsWay(m, w) /\ failures = f
         /\ home[w] \in up \cup {origin[m]})
            ~> (shown[w][m] > 0 \/ m \in wiped[w] \/ conn[w] # "live" \/ failures > f)
=============================================================================
