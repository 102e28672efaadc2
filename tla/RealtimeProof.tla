--------------------------- MODULE RealtimeProof ---------------------------
(***************************************************************************)
(* Theorems about Realtime, for any numbers of rows, sockets, instances    *)
(* and failures.                                                           *)
(***************************************************************************)
EXTENDS Realtime, TLAPS

LEMMA TypeInit == Init => TypeOK
BY NoInstanceAssumption DEF Init, TypeOK, Stage, Connection

\* What a send does to the bubbles and to the registry.
LEMMA SendType ==
    ASSUME TypeOK, NEW w \in Sockets, NEW m \in Messages, SendTo(w, m)
    PROVE  /\ shown' \in [Sockets -> [Messages -> Nat]]
           /\ registered' \subseteq Sockets
<1>1. CASE Open(w)
  <2>1. [shown[w] EXCEPT ![m] = @ + 1] \in [Messages -> Nat]
    BY DEF TypeOK
  <2>2. shown' = [shown EXCEPT ![w] = [shown[w] EXCEPT ![m] = @ + 1]]
    BY <1>1 DEF SendTo, TypeOK
  <2> QED
    BY <1>1, <2>1, <2>2 DEF SendTo, TypeOK
<1>2. CASE ~Open(w)
  BY <1>2 DEF SendTo, TypeOK
<1> QED
  BY <1>1, <1>2

LEMMA SendShows ==
    ASSUME TypeOK, NEW w \in Sockets, NEW m \in Messages, SendTo(w, m), Open(w)
    PROVE  /\ shown'[w][m] = shown[w][m] + 1
           /\ \A v \in Sockets, n \in Messages :
                 v # w \/ n # m => shown'[v][n] = shown[v][n]
           /\ UNCHANGED registered
BY DEF SendTo, TypeOK

LEMMA TypeStep == TypeOK /\ [Next]_vars => TypeOK'
<1> SUFFICES ASSUME TypeOK, [Next]_vars PROVE TypeOK'
  OBVIOUS
<1> USE DEF TypeOK, pushes, relays, sockets, views
<1>1. CASE \E m \in Messages, s \in Instances : Commit(m, s)
  BY <1>1 DEF Commit, Stage
<1>2. CASE \E m \in Messages : BeginSend(m)
  BY <1>2 DEF BeginSend, Registered, Stage
<1>3. CASE \E m \in Messages : Publish(m)
  BY <1>3 DEF Publish, Stage
<1>4. CASE \E m \in Messages, w \in Sockets : Send(m, w)
  BY <1>4, SendType DEF Send
<1>5. CASE \E m \in Messages : PublishFails(m)
  BY <1>5, BoundAssumption DEF PublishFails, Failure, Stage
<1>6. CASE \E s \in Instances, m \in Messages : Receive(s, m)
  <2> PICK s \in Instances, m \in Messages : Receive(s, m)
    BY <1>6
  <2>1. {m} \X Registered(s) \subseteq Messages \X Sockets
    BY DEF Registered
  <2> QED
    BY <2>1 DEF Receive
<1>7. CASE \E s \in Instances, m \in Messages, w \in Sockets : Relay(s, m, w)
  BY <1>7, SendType DEF Relay
<1>8. CASE \E s \in Instances : SubscriberEnds(s)
  BY <1>8, BoundAssumption DEF SubscriberEnds, Failure
<1>9. CASE \E s \in Instances : InstanceRestarts(s)
  BY <1>9, BoundAssumption DEF InstanceRestarts, Failure, Registered, Stage, Connection
<1>10. CASE \E w \in Sockets, s \in Instances : Connect(w, s)
  BY <1>10 DEF Connect, Connection
<1>11. CASE \E w \in Sockets : ReadHistory(w)
  BY <1>11 DEF ReadHistory, Connection
<1>12. CASE \E w \in Sockets : SendHistory(w)
  BY <1>12 DEF SendHistory, Connection
<1>13. CASE \E w \in Sockets : Disconnect(w)
  BY <1>13 DEF Disconnect, Connection
<1>14. CASE \E w \in Sockets : Unregister(w)
  BY <1>14 DEF Unregister
<1>15. CASE UNCHANGED vars
  BY <1>15 DEF vars
<1> QED
  BY <1>1, <1>2, <1>3, <1>4, <1>5, <1>6, <1>7, <1>8, <1>9, <1>10, <1>11, <1>12,
     <1>13, <1>14, <1>15 DEF Next, PushNext, RelayNext, WidgetNext

\* Every variable of the fan-out keeps its type in every interleaving.
THEOREM TypeCorrect == Spec => []TypeOK
BY TypeInit, TypeStep, PTL DEF Spec
-----------------------------------------------------------------------------
\* Where a row may be, by the stage of its push and the instance of a socket.
Routed ==
    /\ \A m \in Messages :
          /\ stage[m] = "none" <=> m \notin committed
          /\ stage[m] = "none" <=> origin[m] = NoInstance
          /\ stage[m] # "sending" => todo[m] = {}
    /\ \A w \in Sockets :
          /\ conn[w] = "new" <=> home[w] = NoInstance
          /\ w \in registered => conn[w] # "new"
    /\ \A m \in Messages, w \in Sockets : w \in todo[m] => home[w] = origin[m]
    /\ \A m \in Messages, s \in Instances : m \in inbox[s] => stage[m] = "done"
    /\ \A m \in Messages, s \in Instances, w \in Sockets :
          << m, w >> \in relay[s] =>
              /\ home[w] = s
              /\ origin[m] # s
              /\ stage[m] = "done"
              /\ m \notin inbox[s]

RoutingInv == TypeOK /\ Routed

LEMMA RoutingInit == Init => RoutingInv
BY TypeInit DEF Init, RoutingInv, Routed

LEMMA RoutingStep == RoutingInv /\ [Next]_vars => RoutingInv'
<1> SUFFICES ASSUME RoutingInv, [Next]_vars PROVE RoutingInv'
  OBVIOUS
<1>0. TypeOK /\ TypeOK'
  BY TypeStep DEF RoutingInv
<1> SUFFICES Routed'
  BY <1>0 DEF RoutingInv
<1> USE <1>0 DEF RoutingInv, Routed, TypeOK, pushes, relays, sockets, views
<1>1. CASE \E m \in Messages, s \in Instances : Commit(m, s)
  BY <1>1, NoInstanceAssumption DEF Commit, Stage
<1>2. CASE \E m \in Messages : BeginSend(m)
  BY <1>2 DEF BeginSend, Registered, Stage
<1>3. CASE \E m \in Messages : Publish(m)
  BY <1>3 DEF Publish, Stage
<1>4. CASE \E m \in Messages, w \in Sockets : Send(m, w)
  BY <1>4 DEF Send, SendTo
<1>5. CASE \E m \in Messages : PublishFails(m)
  BY <1>5 DEF PublishFails, Stage
<1>6. CASE \E s \in Instances, m \in Messages : Receive(s, m)
  BY <1>6 DEF Receive, Registered
<1>7. CASE \E s \in Instances, m \in Messages, w \in Sockets : Relay(s, m, w)
  BY <1>7 DEF Relay, SendTo
<1>8. CASE \E s \in Instances : SubscriberEnds(s)
  BY <1>8 DEF SubscriberEnds
<1>9. CASE \E s \in Instances : InstanceRestarts(s)
  BY <1>9, NoInstanceAssumption DEF InstanceRestarts, Registered, Stage
<1>10. CASE \E w \in Sockets, s \in Instances : Connect(w, s)
  BY <1>10, NoInstanceAssumption DEF Connect, Connection
<1>11. CASE \E w \in Sockets : ReadHistory(w)
  BY <1>11 DEF ReadHistory, Connection
<1>12. CASE \E w \in Sockets : SendHistory(w)
  BY <1>12 DEF SendHistory, Connection
<1>13. CASE \E w \in Sockets : Disconnect(w)
  BY <1>13 DEF Disconnect, Open
<1>14. CASE \E w \in Sockets : Unregister(w)
  BY <1>14 DEF Unregister
<1>15. CASE UNCHANGED vars
  BY <1>15 DEF vars
<1> QED
  BY <1>1, <1>2, <1>3, <1>4, <1>5, <1>6, <1>7, <1>8, <1>9, <1>10, <1>11, <1>12,
     <1>13, <1>14, <1>15 DEF Next, PushNext, RelayNext, WidgetNext
-----------------------------------------------------------------------------
\* A bubble that the history may bring besides the push.
Bonus(w, m) == IF conn[w] \in {"live", "dead"} /\ m \in history[w] THEN 1 ELSE 0

\* What has still to be sent was not pushed to this socket before.
Pushed(w, m) ==
    /\ conn[w] = "new" => shown[w][m] = 0
    /\ shown[w][m] <= Bonus(w, m) + 1
    /\ stage[m] = "none" \/ (conn[w] # "new" /\ OnItsWay(m, w))
          => shown[w][m] <= Bonus(w, m)

PushedInv == RoutingInv /\ \A w \in Sockets, m \in Messages : Pushed(w, m)

LEMMA PushedInit == Init => PushedInv
BY RoutingInit DEF Init, PushedInv, Pushed, Bonus

LEMMA PushedStep == PushedInv /\ [Next]_vars => PushedInv'
<1> SUFFICES ASSUME PushedInv, [Next]_vars PROVE PushedInv'
  OBVIOUS
<1>0. RoutingInv /\ RoutingInv'
  BY RoutingStep DEF PushedInv
<1> USE <1>0 DEF PushedInv, Pushed, RoutingInv, Routed, TypeOK, Bonus, OnItsWay, pushes,
                 relays, sockets, views
<1>1. CASE \E m \in Messages, s \in Instances : Commit(m, s)
  BY <1>1 DEF Commit
<1>2. CASE \E m \in Messages : BeginSend(m)
  BY <1>2 DEF BeginSend, Registered
<1>3. CASE \E m \in Messages : Publish(m)
  BY <1>3 DEF Publish
<1>4. CASE \E m \in Messages, w \in Sockets : Send(m, w)
  BY <1>4 DEF Send, SendTo
<1>5. CASE \E m \in Messages : PublishFails(m)
  BY <1>5 DEF PublishFails
<1>6. CASE \E s \in Instances, m \in Messages : Receive(s, m)
  BY <1>6 DEF Receive, Registered
<1>7. CASE \E s \in Instances, m \in Messages, w \in Sockets : Relay(s, m, w)
  <2> PICK s \in Instances, m \in Messages, w \in Sockets : Relay(s, m, w)
    BY <1>7
  <2>1. << m, w >> \in relay[s] /\ relay'[s] = relay[s] \ {<< m, w >>}
    BY DEF Relay
  <2>2. ~OnItsWay(m, w)'
    BY <2>1 DEF Relay
  <2>3. CASE Open(w)
    <3> SUFFICES ASSUME NEW v \in Sockets, NEW n \in Messages PROVE Pushed(v, n)'
      BY DEF Relay
    <3>1. Bonus(v, n)' = Bonus(v, n) /\ stage' = stage /\ conn' = conn
      BY DEF Relay
    <3>2. CASE v = w /\ n = m
      <4>1. shown'[v][n] = shown[v][n] + 1
        BY <2>3, <3>2, SendShows DEF Relay
      <4>2. shown[v][n] <= Bonus(v, n)
        BY <2>1, <3>2
      <4>3. stage'[n] # "none" /\ conn'[v] # "new"
        BY <2>1, <3>1, <3>2, NoInstanceAssumption
      <4> QED
        BY <2>2, <3>1, <3>2, <4>1, <4>2, <4>3
    <3>3. CASE v # w \/ n # m
      <4>1. shown'[v][n] = shown[v][n]
        BY <2>3, <3>3, SendShows DEF Relay
      <4>2. OnItsWay(n, v)' /\ conn[v] # "new" => OnItsWay(n, v)
        BY <2>1 DEF Relay
      <4> QED
        BY <3>1, <4>1, <4>2
    <3> QED
      BY <3>2, <3>3
  <2>4. CASE ~Open(w)
    BY <2>1, <2>2, <2>4 DEF Relay, SendTo
  <2> QED
    BY <2>3, <2>4
<1>8. CASE \E s \in Instances : SubscriberEnds(s)
  BY <1>8 DEF SubscriberEnds
<1>9. CASE \E s \in Instances : InstanceRestarts(s)
  BY <1>9 DEF InstanceRestarts, Registered
<1>10. CASE \E w \in Sockets, s \in Instances : Connect(w, s)
  BY <1>10 DEF Connect
<1>11. CASE \E w \in Sockets : ReadHistory(w)
  BY <1>11 DEF ReadHistory
<1>12. CASE \E w \in Sockets : SendHistory(w)
  BY <1>12 DEF SendHistory
<1>13. CASE \E w \in Sockets : Disconnect(w)
  BY <1>13 DEF Disconnect, Open
<1>14. CASE \E w \in Sockets : Unregister(w)
  BY <1>14 DEF Unregister
<1>15. CASE UNCHANGED vars
  BY <1>15 DEF vars
<1> QED
  BY <1>1, <1>2, <1>3, <1>4, <1>5, <1>6, <1>7, <1>8, <1>9, <1>10, <1>11, <1>12,
     <1>13, <1>14, <1>15 DEF Next, PushNext, RelayNext, WidgetNext

\* A push reaches a socket at most once, through the own instance's loop or
\* through another's subscriber, however often tasks fail and instances restart.
THEOREM PushedOnce == Spec => []PushedAtMostOnce
<1>1. PushedInv => PushedAtMostOnce
  BY DEF PushedInv, Pushed, RoutingInv, TypeOK, Bonus, PushedAtMostOnce
<1> QED
  BY <1>1, PushedInit, PushedStep, PTL DEF Spec
-----------------------------------------------------------------------------
\* What NothingMissed says of a widget with its history, and what holds while
\* the history is on its way: it has the row, or the row will come after it.
MissedInv ==
    /\ RoutingInv
    /\ failures = 0 => up = Instances
    /\ \A w \in Sockets : Open(w) => w \in registered
    /\ NothingMissed
    /\ \A w \in Sockets, m \in committed :
          conn[w] = "reading" =>
              \/ m \in history[w]
              \/ shown[w][m] > 0
              \/ OnItsWay(m, w)
              \/ failures > 0 /\ home[w] # origin[m]

LEMMA MissedInit == Init => MissedInv
BY RoutingInit DEF Init, MissedInv, NothingMissed, Open

LEMMA MissedStep == MissedInv /\ [Next]_vars => MissedInv'
<1> SUFFICES ASSUME MissedInv, [Next]_vars PROVE MissedInv'
  OBVIOUS
<1>0. RoutingInv /\ RoutingInv'
  BY RoutingStep DEF MissedInv
<1> USE <1>0 DEF MissedInv, NothingMissed, RoutingInv, Routed, TypeOK, OnItsWay, Open, pushes,
                 relays, sockets, views
<1>1. CASE \E m \in Messages, s \in Instances : Commit(m, s)
  BY <1>1 DEF Commit
<1>2. CASE \E m \in Messages : BeginSend(m)
  BY <1>2 DEF BeginSend, Registered
<1>3. CASE \E m \in Messages : Publish(m)
  BY <1>3 DEF Publish
<1>4. CASE \E m \in Messages, w \in Sockets : Send(m, w)
  BY <1>4 DEF Send, SendTo
<1>5. CASE \E m \in Messages : PublishFails(m)
  BY <1>5 DEF PublishFails, Failure
<1>6. CASE \E s \in Instances, m \in Messages : Receive(s, m)
  BY <1>6 DEF Receive, Registered
<1>7. CASE \E s \in Instances, m \in Messages, w \in Sockets : Relay(s, m, w)
  <2> PICK s \in Instances, m \in Messages, w \in Sockets : Relay(s, m, w)
    BY <1>7
  <2>1. << m, w >> \in relay[s] /\ relay'[s] = relay[s] \ {<< m, w >>}
    BY DEF Relay
  <2>2. CASE Open(w)
    <3>1. shown'[w][m] > 0 /\ registered' = registered
      BY <2>2, SendShows DEF Relay
    <3>2. \A v \in Sockets, n \in Messages : shown[v][n] > 0 => shown'[v][n] > 0
      BY <2>2, SendShows DEF Relay
    <3>3. \A v \in Sockets, n \in Messages :
              conn[v] # "new" /\ OnItsWay(n, v) => OnItsWay(n, v)' \/ (v = w /\ n = m)
      BY <2>1 DEF Relay
    <3>4. UNCHANGED << conn, home, origin, committed, history, wiped, failures, up >>
      BY DEF Relay
    <3> HIDE DEF OnItsWay
    <3> QED
      BY <3>1, <3>2, <3>3, <3>4
  <2>3. CASE ~Open(w)
    BY <2>1, <2>3 DEF Relay, SendTo
  <2> QED
    BY <2>2, <2>3
<1>8. CASE \E s \in Instances : SubscriberEnds(s)
  BY <1>8 DEF SubscriberEnds, Failure
<1>9. CASE \E s \in Instances : InstanceRestarts(s)
  BY <1>9 DEF InstanceRestarts, Failure, Registered
<1>10. CASE \E w \in Sockets, s \in Instances : Connect(w, s)
  BY <1>10 DEF Connect
<1>11. CASE \E w \in Sockets : ReadHistory(w)
  BY <1>11 DEF ReadHistory
<1>12. CASE \E w \in Sockets : SendHistory(w)
  BY <1>12 DEF SendHistory
<1>13. CASE \E w \in Sockets : Disconnect(w)
  BY <1>13 DEF Disconnect
<1>14. CASE \E w \in Sockets : Unregister(w)
  BY <1>14 DEF Unregister
<1>15. CASE UNCHANGED vars
  BY <1>15 DEF vars
<1> QED
  BY <1>1, <1>2, <1>3, <1>4, <1>5, <1>6, <1>7, <1>8, <1>9, <1>10, <1>11, <1>12,
     <1>13, <1>14, <1>15 DEF Next, PushNext, RelayNext, WidgetNext

\* A widget that was sent its history shows every committed row, or will;
\* only that history, or a failure between two instances, can keep one away.
THEOREM NoRowMissed == Spec => []NothingMissed
<1>1. MissedInv => NothingMissed
  BY DEF MissedInv
<1> QED
  BY <1>1, MissedInit, MissedStep, PTL DEF Spec
=============================================================================
