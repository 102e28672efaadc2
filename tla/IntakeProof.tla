----------------------------- MODULE IntakeProof -----------------------------
(***************************************************************************)
(* Theorems about Intake, for any contacts, handlers, tabs, texts and      *)
(* conversations.                                                          *)
(***************************************************************************)
EXTENDS Intake, FiniteSetTheorems, TLAPS

USE DEF rows, handlers, writers, links, pages, vars

(***************************************************************************)
(* The invariant                                                           *)
(***************************************************************************)

\* The contact of a conversation is committed with it, and before it was none.
RowsFit ==
    /\ \A k \in Convs : state[k] = "none" => contact[k] = NoKey
    /\ \A k \in Convs : contact[k] \in Keys => contact[k] \in known

\* What has ended was there, what is closed has ended, and whoever holds a status
\* has read it from a row.
WritersFit ==
    /\ \A k \in ended : state[k] # "none"
    /\ \A k \in Convs : state[k] = "closed" => k \in ended
    /\ \A w \in Writers : holds[w] # NoConv => state[holds[w]] # "none"

\* Whoever sees a contact sees a conversation of it.
KnownHasConv ==
    \A x \in known : \E k \in Convs : contact[k] = x /\ state[k] \in {"open", "closed"}

\* What handler h relies on: an uncommitted contact is its own, a contact found
\* without an open conversation has had one.
Relies(h) ==
    /\ pc[h] # "idle" => key[h] \in Keys
    /\ pc[h] = "inserted" =>
         /\ key[h] \notin known
         /\ \A g \in Handlers : pc[g] = "inserted" /\ key[g] = key[h] => g = h
    /\ pc[h] = "found" =>
         /\ key[h] \in known
         /\ target[h] = NoConv => Past(key[h]) # {}
         /\ target[h] # NoConv => contact[target[h]] = key[h]

KeyInv ==
    /\ RowsFit
    /\ WritersFit
    /\ KnownHasConv
    /\ \A h \in Handlers : Relies(h)
    /\ FirstContactIsSafe
    /\ NoDirtyConversation

\* What the connection of tab t relies on.
Follows(t) ==
    /\ link[t] \in {"served", "live"} => conv[t] \in Convs
    /\ link[t] = "served" => history[t] \subseteq said[conv[t]]
    /\ link[t] # "served" => history[t] = {}
    /\ link[t] = "live" => bubbles[t] \subseteq said[conv[t]] \cup sent[t]

Inv == TypeOK /\ KeyInv /\ \A t \in Tabs : Follows(t)

LEMMA InitInv == Init => Inv
<1>. SUFFICES ASSUME Init PROVE Inv
     OBVIOUS
<1>1. TypeOK  BY DEF Init, TypeOK, Place, Link
<1>2. KeyInv
      BY KeyAssumption DEF Init, KeyInv, RowsFit, WritersFit, KnownHasConv, Relies,
                           FirstContactIsSafe, NoDirtyConversation, Open, Keys
<1>3. \A t \in Tabs : Follows(t)  BY DEF Init, Follows
<1>. QED  BY <1>1, <1>2, <1>3 DEF Inv

(***************************************************************************)
(* The handlers                                                            *)
(***************************************************************************)

LEMMA TypeHandler ==
    ASSUME TypeOK, KeyInv, NEW h \in Handlers, HandlerNext(h)
    PROVE  TypeOK'
<1>1. ASSUME NEW x \in Keys, LookUp(h, x) PROVE TypeOK'
  <2>1. PICK k \in IF Open(x) = {} THEN {NoConv} ELSE Open(x) :
            target' = [target EXCEPT ![h] = k]
        BY <1>1 DEF LookUp
  <2>2. k \in Convs \cup {NoConv}  BY <2>1 DEF Open
  <2>3. target' \in [Handlers -> Convs \cup {NoConv}]  BY <2>1, <2>2 DEF TypeOK
  <2>. QED  BY <1>1, <2>3 DEF LookUp, TypeOK, Place
<1>2. ASSUME InsertContact(h) PROVE TypeOK'
      BY <1>2 DEF InsertContact, TypeOK, Place
<1>3. ASSUME DuplicateContact(h) \/ Abort(h) PROVE TypeOK'
      BY <1>3 DEF DuplicateContact, Abort, End, TypeOK, Place
<1>4. ASSUME CommitToFound(h) PROVE TypeOK'
  <2>1. delivered' \in [Convs -> Nat]
        BY <1>4 DEF CommitToFound, TextOf, TypeOK
  <2>. QED  BY <1>4, <2>1 DEF CommitToFound, End, TypeOK, Place
<1>5. ASSUME CommitToNew(h) PROVE TypeOK'
  <2>1. PICK k \in Fresh : /\ state' = [state EXCEPT ![k] = "open"]
                           /\ contact' = [contact EXCEPT ![k] = key[h]]
                           /\ delivered' = [delivered EXCEPT ![k] = TextOf(h)]
        BY <1>5 DEF CommitToNew
  <2>2. key[h] \in Keys
        BY <1>5 DEF CommitToNew, NeedsConversation, KeyInv, Relies
  <2>3. /\ state' \in [Convs -> {"none", "open", "closed"}]
        /\ contact' \in [Convs -> Keys \cup {NoKey}]
        /\ delivered' \in [Convs -> Nat]
        BY <2>1, <2>2 DEF TypeOK, TextOf
  <2>. QED  BY <1>5, <2>2, <2>3 DEF CommitToNew, End, TypeOK, Place
<1>. QED  BY <1>1, <1>2, <1>3, <1>4, <1>5 DEF HandlerNext

\* A handler that touches no row but perhaps a count disturbs nobody else.
LEMMA OthersRely ==
    ASSUME TypeOK, KeyInv, NEW h \in Handlers,
           UNCHANGED << known, state, ended, contact, writers >>,
           \A k \in Convs : delivered'[k] >= delivered[k] /\ delivered'[k] \in Nat,
           \A g \in Handlers \ {h} : pc'[g] = pc[g] /\ key'[g] = key[g] /\ target'[g] = target[g],
           pc'[h] # "inserted", Relies(h)'
    PROVE  KeyInv'
<1>1. RowsFit' /\ WritersFit' /\ KnownHasConv'
      BY DEF KeyInv, RowsFit, WritersFit, KnownHasConv
<1>2. ASSUME NEW g \in Handlers \ {h} PROVE Relies(g)'
      BY <1>2 DEF KeyInv, Relies, Past
<1>3. FirstContactIsSafe'  BY DEF KeyInv, FirstContactIsSafe, Open, Past
<1>4. NoDirtyConversation'  BY DEF KeyInv, NoDirtyConversation, TypeOK
<1>. QED  BY <1>1, <1>2, <1>3, <1>4 DEF KeyInv

LEMMA KeyLookUp ==
    ASSUME TypeOK, KeyInv, NEW h \in Handlers, NEW x \in Keys, LookUp(h, x)
    PROVE  KeyInv'
<1>1. PICK k \in IF Open(x) = {} THEN {NoConv} ELSE Open(x) :
          target' = [target EXCEPT ![h] = k]
      BY DEF LookUp
<1>2. /\ pc'[h] = IF x \in known THEN "found" ELSE "unknown"
      /\ key'[h] = x /\ target'[h] = k
      /\ \A g \in Handlers \ {h} : pc'[g] = pc[g] /\ key'[g] = key[g] /\ target'[g] = target[g]
      BY <1>1 DEF LookUp, TypeOK
<1>3. UNCHANGED << known, state, ended, contact, delivered, writers >>  BY DEF LookUp
<1>4. CASE x \in known
  <2>1. Open(x) = {} => Past(x) # {}
    <3>1. PICK j \in Convs : contact[j] = x /\ state[j] \in {"open", "closed"}
          BY <1>4 DEF KeyInv, KnownHasConv
    <3>. QED  BY <3>1 DEF KeyInv, WritersFit, Open, Past
  <2>2. k = NoConv => Open(x) = {}  BY <1>1, NoConvAssumption DEF Open
  <2>3. k # NoConv => contact[k] = x  BY <1>1 DEF Open
  <2>4. Relies(h)'  BY <1>2, <1>3, <1>4, <2>1, <2>2, <2>3 DEF Relies, Past
  <2>. QED  BY <1>2, <1>3, <1>4, <2>4, OthersRely DEF TypeOK
<1>5. CASE x \notin known
  <2>1. Relies(h)'  BY <1>2, <1>5 DEF Relies
  <2>. QED  BY <1>2, <1>3, <1>5, <2>1, OthersRely DEF TypeOK
<1>. QED  BY <1>4, <1>5

LEMMA KeyInsert ==
    ASSUME TypeOK, KeyInv, NEW h \in Handlers, InsertContact(h)
    PROVE  KeyInv'
<1>1. /\ pc[h] = "unknown" /\ key[h] \notin known
      /\ \A g \in Handlers : pc[g] = "inserted" => key[g] # key[h]
      /\ pc'[h] = "inserted" /\ \A g \in Handlers \ {h} : pc'[g] = pc[g]
      /\ UNCHANGED << key, target, known, state, ended, contact, delivered, writers >>
      BY DEF InsertContact, TypeOK
<1>2. \A g \in Handlers : Relies(g)'
      BY <1>1 DEF KeyInv, Relies, Past
<1>. QED  BY <1>1, <1>2
          DEF KeyInv, RowsFit, WritersFit, KnownHasConv, FirstContactIsSafe,
              NoDirtyConversation, Open, Past

\* A handler that is through relies on nothing.
LEMMA EndRelies ==
    ASSUME TypeOK, NEW h \in Handlers, End(h)
    PROVE  /\ pc'[h] = "idle" /\ Relies(h)'
           /\ \A g \in Handlers \ {h} : pc'[g] = pc[g] /\ key'[g] = key[g] /\ target'[g] = target[g]
BY DEF End, TypeOK, Relies

LEMMA KeyFound ==
    ASSUME TypeOK, KeyInv, NEW h \in Handlers, CommitToFound(h)
    PROVE  KeyInv'
<1>1. \A k \in Convs : delivered'[k] >= delivered[k] /\ delivered'[k] \in Nat
      BY DEF CommitToFound, TypeOK, TextOf
<1>. QED  BY <1>1, EndRelies, OthersRely DEF CommitToFound

LEMMA KeyNew ==
    ASSUME TypeOK, KeyInv, NEW h \in Handlers, CommitToNew(h), NEW x, x = key[h]
    PROVE  KeyInv'
<1>1. PICK k \in Fresh : /\ state' = [state EXCEPT ![k] = "open"]
                         /\ contact' = [contact EXCEPT ![k] = x]
                         /\ delivered' = [delivered EXCEPT ![k] = TextOf(h)]
      BY DEF CommitToNew
<1>2. x \in Keys /\ NeedsConversation(h)
      BY DEF CommitToNew, NeedsConversation, KeyInv, Relies
<1>3. k \in Convs /\ state[k] = "none" /\ contact[k] = NoKey /\ k \notin ended
      BY <1>1 DEF Fresh, KeyInv, RowsFit, WritersFit
<1>4. /\ state'[k] = "open" /\ contact'[k] = x /\ delivered'[k] = TextOf(h)
      /\ \A j \in Convs \ {k} : /\ state'[j] = state[j] /\ contact'[j] = contact[j]
                                /\ delivered'[j] = delivered[j]
      BY <1>1, <1>3 DEF TypeOK
<1>5. known' = known \cup {x} /\ UNCHANGED << ended, writers >>  BY DEF CommitToNew
<1>6. \A y \in Keys : Past(y)' = Past(y)
      BY <1>3, <1>4, <1>5 DEF Past, TypeOK
<1>7. \A y \in Keys \ {x} : Open(y)' = Open(y)
      BY <1>3, <1>4, KeyAssumption DEF Open, Keys
<1>8. Open(x) = {} \/ Past(x) # {}
  <2>1. CASE pc[h] = "inserted"
        BY <1>2, <2>1 DEF KeyInv, Relies, RowsFit, Open
  <2>2. CASE pc[h] = "found" /\ target[h] = NoConv
        BY <2>2 DEF KeyInv, Relies
  <2>. QED  BY <1>2, <2>1, <2>2 DEF NeedsConversation
<1>9. RowsFit' /\ WritersFit'
  <2>1. RowsFit'  BY <1>2, <1>3, <1>4, <1>5 DEF KeyInv, RowsFit
  <2>2. WritersFit'
        BY <1>3, <1>4, <1>5 DEF KeyInv, WritersFit, TypeOK
  <2>. QED  BY <2>1, <2>2
<1>10. KnownHasConv'
  <2>. SUFFICES ASSUME NEW y \in known'
                PROVE  \E j \in Convs : contact'[j] = y /\ state'[j] \in {"open", "closed"}
       BY DEF KnownHasConv
  <2>1. CASE y = x  BY <1>3, <1>4, <2>1
  <2>2. CASE y \in known
    <3>1. PICK j \in Convs : contact[j] = y /\ state[j] \in {"open", "closed"}
          BY <2>2 DEF KeyInv, KnownHasConv
    <3>2. j # k  BY <1>3, <3>1
    <3>. QED  BY <1>4, <3>1, <3>2
  <2>. QED  BY <1>5, <2>1, <2>2
<1>11. ASSUME NEW g \in Handlers PROVE Relies(g)'
  <2>1. End(h)  BY DEF CommitToNew
  <2>2. CASE g = h  BY <2>1, <2>2, EndRelies
  <2>3. CASE g # h
    <3>1. /\ pc'[g] = pc[g] /\ key'[g] = key[g] /\ target'[g] = target[g]
          /\ pc'[h] = "idle"
          /\ \A f \in Handlers \ {h} : pc'[f] = pc[f] /\ key'[f] = key[f]
          BY <2>1, <2>3, EndRelies
    <3>2. pc[g] = "inserted" => key[g] # x
      <4>1. CASE pc[h] = "inserted"  BY <2>3, <4>1 DEF KeyInv, Relies
      <4>2. CASE pc[h] = "found"  BY <4>2 DEF KeyInv, Relies
      <4>. QED  BY <1>2, <4>1, <4>2 DEF NeedsConversation
    <3>3. pc[g] = "found" /\ target[g] # NoConv => contact'[target[g]] = key[g]
      <4>1. pc[g] = "found" /\ target[g] # NoConv => target[g] # k
            BY <1>3, KeyAssumption DEF KeyInv, Relies, Keys
      <4>. QED  BY <1>4, <4>1 DEF KeyInv, Relies, TypeOK
    <3>4. pc[g] = "found" /\ target[g] = NoConv => Past(key[g])' # {}
      <4>1. pc[g] = "found" => key[g] \in Keys  BY DEF KeyInv, Relies
      <4>2. pc[g] = "found" /\ target[g] = NoConv => Past(key[g]) # {}
            BY DEF KeyInv, Relies
      <4>3. Past(key[g])' = {j \in ended : contact'[j] = key[g]}
            BY <1>5, <3>1 DEF Past
      <4>4. Past(key[g]) = {j \in ended : contact'[j] = key[g]}
            BY <1>3, <1>4 DEF Past, TypeOK
      <4>. QED  BY <4>1, <4>2, <4>3, <4>4
    <3>. QED  BY <1>5, <3>1, <3>2, <3>3, <3>4 DEF KeyInv, Relies
  <2>. QED  BY <2>2, <2>3
<1>12. FirstContactIsSafe'
  <2>1. \A j \in Open(x)' : j = k \/ j \in Open(x)
        BY <1>4 DEF Open
  <2>2. ASSUME NEW i \in Open(x)', NEW j \in Open(x)', i # j PROVE Past(x) # {}
        BY <1>8, <2>1, <2>2
  <2>3. ASSUME NEW y \in Keys \ {x}, NEW i \in Open(y), NEW j \in Open(y), i # j
        PROVE  Past(y) # {}
        BY <2>3 DEF KeyInv, FirstContactIsSafe
  <2>. QED  BY <1>2, <1>6, <1>7, <2>2, <2>3 DEF FirstContactIsSafe
<1>13. NoDirtyConversation'
      BY <1>4 DEF KeyInv, NoDirtyConversation, TextOf
<1>. QED  BY <1>9, <1>10, <1>11, <1>12, <1>13 DEF KeyInv

LEMMA KeyHandler ==
    ASSUME TypeOK, KeyInv, NEW h \in Handlers, HandlerNext(h)
    PROVE  KeyInv'
<1>1. ASSUME DuplicateContact(h) \/ Abort(h) PROVE KeyInv'
      BY <1>1, EndRelies, OthersRely DEF DuplicateContact, Abort, TypeOK
<1>. QED  BY <1>1, KeyLookUp, KeyInsert, KeyFound, KeyNew DEF HandlerNext

LEMMA FollowsHandler ==
    ASSUME Inv, NEW h \in Handlers, HandlerNext(h), NEW t \in Tabs
    PROVE  Follows(t)'
<1>1. UNCHANGED << links, bubbles, said >>
      BY DEF HandlerNext, LookUp, InsertContact, DuplicateContact, CommitToFound,
             CommitToNew, Abort
<1>. QED  BY <1>1 DEF Inv, Follows

(***************************************************************************)
(* The tabs                                                                *)
(***************************************************************************)

\* What the tabs do disturbs no contact: a conversation they open has none.
LEMMA KeyTab ==
    ASSUME TypeOK, KeyInv, NEW t \in Tabs, TabNext(t)
    PROVE  KeyInv'
<1>1. UNCHANGED << known, ended, contact, delivered, handlers, writers >>
      BY DEF TabNext, Connect, Serve, Greet, Lose, Type, StoreText
<1>2. \A k \in Convs : contact[k] \in Keys => state'[k] = state[k]
  <2>1. CASE UNCHANGED state  BY <2>1
  <2>2. ASSUME NEW k \in Fresh, state' = [state EXCEPT ![k] = "open"]
        PROVE  \A j \in Convs : contact[j] \in Keys => state'[j] = state[j]
        BY <2>2, KeyAssumption DEF Fresh, KeyInv, RowsFit, Keys, TypeOK
  <2>. QED  BY <2>1, <2>2 DEF TabNext, Connect, Serve, Greet, Lose, Type, StoreText
<1>3. \A k \in Convs : /\ state'[k] = "none" => state[k] = "none"
                       /\ state'[k] = "closed" => state[k] = "closed"
  <2>1. CASE UNCHANGED state  BY <2>1
  <2>2. ASSUME NEW k \in Fresh, state' = [state EXCEPT ![k] = "open"]
        PROVE  \A j \in Convs : /\ state'[j] = "none" => state[j] = "none"
                                /\ state'[j] = "closed" => state[j] = "closed"
        BY <2>2 DEF TypeOK
  <2>. QED  BY <2>1, <2>2 DEF TabNext, Connect, Serve, Greet, Lose, Type, StoreText
<1>4. \A x \in Keys : Open(x)' = Open(x) /\ Past(x)' = Past(x)
      BY <1>1, <1>2 DEF Open, Past
<1>5. RowsFit' /\ WritersFit'
  <2>1. RowsFit'  BY <1>1, <1>3 DEF KeyInv, RowsFit
  <2>2. \A k \in ended' : state'[k] # "none"
        BY <1>1, <1>3 DEF KeyInv, WritersFit, TypeOK
  <2>3. \A k \in Convs : state'[k] = "closed" => k \in ended'
        BY <1>1, <1>3 DEF KeyInv, WritersFit
  <2>4. \A w \in Writers : holds'[w] # NoConv => state'[holds'[w]] # "none"
        BY <1>1, <1>3 DEF KeyInv, WritersFit, TypeOK
  <2>. QED  BY <2>1, <2>2, <2>3, <2>4 DEF WritersFit
<1>6. KnownHasConv'  BY <1>1, <1>2 DEF KeyInv, KnownHasConv, TypeOK
<1>7. ASSUME NEW h \in Handlers PROVE Relies(h)'
  <2>1. pc[h] = "found" => Past(key[h])' = Past(key[h])
        BY <1>1, <1>2 DEF KeyInv, Relies, Past
  <2>. QED  BY <1>1, <2>1 DEF KeyInv, Relies
<1>8. FirstContactIsSafe'  BY <1>4 DEF KeyInv, FirstContactIsSafe
<1>9. NoDirtyConversation'  BY <1>1 DEF KeyInv, NoDirtyConversation
<1>. QED  BY <1>5, <1>6, <1>7, <1>8, <1>9 DEF KeyInv

LEMMA TabKeeps ==
    ASSUME Inv, NEW t \in Tabs, TabNext(t)
    PROVE  TypeOK' /\ \A u \in Tabs : Follows(u)'
\* It is enough that the types fit, that t follows, and that texts only come.
<1>1. ASSUME TypeOK', Follows(t)',
             \A u \in Tabs \ {t} : /\ link'[u] = link[u] /\ conv'[u] = conv[u]
                                   /\ history'[u] = history[u] /\ sent'[u] = sent[u]
                                   /\ bubbles'[u] = bubbles[u],
             \A k \in Convs : said[k] \subseteq said'[k]
      PROVE  TypeOK' /\ \A u \in Tabs : Follows(u)'
      BY <1>1 DEF Inv, Follows
<1>2. CASE Connect(t)
  <2>1. TypeOK'  BY <1>2 DEF Connect, Inv, TypeOK, Link
  <2>2. Follows(t)'  BY <1>2 DEF Connect, Inv, TypeOK, Follows
  <2>. QED  BY <1>1, <1>2, <2>1, <2>2 DEF Connect, Inv, TypeOK
<1>3. CASE Serve(t)
  <2>1. CASE conv[t] # NoConv
    <3>1. /\ history' = [history EXCEPT ![t] = said[conv[t]]]
          /\ link' = [link EXCEPT ![t] = "served"]
          /\ UNCHANGED << state, conv, opened, known, ended, contact, delivered, said, handlers,
                          writers, sent, store, shows, bubbles >>
          BY <1>3, <2>1 DEF Serve
    <3>2. conv[t] \in Convs  BY <2>1 DEF Inv, TypeOK
    <3>3. TypeOK'  BY <3>1, <3>2 DEF Inv, TypeOK, Link
    <3>4. Follows(t)'  BY <3>1, <3>2 DEF Inv, TypeOK, Follows
    <3>. QED  BY <1>1, <3>1, <3>3, <3>4 DEF Inv, TypeOK
  <2>2. CASE conv[t] = NoConv
    <3>1. PICK k \in Fresh : /\ state' = [state EXCEPT ![k] = "open"]
                             /\ conv' = [conv EXCEPT ![t] = k]
          BY <1>3, <2>2 DEF Serve
    <3>2. /\ opened' = opened \cup {t}
          /\ link[t] = "accepted" /\ link' = [link EXCEPT ![t] = "served"]
          /\ UNCHANGED << history, known, ended, contact, delivered, said, handlers,
                          writers, sent, store, shows, bubbles >>
          BY <1>3, <2>2 DEF Serve
    <3>3. TypeOK'  BY <3>1, <3>2 DEF Inv, TypeOK, Link, Fresh
    <3>4. Follows(t)'  BY <3>1, <3>2 DEF Inv, TypeOK, Follows, Fresh
    <3>. QED  BY <1>1, <3>1, <3>2, <3>3, <3>4 DEF Inv, TypeOK
  <2>. QED  BY <2>1, <2>2
<1>4. CASE Greet(t)
  <2>1. TypeOK'  BY <1>4 DEF Greet, Inv, TypeOK, Link
  <2>2. Follows(t)'  BY <1>4 DEF Greet, Inv, TypeOK, Follows
  <2>. QED  BY <1>1, <1>4, <2>1, <2>2 DEF Greet, Inv, TypeOK
<1>5. CASE Lose(t)
  <2>1. TypeOK'  BY <1>5 DEF Lose, Inv, TypeOK, Link
  <2>2. Follows(t)'  BY <1>5 DEF Lose, Inv, TypeOK, Follows
  <2>. QED  BY <1>1, <1>5, <2>1, <2>2 DEF Lose, Inv, TypeOK
<1>6. ASSUME NEW x \in Texts, Type(t, x)
      PROVE  TypeOK' /\ \A u \in Tabs : Follows(u)'
  <2>1. TypeOK'  BY <1>6 DEF Type, Inv, TypeOK
  <2>2. Follows(t)'  BY <1>6 DEF Type, Inv, TypeOK, Follows
  <2>. QED  BY <1>1, <1>6, <2>1, <2>2 DEF Type, Inv, TypeOK
<1>7. ASSUME NEW x \in Texts, StoreText(t, x)
      PROVE  TypeOK' /\ \A u \in Tabs : Follows(u)'
  <2>1. /\ link[t] \in {"served", "live"}
        /\ sent' = [sent EXCEPT ![t] = @ \ {x}]
        /\ said' = [said EXCEPT ![conv[t]] = @ \cup {x}]
        /\ UNCHANGED << known, state, ended, contact, delivered, handlers, writers, link, conv,
                        history, pages >>
        BY <1>7 DEF StoreText
  <2>2. conv[t] \in Convs  BY <2>1 DEF Inv, Follows
  <2>3. TypeOK'  BY <2>1, <2>2 DEF Inv, TypeOK
  <2>4. /\ sent'[t] = sent[t] \ {x} /\ said'[conv[t]] = said[conv[t]] \cup {x}
        /\ \A u \in Tabs \ {t} : sent'[u] = sent[u]
        /\ \A k \in Convs : said[k] \subseteq said'[k]
        BY <2>1, <2>2 DEF Inv, TypeOK
  <2>5. Follows(t)'  BY <2>1, <2>4 DEF Inv, Follows
  <2>. QED  BY <1>1, <2>1, <2>3, <2>4, <2>5
<1>. QED  BY <1>2, <1>3, <1>4, <1>5, <1>6, <1>7 DEF TabNext

(***************************************************************************)
(* The writers of a status                                                 *)
(***************************************************************************)

\* A step that takes no row away and whatever has ended along.
LEMMA WriterKeeps ==
    ASSUME Inv, TypeOK', WritersFit', ended \subseteq ended',
           UNCHANGED << known, contact, delivered, said, handlers, links, pages >>,
           \A k \in Convs : (state'[k] = "none") = (state[k] = "none"),
           \A k \in Convs : state'[k] = "open" => state[k] = "open" \/ k \in ended
    PROVE  Inv'
<1>1. RowsFit'  BY DEF Inv, KeyInv, RowsFit
<1>2. KnownHasConv'  BY DEF Inv, KeyInv, KnownHasConv, TypeOK
<1>3. \A x \in Keys : Past(x) \subseteq Past(x)'  BY DEF Past
<1>4. ASSUME NEW h \in Handlers PROVE Relies(h)'
  <2>1. Past(key[h]) \subseteq Past(key[h])'  BY DEF Past
  <2>. QED  BY <2>1 DEF Inv, KeyInv, Relies
<1>5. FirstContactIsSafe'
  <2>1. \A x \in Keys : \A k \in Open(x)' : k \in Open(x) \/ k \in Past(x)
        BY DEF Open, Past, Inv, TypeOK
  <2>. QED  BY <1>3, <2>1 DEF Inv, KeyInv, FirstContactIsSafe
<1>6. NoDirtyConversation'  BY DEF Inv, KeyInv, NoDirtyConversation
<1>7. ASSUME NEW t \in Tabs PROVE Follows(t)'  BY DEF Inv, Follows
<1>. QED  BY <1>1, <1>2, <1>4, <1>5, <1>6, <1>7 DEF Inv, KeyInv

LEMMA WriterStep ==
    ASSUME Inv, NEW w \in Writers, WriterNext(w)
    PROVE  Inv'
<1>1. ASSUME NEW k \in Convs, NEW s \in {"open", "closed"}, Decide(w, k, s) PROVE Inv'
  <2>1. /\ state[k] = "open" /\ holds' = [holds EXCEPT ![w] = k]
        /\ will' = [will EXCEPT ![w] = s]
        /\ UNCHANGED << rows, handlers, links, pages >>
        BY <1>1 DEF Decide
  <2>2. TypeOK'  BY <2>1 DEF Inv, TypeOK
  <2>3. WritersFit'  BY <2>1 DEF Inv, TypeOK, KeyInv, WritersFit
  <2>. QED  BY <2>1, <2>2, <2>3, WriterKeeps
<1>2. ASSUME GiveUp(w) PROVE Inv'
  <2>1. /\ holds' = [holds EXCEPT ![w] = NoConv] /\ will' = [will EXCEPT ![w] = "open"]
        /\ UNCHANGED << rows, handlers, links, pages >>
        BY <1>2 DEF GiveUp, Release
  <2>2. TypeOK'  BY <2>1 DEF Inv, TypeOK
  <2>3. WritersFit'  BY <2>1 DEF Inv, TypeOK, KeyInv, WritersFit
  <2>. QED  BY <2>1, <2>2, <2>3, WriterKeeps
<1>3. ASSUME SetStatus(w) PROVE Inv'
  <2>1. PICK k \in Convs : k = holds[w]
        BY <1>3 DEF SetStatus, Inv, TypeOK
  <2>2. /\ state' = [state EXCEPT ![k] = will[w]]
        /\ ended' = IF will[w] = "closed" THEN ended \cup {k} ELSE ended
        /\ holds' = [holds EXCEPT ![w] = NoConv] /\ will' = [will EXCEPT ![w] = "open"]
        /\ UNCHANGED << known, contact, delivered, said, handlers, links, pages >>
        BY <1>3, <2>1 DEF SetStatus, Release
  <2>3. will[w] \in {"open", "closed"} /\ state[k] # "none"
        BY <1>3, <2>1 DEF SetStatus, Inv, TypeOK, KeyInv, WritersFit
  <2>4. TypeOK'  BY <2>2, <2>3 DEF Inv, TypeOK
  <2>5. /\ state'[k] = will[w]
        /\ \A j \in Convs \ {k} : state'[j] = state[j]
        BY <2>2 DEF Inv, TypeOK
  <2>6. state[k] \in {"open", "closed"}  BY <2>3 DEF Inv, TypeOK
  <2>7. WritersFit'
    <3>1. \A j \in ended' : state'[j] # "none"
          BY <2>2, <2>3, <2>5 DEF Inv, KeyInv, WritersFit, TypeOK
    <3>2. \A j \in Convs : state'[j] = "closed" => j \in ended'
          BY <2>2, <2>3, <2>5 DEF Inv, KeyInv, WritersFit
    <3>3. \A v \in Writers : holds'[v] # NoConv => holds[v] = holds'[v]
          BY <2>2 DEF Inv, TypeOK
    <3>. QED  BY <2>3, <2>5, <3>1, <3>2, <3>3 DEF Inv, KeyInv, WritersFit, TypeOK
  <2>8. \A j \in Convs : state'[j] = "open" => state[j] = "open" \/ j \in ended
        BY <2>5, <2>6 DEF Inv, KeyInv, WritersFit
  <2>. QED  BY <2>2, <2>3, <2>4, <2>5, <2>7, <2>8, WriterKeeps
<1>. QED  BY <1>1, <1>2, <1>3 DEF WriterNext

LEMMA InvStep == Inv /\ [Next]_vars => Inv'
<1>. SUFFICES ASSUME Inv, [Next]_vars PROVE Inv'
     OBVIOUS
<1>1. ASSUME NEW h \in Handlers, HandlerNext(h) PROVE Inv'
      BY <1>1, TypeHandler, KeyHandler, FollowsHandler DEF Inv
<1>2. ASSUME NEW t \in Tabs, TabNext(t) PROVE Inv'
      BY <1>2, KeyTab, TabKeeps DEF Inv
<1>3. ASSUME NEW w \in Writers, WriterNext(w) PROVE Inv'
      BY <1>3, WriterStep
<1>4. CASE UNCHANGED vars
      BY <1>4 DEF Inv, TypeOK, KeyInv, RowsFit, WritersFit, KnownHasConv, Relies,
                  FirstContactIsSafe, NoDirtyConversation, Open, Past, Follows
<1>. QED  BY <1>1, <1>2, <1>3, <1>4 DEF Next

THEOREM Invariance == Spec => []Inv
<1>. QED  BY InitInv, InvStep, PTL DEF Spec

\* Every variable keeps its type, for handlers and tabs in any number.
THEOREM TypeCorrect == Spec => []TypeOK
<1>1. Inv => TypeOK  BY DEF Inv
<1>. QED  BY <1>1, Invariance, PTL

\* However many first messages of a contact race, and whatever stale writers open
\* again, it has two open conversations only after one of them has ended at some time
\* (contact.py 8-17, conversation.py 21-39).
THEOREM FirstContact == Spec => []FirstContactIsSafe
<1>1. Inv => FirstContactIsSafe  BY DEF Inv, KeyInv
<1>. QED  BY <1>1, Invariance, PTL

\* No conversation of a webhook contact is without a text, whoever lost the race
\* or died (webhook.py 28-60).
THEOREM NoDirt == Spec => []NoDirtyConversation
<1>1. Inv => NoDirtyConversation  BY DEF Inv, KeyInv
<1>. QED  BY <1>1, Invariance, PTL

\* What a connected tab shows as said is stored or on its way (app.ts 83-151).
THEOREM NothingShownInVain == Spec => []ShownIsSaid
<1>1. Inv => ShownIsSaid  BY DEF Inv, Follows, ShownIsSaid
<1>. QED  BY <1>1, Invariance, PTL

(***************************************************************************)
(* The refinement of Threads                                               *)
(***************************************************************************)

LEMMA ThreadsInit == Init => Contacts!Init
<1>. SUFFICES ASSUME Init PROVE Contacts!Init
     OBVIOUS
<1>1. \A x \in Keys : Open(x) = {} /\ Past(x) = {}  BY DEF Init, Open, Past
<1>2. \A x \in Keys : Held(x) = {}  BY NoConvAssumption DEF Init, Held
<1>. QED  BY <1>1, <1>2 DEF Contacts!Init

\* A step that leaves every contact's conversations alone is a stutter.
LEMMA ThreadsStutter ==
    ASSUME \A x \in Keys : Open(x)' = Open(x) /\ Past(x)' = Past(x) /\ Held(x)' = Held(x)
    PROVE  UNCHANGED Contacts!vars
BY DEF Contacts!vars

\* Whoever lets go of a conversation is the last to hold it or not.
LEMMA ThreadsRelease ==
    ASSUME Inv, NEW w \in Writers, Release(w), UNCHANGED contact, NEW k \in Convs, holds[w] = k
    PROVE  /\ \A x \in Keys \ {contact[k]} : Held(x)' = Held(x)
           /\ Held(contact[k])' \in {Held(contact[k]), Held(contact[k]) \ {k}}
           /\ will[w] = "closed" => Held(contact[k])' = Held(contact[k])
<1>1. /\ holds'[w] = NoConv
      /\ \A v \in Writers \ {w} : holds'[v] = holds[v] /\ will'[v] = will[v]
      BY DEF Release, Inv, TypeOK
<1>2. \A j \in Convs \ {k} : (\E v \in Writers : holds'[v] = j /\ will'[v] = "open")
                                <=> (\E v \in Writers : holds[v] = j /\ will[v] = "open")
      BY <1>1, NoConvAssumption
<1>3. (\E v \in Writers : holds'[v] = k /\ will'[v] = "open")
          => (\E v \in Writers : holds[v] = k /\ will[v] = "open")
      BY <1>1, NoConvAssumption
<1>4. \A x \in Keys \ {contact[k]} : Held(x)' = Held(x)
      BY <1>2 DEF Held
<1>5. Held(contact[k])' \in {Held(contact[k]), Held(contact[k]) \ {k}}
      BY <1>2, <1>3 DEF Held
<1>6. will[w] = "closed" => Held(contact[k])' = Held(contact[k])
  <2>. SUFFICES ASSUME will[w] = "closed" PROVE Held(contact[k])' = Held(contact[k])
       OBVIOUS
  <2>1. (\E v \in Writers : holds[v] = k /\ will[v] = "open")
            => (\E v \in Writers : holds'[v] = k /\ will'[v] = "open")
        BY <1>1
  <2>. QED  BY <1>2, <1>3, <2>1 DEF Held
<1>. QED  BY <1>4, <1>5, <1>6

\* A status that is written ends the conversation, or takes it up again.
LEMMA ThreadsWrite ==
    ASSUME Inv, NEW w \in Writers, SetStatus(w)
    PROVE  [Contacts!Next]_(Contacts!vars)
<1>1. PICK k \in Convs : k = holds[w]
      BY DEF SetStatus, Inv, TypeOK
<1>2. /\ state' = [state EXCEPT ![k] = will[w]]
      /\ ended' = IF will[w] = "closed" THEN ended \cup {k} ELSE ended
      /\ Release(w) /\ UNCHANGED contact
      BY <1>1 DEF SetStatus
<1>3. /\ will[w] \in {"open", "closed"} /\ state[k] \in {"open", "closed"}
      /\ state'[k] = will[w] /\ \A j \in Convs \ {k} : state'[j] = state[j]
      /\ state[k] = "closed" => k \in ended
      BY <1>1, <1>2 DEF SetStatus, Inv, TypeOK, KeyInv, WritersFit
<1>4. \A y \in Keys \ {contact[k]} :
          Open(y)' = Open(y) /\ Past(y)' = Past(y) /\ Held(y)' = Held(y)
  <2>1. \A y \in Keys \ {contact[k]} : Held(y)' = Held(y)
        BY <1>1, <1>2, ThreadsRelease
  <2>2. \A y \in Keys \ {contact[k]} : Open(y)' = Open(y)  BY <1>2, <1>3 DEF Open
  <2>3. \A y \in Keys \ {contact[k]} : Past(y)' = Past(y)  BY <1>2 DEF Past
  <2>. QED  BY <2>1, <2>2, <2>3
<1>5. CASE contact[k] \notin Keys  BY <1>4, <1>5, ThreadsStutter
<1>6. CASE contact[k] \in Keys
  <2>1. PICK x \in Keys : x = contact[k]  BY <1>6
  <2>2. CASE will[w] = "closed"
    <3>1. Open(x)' = Open(x) \ {k}  BY <1>2, <1>3, <2>1, <2>2 DEF Open
    <3>2. Past(x)' = Past(x) \cup {k}  BY <1>2, <2>1, <2>2 DEF Past
    <3>3. Held(x)' = Held(x)  BY <1>1, <1>2, <2>1, <2>2, ThreadsRelease
    <3>4. CASE state[k] = "open"
      <4>1. k \in Open(x)  BY <2>1, <3>4 DEF Open
      <4>2. Contacts!End(x, k)
            BY <1>4, <2>1, <3>1, <3>2, <3>3, <4>1 DEF Contacts!End
      <4>. QED  BY <4>2 DEF Contacts!Next
    <3>5. CASE state[k] = "closed"
      <4>1. k \notin Open(x) /\ k \in Past(x)  BY <1>3, <2>1, <3>5 DEF Open, Past
      <4>2. Open(x)' = Open(x) /\ Past(x)' = Past(x)  BY <3>1, <3>2, <4>1
      <4>. QED  BY <1>4, <2>1, <3>3, <4>2, ThreadsStutter
    <3>. QED  BY <1>3, <3>4, <3>5
  <2>3. CASE will[w] = "open"
    <3>1. Open(x)' = Open(x) \cup {k}  BY <1>2, <1>3, <2>1, <2>3 DEF Open
    <3>2. Past(x)' = Past(x)  BY <1>2, <2>1, <2>3 DEF Past
    <3>3. Held(x)' \in {Held(x), Held(x) \ {k}}  BY <1>1, <1>2, <2>1, ThreadsRelease
    <3>4. k \in Held(x)  BY <1>1, <2>1, <2>3 DEF Held
    <3>5. Contacts!Resume(x, k)
          BY <1>4, <2>1, <3>1, <3>2, <3>3, <3>4 DEF Contacts!Resume
    <3>. QED  BY <3>5 DEF Contacts!Next
  <2>. QED  BY <1>3, <2>2, <2>3
<1>. QED  BY <1>5, <1>6

\* A writer that decides to go on holds the conversation, one that gives up does not.
LEMMA ThreadsDecide ==
    ASSUME Inv, NEW w \in Writers, GiveUp(w) \/ \E k \in Convs, s \in {"open", "closed"} : Decide(w, k, s)
    PROVE  [Contacts!Next]_(Contacts!vars)
<1>1. contact' = contact /\ \A x \in Keys : Open(x)' = Open(x) /\ Past(x)' = Past(x)
      BY DEF GiveUp, Decide, Open, Past
<1>2. CASE GiveUp(w)
  <2>1. PICK k \in Convs : k = holds[w]  BY <1>2 DEF GiveUp, Inv, TypeOK
  <2>2. /\ \A x \in Keys \ {contact[k]} : Held(x)' = Held(x)
        /\ Held(contact[k])' \in {Held(contact[k]), Held(contact[k]) \ {k}}
        BY <1>2, <2>1, ThreadsRelease DEF GiveUp
  <2>3. CASE contact[k] \in Keys /\ Held(contact[k])' = Held(contact[k]) \ {k}
    <3>1. PICK x \in Keys : x = contact[k]  BY <2>3
    <3>2. Contacts!Release(x, k)
          BY <1>1, <2>2, <2>3, <3>1 DEF Contacts!Release
    <3>. QED  BY <3>2 DEF Contacts!Next
  <2>4. CASE \A x \in Keys : Held(x)' = Held(x)  BY <1>1, <2>4, ThreadsStutter
  <2>. QED  BY <1>1, <2>2, <2>3, <2>4
<1>3. ASSUME NEW k \in Convs, NEW s \in {"open", "closed"}, Decide(w, k, s)
      PROVE  [Contacts!Next]_(Contacts!vars)
  <2>1. /\ holds[w] = NoConv /\ state[k] = "open" /\ contact' = contact
        /\ holds'[w] = k /\ will'[w] = s
        /\ \A v \in Writers \ {w} : holds'[v] = holds[v] /\ will'[v] = will[v]
        BY <1>3 DEF Decide, Inv, TypeOK
  <2>2. \A j \in Convs \ {k} : (\E v \in Writers : holds'[v] = j /\ will'[v] = "open")
                                  <=> (\E v \in Writers : holds[v] = j /\ will[v] = "open")
        BY <2>1, NoConvAssumption
  <2>3. \A x \in Keys \ {contact[k]} : Held(x)' = Held(x)  BY <2>1, <2>2 DEF Held
  <2>4. (\E v \in Writers : holds[v] = k /\ will[v] = "open")
            => (\E v \in Writers : holds'[v] = k /\ will'[v] = "open")
        BY <2>1, NoConvAssumption
  <2>5. Held(contact[k])' \in {Held(contact[k]), Held(contact[k]) \cup {k}}
        BY <2>1, <2>2, <2>4 DEF Held
  <2>6. CASE contact[k] \in Keys /\ Held(contact[k])' = Held(contact[k]) \cup {k}
    <3>1. PICK x \in Keys : x = contact[k]  BY <2>6
    <3>2. k \in Open(x)  BY <2>1, <3>1 DEF Open
    <3>3. Contacts!Hold(x, k)
          BY <1>1, <2>3, <2>6, <3>1, <3>2 DEF Contacts!Hold
    <3>. QED  BY <3>3 DEF Contacts!Next
  <2>7. CASE \A x \in Keys : Held(x)' = Held(x)  BY <1>1, <2>7, ThreadsStutter
  <2>. QED  BY <1>1, <2>3, <2>5, <2>6, <2>7
<1>. QED  BY <1>2, <1>3

LEMMA ThreadsStep == Inv /\ [Next]_vars => [Contacts!Next]_(Contacts!vars)
<1>. SUFFICES ASSUME Inv, [Next]_vars PROVE [Contacts!Next]_(Contacts!vars)
     OBVIOUS
<1>1. CASE UNCHANGED << state, ended, contact, writers >>
  <2>1. \A x \in Keys : Open(x)' = Open(x) /\ Past(x)' = Past(x) /\ Held(x)' = Held(x)
        BY <1>1 DEF Open, Past, Held
  <2>. QED  BY <2>1, ThreadsStutter
<1>2. ASSUME NEW h \in Handlers, CommitToNew(h) PROVE Contacts!Next
  <2>1. PICK k \in Fresh : /\ state' = [state EXCEPT ![k] = "open"]
                           /\ contact' = [contact EXCEPT ![k] = key[h]]
                           /\ UNCHANGED << ended, writers >>
        BY <1>2 DEF CommitToNew
  <2>2. PICK x \in Keys : x = key[h]
        BY <1>2 DEF CommitToNew, NeedsConversation, Inv, KeyInv, Relies
  <2>3. k \in Convs /\ state[k] = "none" /\ contact[k] = NoKey /\ k \notin ended
        BY <2>1 DEF Fresh, Inv, KeyInv, RowsFit, WritersFit
  <2>4. /\ state'[k] = "open" /\ contact'[k] = x
        /\ \A j \in Convs \ {k} : state'[j] = state[j] /\ contact'[j] = contact[j]
        BY <2>1, <2>2, <2>3 DEF Inv, TypeOK
  <2>5. \A y \in Keys : Past(y)' = Past(y) /\ Held(y)' = Held(y)
    <3>1. \A y \in Keys : Past(y)' = Past(y)
          BY <2>1, <2>3, <2>4 DEF Past, Inv, TypeOK
    <3>2. \A w \in Writers : holds[w] # k
          BY <2>3, NoConvAssumption DEF Inv, KeyInv, WritersFit
    <3>3. \A y \in Keys : Held(y)' = Held(y)
          BY <2>1, <2>4, <3>2 DEF Held
    <3>. QED  BY <3>1, <3>3
  <2>6. \A y \in Keys \ {x} : Open(y)' = Open(y)
        BY <2>3, <2>4, KeyAssumption DEF Open, Keys
  <2>7. Open(x)' = Open(x) \cup {k}  BY <2>3, <2>4 DEF Open
  <2>8. Open(x) = {} \/ Past(x) # {}
        BY <1>2, <2>2 DEF CommitToNew, NeedsConversation, Inv, KeyInv, Relies, RowsFit, Open
  <2>9. \A y \in Keys : k \notin Open(y) \cup Past(y)  BY <2>3 DEF Open, Past
  <2>10. Contacts!Begin(x, k)
        BY <2>5, <2>6, <2>7, <2>8, <2>9 DEF Contacts!Begin
  <2>. QED  BY <2>3, <2>10 DEF Contacts!Next
<1>3. ASSUME NEW t \in Tabs, Serve(t) PROVE UNCHANGED Contacts!vars
  <2>1. contact' = contact /\ \A k \in Convs : contact[k] \in Keys => state'[k] = state[k]
    <3>1. CASE UNCHANGED state  BY <1>3, <3>1 DEF Serve
    <3>2. ASSUME NEW k \in Fresh, state' = [state EXCEPT ![k] = "open"]
          PROVE  \A j \in Convs : contact[j] \in Keys => state'[j] = state[j]
          BY <3>2, KeyAssumption DEF Fresh, Inv, KeyInv, RowsFit, Keys, TypeOK
    <3>. QED  BY <1>3, <3>1, <3>2 DEF Serve
  <2>2. UNCHANGED << ended, writers >>  BY <1>3 DEF Serve
  <2>3. \A x \in Keys : Open(x)' = Open(x) /\ Past(x)' = Past(x) /\ Held(x)' = Held(x)
        BY <2>1, <2>2 DEF Open, Past, Held
  <2>. QED  BY <2>3, ThreadsStutter
<1>4. ASSUME NEW w \in Writers, WriterNext(w) PROVE [Contacts!Next]_(Contacts!vars)
      BY <1>4, ThreadsWrite, ThreadsDecide DEF WriterNext
<1>5. ASSUME NEW h \in Handlers, HandlerNext(h), ~CommitToNew(h)
      PROVE  UNCHANGED << state, ended, contact, writers >>
      BY <1>5 DEF HandlerNext, LookUp, InsertContact, DuplicateContact, CommitToFound, Abort
<1>6. ASSUME NEW t \in Tabs, TabNext(t), ~Serve(t)
      PROVE  UNCHANGED << state, ended, contact, writers >>
      BY <1>6 DEF TabNext, Connect, Greet, Lose, Type, StoreText
<1>. QED  BY <1>1, <1>2, <1>3, <1>4, <1>5, <1>6 DEF Next

\* Per contact, the code implements the abstract specification of its threads.
THEOREM ImplementsThreads == Spec => FollowsThreads
<1>. QED  BY ThreadsInit, ThreadsStep, Invariance, PTL DEF Spec, FollowsThreads, Contacts!Spec
(***************************************************************************)
(* The way back to a conversation                                          *)
(***************************************************************************)

Single == \A t, u \in opened : t = u

\* As long as no two tabs got a conversation each, there is but one among them:
\* what a tab shows and what it is connected to is what the browser stores, and
\* the tab that opened it never connects again without an id.
OneThread ==
    /\ store = NoConv =>
         \A t \in Tabs : /\ shows[t] = NoConv
                         /\ conv[t] # NoConv => t \in opened
    /\ store # NoConv =>
         /\ opened # {}
         /\ \A t \in Tabs : shows[t] \in {NoConv, store} /\ conv[t] \in {NoConv, store}
         /\ \A t \in opened : link[t] = "accepted" => conv[t] # NoConv

ThreadInv == IsFiniteSet(opened) /\ (Single => OneThread)

LEMMA ThreadInit == Init => ThreadInv
BY FS_EmptySet DEF Init, ThreadInv, OneThread

\* Only Serve opens, and what was opened stays so.
LEMMA OpenedGrows ==
    ASSUME [Next]_vars
    PROVE  opened \subseteq opened' /\ (Single' => Single)
<1>1. opened \subseteq opened'
      BY DEF Next, HandlerNext, TabNext, LookUp, InsertContact, DuplicateContact, CommitToFound,
             CommitToNew, Abort, Connect, Serve, Greet, Lose, Type, StoreText, WriterNext,
             Decide, SetStatus, GiveUp
<1>. QED  BY <1>1 DEF Single

LEMMA ThreadConnect ==
    ASSUME Inv, ThreadInv, Single, NEW t \in Tabs, Connect(t)
    PROVE  OneThread'
<1>1. /\ link'[t] = "accepted" /\ conv'[t] = store
      /\ \A u \in Tabs \ {t} : link'[u] = link[u] /\ conv'[u] = conv[u]
      /\ UNCHANGED << store, shows, opened >>
      BY DEF Connect, Inv, TypeOK
<1>2. opened \subseteq Tabs  BY DEF Inv, TypeOK
<1>. QED  BY <1>1, <1>2 DEF ThreadInv, OneThread

LEMMA ThreadServe ==
    ASSUME Inv, ThreadInv, Single, Single', NEW t \in Tabs, Serve(t)
    PROVE  OneThread'
<1>1. /\ link[t] = "accepted" /\ link'[t] = "served"
      /\ \A u \in Tabs \ {t} : link'[u] = link[u]
      /\ UNCHANGED << store, shows >>
      BY DEF Serve, Inv, TypeOK
<1>2. opened \subseteq Tabs  BY DEF Inv, TypeOK
<1>3. CASE conv[t] # NoConv
  <2>1. UNCHANGED << conv, opened >>  BY <1>3 DEF Serve
  <2>. QED  BY <1>1, <1>2, <2>1 DEF ThreadInv, OneThread
<1>4. CASE conv[t] = NoConv
  <2>1. /\ opened' = opened \cup {t}
        /\ \A u \in Tabs \ {t} : conv'[u] = conv[u]
        BY <1>4 DEF Serve, Inv, TypeOK
  <2>2. opened \subseteq {t}  BY <2>1 DEF Single
  <2>3. store = NoConv  BY <1>1, <1>4, <2>2 DEF ThreadInv, OneThread
  <2>. QED  BY <1>1, <2>1, <2>3 DEF ThreadInv, OneThread
<1>. QED  BY <1>3, <1>4

LEMMA ThreadGreet ==
    ASSUME Inv, ThreadInv, Single, NEW t \in Tabs, Greet(t)
    PROVE  OneThread' /\ (shows[t] # NoConv => shows'[t] = shows[t])
<1>1. /\ link'[t] = "live" /\ shows'[t] = conv[t] /\ store' = conv[t]
      /\ \A u \in Tabs \ {t} : link'[u] = link[u] /\ shows'[u] = shows[u]
      /\ UNCHANGED << conv, opened >>
      BY DEF Greet, Inv, TypeOK
<1>2. conv[t] # NoConv  BY NoConvAssumption DEF Greet, Inv, Follows
<1>3. opened \subseteq Tabs  BY DEF Inv, TypeOK
<1>4. CASE store = NoConv
  <2>1. \A u \in Tabs : conv[u] # NoConv => u = t
        BY <1>2, <1>4 DEF ThreadInv, OneThread, Single
  <2>2. t \in opened /\ \A u \in opened : u = t
        BY <1>2, <1>4 DEF ThreadInv, OneThread, Single
  <2>. QED  BY <1>1, <1>2, <1>4, <2>1, <2>2 DEF ThreadInv, OneThread
<1>5. CASE store # NoConv
  <2>1. conv[t] = store  BY <1>2, <1>5 DEF ThreadInv, OneThread
  <2>. QED  BY <1>1, <1>2, <1>3, <1>5, <2>1 DEF ThreadInv, OneThread
<1>. QED  BY <1>4, <1>5

LEMMA ThreadLose ==
    ASSUME Inv, ThreadInv, Single, NEW t \in Tabs, Lose(t)
    PROVE  OneThread'
<1>1. /\ link'[t] = "off" /\ conv'[t] = NoConv
      /\ \A u \in Tabs \ {t} : link'[u] = link[u] /\ conv'[u] = conv[u]
      /\ UNCHANGED << store, shows, opened >>
      BY DEF Lose, Inv, TypeOK
<1>2. opened \subseteq Tabs  BY DEF Inv, TypeOK
<1>. QED  BY <1>1, <1>2 DEF ThreadInv, OneThread

\* The steps that only texts, contacts or statuses notice.
LEMMA ThreadOther ==
    ASSUME [Next]_vars, \A t \in Tabs : ~Connect(t) /\ ~Serve(t) /\ ~Greet(t) /\ ~Lose(t)
    PROVE  UNCHANGED << link, conv, store, shows, opened >>
BY DEF Next, HandlerNext, TabNext, LookUp, InsertContact, DuplicateContact, CommitToFound,
       CommitToNew, Abort, Type, StoreText, WriterNext,
             Decide, SetStatus, GiveUp

LEMMA ThreadStep == Inv /\ ThreadInv /\ [Next]_vars => ThreadInv'
<1>. SUFFICES ASSUME Inv, ThreadInv, [Next]_vars PROVE ThreadInv'
     OBVIOUS
<1>1. IsFiniteSet(opened)'
  <2>1. ASSUME NEW t \in Tabs, Serve(t) PROVE opened' = opened \/ opened' = opened \cup {t}
        BY <2>1 DEF Serve
  <2>2. ASSUME NEW t \in Tabs, Connect(t) \/ Greet(t) \/ Lose(t) PROVE opened' = opened
        BY <2>2 DEF Connect, Greet, Lose
  <2>. QED  BY <2>1, <2>2, ThreadOther, FS_AddElement DEF ThreadInv
<1>2. ASSUME Single' PROVE OneThread'
  <2>1. Single  BY <1>2, OpenedGrows
  <2>2. ASSUME UNCHANGED << link, conv, store, shows, opened >> PROVE OneThread'
        BY <2>1, <2>2 DEF ThreadInv, OneThread
  <2>. QED  BY <1>2, <2>1, <2>2, ThreadConnect, ThreadServe, ThreadGreet, ThreadLose, ThreadOther
<1>. QED  BY <1>1, <1>2 DEF ThreadInv

\* Finitely many that are not all the same are more than one.
LEMMA MoreThanOne ==
    ASSUME NEW S, IsFiniteSet(S), NEW t \in S, NEW u \in S, t # u
    PROVE  Cardinality(S) > 1
<1>1. Cardinality({t}) = 1 /\ IsFiniteSet({t})  BY FS_Singleton
<1>2. Cardinality({t} \cup {u}) = 2  BY <1>1, FS_AddElement
<1>3. Cardinality({t} \cup {u}) <= Cardinality(S)  BY FS_Subset
<1>4. Cardinality(S) \in Nat  BY FS_CardinalityType
<1>. QED  BY <1>2, <1>3, <1>4

LEMMA ThreadKept ==
    ASSUME Inv, ThreadInv, [Next]_vars, NEW t \in Tabs, shows[t] # NoConv, shows'[t] # shows[t]
    PROVE  Cardinality(opened) > 1
<1>1. ~Single
  <2>1. CASE \E u \in Tabs : Greet(u)
    <3>1. PICK u \in Tabs : Greet(u)  BY <2>1
    <3>2. u = t  BY <3>1 DEF Greet, Inv, TypeOK
    <3>. QED  BY <3>1, <3>2, ThreadGreet
  <2>2. CASE ~\E u \in Tabs : Greet(u)
    <3>1. shows' = shows  BY <2>2, ThreadOther DEF Connect, Serve, Lose
    <3>. QED  BY <3>1
  <2>. QED  BY <2>1, <2>2
<1>. QED  BY <1>1, MoreThanOne DEF Single, ThreadInv

\* A tab that reconnects comes back to the conversation it showed, unless two
\* tabs each got one before there was an id to remember (app.ts 27-31, 83-98).
THEOREM ReturnsToThread == Spec => ReturnsToItsThread
<1>1. Inv /\ ThreadInv /\ [Next]_vars =>
         [\A t \in Tabs : shows[t] # NoConv /\ shows'[t] # shows[t]
                              => Cardinality(opened) > 1]_vars
      BY ThreadKept
<1>2. Spec => []ThreadInv  BY ThreadInit, ThreadStep, Invariance, PTL DEF Spec
<1>. QED  BY <1>1, <1>2, Invariance, PTL DEF Spec, ReturnsToItsThread
=============================================================================
