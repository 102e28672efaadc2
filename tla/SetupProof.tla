----------------------------- MODULE SetupProof -----------------------------
(***************************************************************************)
(* Proofs about Setup: type correctness, and that the default tenant is    *)
(* complete and single however many seeds run.                             *)
(***************************************************************************)
EXTENDS Setup, TLAPS

\* What a seed has seen is what is there still, as far as it decides by it: a
\* tenant once seen has one agent and one bot configuration, and its channels
\* do not go away.
SeenHolds(c) ==
    /\ seen[c].tenant => /\ tenant
                         /\ seen[c].agents > 0 /\ seen[c].bots > 0
                         /\ \A y \in Type : seen[c].channels[y] > 0
    /\ ~seen[c].tenant => /\ seen[c].agents = 0 /\ seen[c].bots = 0
                          /\ \A y \in Type : seen[c].channels[y] = 0

\* The seed that inserts the tenant is alone with it until it commits.
InsertsAlone(c) ==
    pc[c] = "inserting" => /\ ~tenant /\ ~seen[c].tenant
                           /\ \A d \in Containers : pc[d] = "inserting" => d = c

\* A container serves, and so lets administrators in, only after a seed.
ServesSeeded == \A c \in Containers : pc[c] = "serving" => tenant

Inv == /\ TypeOK
       /\ SeededOnce
       /\ ServesSeeded
       /\ \A c \in Containers : SeenHolds(c)
       /\ \A c \in Containers : InsertsAlone(c)

USE DEF rows, history, containers, vars

LEMMA InitInv == Init => Inv
<1>. SUFFICES ASSUME Init PROVE Inv
     OBVIOUS
<1>1. Nothing \in Rows  BY DEF Nothing, Rows
<1>2. TypeOK  BY <1>1 DEF Init, TypeOK, Place
<1>3. SeededOnce  BY DEF Init, SeededOnce
<1>4. ServesSeeded  BY DEF Init, ServesSeeded
<1>5. \A c \in Containers : SeenHolds(c)  BY DEF Init, SeenHolds, Nothing
<1>6. \A c \in Containers : InsertsAlone(c)  BY DEF Init, InsertsAlone
<1>. QED  BY <1>2, <1>3, <1>4, <1>5, <1>6 DEF Inv

LEMMA LeaveKeeps ==
    ASSUME TypeOK, NEW c \in Containers, NEW l \in Place, Leave(c, l)
    PROVE  /\ pc' \in [Containers -> Place]
           /\ seen' \in [Containers -> Rows]
           /\ seen'[c] = Nothing
           /\ \A d \in Containers \ {c} : seen'[d] = seen[d] /\ pc'[d] = pc[d]
           /\ pc'[c] = l
<1>1. Nothing \in Rows  BY DEF Nothing, Rows
<1>. QED  BY <1>1 DEF Leave, GoTo, TypeOK

LEMMA StartKeeps ==
    ASSUME Inv, NEW c \in Containers, Start(c)
    PROVE  Inv'
<1>. DEFINE snapshot == [tenant |-> tenant, agents |-> agents, bots |-> bots,
                         channels |-> channels, items |-> faqs + items]
<1>1. snapshot \in Rows  BY DEF Inv, TypeOK, Rows
<1>2. seen' = [seen EXCEPT ![c] = snapshot]  BY DEF Start
<1>3. TypeOK'
  <2>1. seen' \in [Containers -> Rows]  BY <1>1, <1>2 DEF Inv, TypeOK
  <2>2. pc' \in [Containers -> Place]  BY DEF Start, GoTo, Inv, TypeOK, Place
  <2>. QED  BY <2>1, <2>2 DEF Start, Inv, TypeOK
<1>4. SeededOnce'  BY DEF Start, Inv, SeededOnce
<1>5. ASSUME NEW d \in Containers PROVE SeenHolds(d)'
  <2>1. CASE d = c
    <3>1. seen'[d] = snapshot  BY <2>1, <1>2 DEF Inv, TypeOK
    <3>2. tenant' = tenant  BY DEF Start
    <3>. QED  BY <3>1, <3>2 DEF Inv, SeededOnce, SeenHolds, TypeOK, Type
  <2>2. CASE d # c
    <3>1. seen'[d] = seen[d] /\ tenant' = tenant  BY <2>2, <1>2 DEF Start, Inv, TypeOK
    <3>. QED  BY <3>1 DEF Inv, SeenHolds
  <2>. QED  BY <2>1, <2>2
<1>6. ASSUME NEW d \in Containers PROVE InsertsAlone(d)'
  <2>1. \A e \in Containers : pc'[e] = "inserting" => pc[e] = "inserting" /\ e # c
        BY DEF Start, GoTo, Inv, TypeOK
  <2>2. tenant' = tenant /\ \A e \in Containers \ {c} : seen'[e] = seen[e]
        BY <1>2 DEF Start, Inv, TypeOK
  <2>. QED  BY <2>1, <2>2 DEF Inv, InsertsAlone
<1>7. ServesSeeded'  BY DEF Start, GoTo, Inv, TypeOK, ServesSeeded
<1>. QED  BY <1>3, <1>4, <1>5, <1>6, <1>7 DEF Inv

LEMMA InsertTenantKeeps ==
    ASSUME Inv, NEW c \in Containers, InsertTenant(c)
    PROVE  Inv'
<1>1. TypeOK'  BY DEF InsertTenant, GoTo, Inv, TypeOK, Place
<1>2. SeededOnce'  BY DEF InsertTenant, Inv, SeededOnce
<1>3. \A d \in Containers : SeenHolds(d)'  BY DEF InsertTenant, Inv, SeenHolds
<1>4. \A d \in Containers : InsertsAlone(d)'
      BY DEF InsertTenant, GoTo, Inv, TypeOK, InsertsAlone
<1>5. ServesSeeded'  BY DEF InsertTenant, GoTo, Inv, TypeOK, ServesSeeded
<1>. QED  BY <1>1, <1>2, <1>3, <1>4, <1>5 DEF Inv

\* TenantTaken, SeedRaises and Stop leave the rows alone.
LEMMA LeavingKeeps ==
    ASSUME Inv, NEW c \in Containers, NEW l \in Place \ {"inserting", "serving"}, Leave(c, l),
           UNCHANGED << rows, history >>, crashes' \in Nat
    PROVE  Inv'
<1>1. /\ pc' \in [Containers -> Place]
      /\ seen' \in [Containers -> Rows]
      /\ seen'[c] = Nothing
      /\ \A d \in Containers \ {c} : seen'[d] = seen[d] /\ pc'[d] = pc[d]
      /\ pc'[c] = l
      BY LeaveKeeps DEF Inv
<1>2. TypeOK'  BY <1>1 DEF Inv, TypeOK
<1>3. SeededOnce'  BY DEF Inv, SeededOnce
<1>4. \A d \in Containers : SeenHolds(d)'  BY <1>1 DEF Inv, SeenHolds, Nothing, Type
<1>5. \A d \in Containers : InsertsAlone(d)'  BY <1>1 DEF Inv, InsertsAlone
<1>6. ServesSeeded'  BY <1>1 DEF Inv, ServesSeeded
<1>. QED  BY <1>2, <1>3, <1>4, <1>5, <1>6 DEF Inv

LEMMA CommitKeeps ==
    ASSUME Inv, NEW c \in Containers, SeedCommits(c)
    PROVE  Inv'
<1>1. /\ pc' \in [Containers -> Place]
      /\ seen' \in [Containers -> Rows]
      /\ seen'[c] = Nothing
      /\ \A d \in Containers \ {c} : seen'[d] = seen[d] /\ pc'[d] = pc[d]
      /\ pc'[c] = "serving"
      BY LeaveKeeps DEF Inv, SeedCommits, Place
<1>2. seen[c] \in Rows  BY DEF Inv, TypeOK
<1>3. tenant' = TRUE  BY DEF SeedCommits
<1>4. TypeOK'
  <2>1. agents' \in Nat /\ bots' \in Nat /\ faqs' \in Nat
        BY <1>2 DEF SeedCommits, Ensured, Inv, TypeOK, Rows
  <2>2. channels' \in [Type -> Nat] /\ active' \in [Type -> Nat]
        BY <1>2 DEF SeedCommits, Ensured, Inv, TypeOK, Rows
  <2>. QED  BY <1>1, <1>3, <2>1, <2>2 DEF SeedCommits, Inv, TypeOK
<1>5. SeededOnce'
  <2>1. CASE pc[c] = "inserting"
    <3>1. ~tenant /\ ~seen[c].tenant  BY <2>1 DEF Inv, InsertsAlone
    <3>2. agents = 0 /\ bots = 0 /\ \A y \in Type : channels[y] = 0
          BY <3>1 DEF Inv, SeededOnce
    <3>3. /\ seen[c].agents = 0 /\ seen[c].bots = 0
          /\ \A y \in Type : seen[c].channels[y] = 0
          BY <3>1 DEF Inv, SeenHolds
    <3>4. agents' = 1 /\ bots' = 1  BY <3>2, <3>3 DEF SeedCommits, Ensured
    <3>5. \A y \in Type : channels'[y] = 1  BY <3>2, <3>3 DEF SeedCommits, Ensured
    <3>. QED  BY <1>3, <3>4, <3>5 DEF SeededOnce
  <2>2. CASE pc[c] = "seeding" /\ seen[c].tenant
    <3>1. /\ tenant
          /\ seen[c].agents > 0 /\ seen[c].bots > 0
          /\ \A y \in Type : seen[c].channels[y] > 0
          BY <2>2 DEF Inv, SeenHolds
    <3>2. agents = 1 /\ bots = 1 /\ \A y \in Type : channels[y] > 0
          BY <3>1 DEF Inv, SeededOnce
    <3>3. agents' = 1 /\ bots' = 1  BY <1>2, <3>1, <3>2 DEF SeedCommits, Ensured, Rows
    <3>4. \A y \in Type : channels'[y] > 0
          BY <1>2, <3>1, <3>2 DEF SeedCommits, Ensured, Rows
    <3>. QED  BY <1>3, <3>3, <3>4 DEF SeededOnce
  <2>. QED  BY <2>1, <2>2 DEF SeedCommits
<1>6. \A d \in Containers : SeenHolds(d)'
      BY <1>1, <1>3 DEF Inv, SeenHolds, Nothing, Type
<1>7. \A d \in Containers : InsertsAlone(d)'
  <2>. SUFFICES ASSUME NEW d \in Containers, pc'[d] = "inserting" PROVE FALSE
       BY DEF InsertsAlone
  <2>1. d # c /\ pc[d] = "inserting"  BY <1>1
  <2>2. CASE pc[c] = "inserting"  BY <2>1, <2>2 DEF Inv, InsertsAlone
  <2>3. CASE seen[c].tenant
    <3>1. tenant  BY <2>3 DEF Inv, SeenHolds
    <3>. QED  BY <2>1, <3>1 DEF Inv, InsertsAlone
  <2>. QED  BY <2>2, <2>3 DEF SeedCommits
<1>8. ServesSeeded'  BY <1>3 DEF ServesSeeded
<1>. QED  BY <1>4, <1>5, <1>6, <1>7, <1>8 DEF Inv

LEMMA AdministerKeeps ==
    ASSUME Inv, Served, Administer
    PROVE  Inv'
<1>1. tenant  BY DEF Served, Inv, ServesSeeded
<1>2. agents = 1 /\ bots = 1 /\ \A y \in Type : channels[y] > 0
      BY <1>1 DEF Inv, SeededOnce
<1>3. UNCHANGED << tenant, agents, bots, containers, crashes >>
      BY DEF Administer, CreateChannel, PatchChannel, PutBotConfig, CreateItem, DeleteItem
<1>4. TypeOK' /\ \A y \in Type : channels'[y] >= channels[y]
  <2>1. ASSUME NEW y \in Type, CreateChannel(y)
        PROVE  TypeOK' /\ \A z \in Type : channels'[z] >= channels[z]
        BY <2>1, <1>3 DEF CreateChannel, Inv, TypeOK
  <2>2. ASSUME NEW y \in Type, PatchChannel(y)
        PROVE  TypeOK' /\ \A z \in Type : channels'[z] >= channels[z]
    <3>1. active' \in [Type -> Nat]  BY <2>2 DEF PatchChannel, Inv, TypeOK
    <3>. QED  BY <2>2, <1>3, <3>1 DEF PatchChannel, Inv, TypeOK
  <2>3. ASSUME PutBotConfig
        PROVE  TypeOK' /\ \A z \in Type : channels'[z] >= channels[z]
        BY <2>3, <1>3 DEF PutBotConfig, Inv, TypeOK
  <2>4. ASSUME CreateItem
        PROVE  TypeOK' /\ \A z \in Type : channels'[z] >= channels[z]
        BY <2>4, <1>3 DEF CreateItem, Inv, TypeOK
  <2>5. ASSUME DeleteItem
        PROVE  TypeOK' /\ \A z \in Type : channels'[z] >= channels[z]
    <3>1. faqs' \in Nat /\ items' \in Nat /\ emptied' \in BOOLEAN
          BY <2>5 DEF DeleteItem, Inv, TypeOK
    <3>. QED  BY <2>5, <1>3, <3>1 DEF DeleteItem, Inv, TypeOK
  <2>. QED  BY <2>1, <2>2, <2>3, <2>4, <2>5 DEF Administer
<1>5. SeededOnce'
      BY <1>1, <1>2, <1>3, <1>4 DEF SeededOnce, Inv, TypeOK
<1>6. ServesSeeded'  BY <1>3 DEF Inv, ServesSeeded
<1>7. \A c \in Containers : SeenHolds(c)'  BY <1>3 DEF Inv, SeenHolds
<1>8. \A c \in Containers : InsertsAlone(c)'  BY <1>3 DEF Inv, InsertsAlone
<1>. QED  BY <1>4, <1>5, <1>6, <1>7, <1>8 DEF Inv

LEMMA InvStep == Inv /\ [Next]_vars => Inv'
<1>. SUFFICES ASSUME Inv, [Next]_vars PROVE Inv'
     OBVIOUS
<1>1. ASSUME NEW c \in Containers, Start(c) PROVE Inv'
      BY <1>1, StartKeeps
<1>2. ASSUME NEW c \in Containers, InsertTenant(c) PROVE Inv'
      BY <1>2, InsertTenantKeeps
<1>3. ASSUME NEW c \in Containers, TenantTaken(c) PROVE Inv'
      BY <1>3, LeavingKeeps DEF TenantTaken, Place, Inv, TypeOK
<1>4. ASSUME NEW c \in Containers, SeedRaises(c) PROVE Inv'
      BY <1>4, LeavingKeeps DEF SeedRaises, Place, Inv, TypeOK
<1>5. ASSUME NEW c \in Containers, SeedCommits(c) PROVE Inv'
      BY <1>5, CommitKeeps
<1>6. ASSUME NEW c \in Containers, Stop(c) PROVE Inv'
  <2>1. crashes' \in Nat  BY <1>6 DEF Stop, Inv, TypeOK
  <2>. QED  BY <1>6, <2>1, LeavingKeeps DEF Stop, Place
<1>7. ASSUME Served, Administer PROVE Inv'
      BY <1>7, AdministerKeeps
<1>8. CASE UNCHANGED vars
      BY <1>8 DEF Inv, TypeOK, SeededOnce, ServesSeeded, SeenHolds, InsertsAlone
<1>. QED  BY <1>1, <1>2, <1>3, <1>4, <1>5, <1>6, <1>7, <1>8 DEF Next, SeedNext

LEMMA KeepsStep ==
    ASSUME Inv, [Next]_vars, NEW c \in Containers, tenant,
           pc[c] # "serving", pc'[c] = "serving"
    PROVE  UNCHANGED << channels, active, bots, tuned >>
<1>1. SeedCommits(c)
  <2>1. ASSUME NEW d \in Containers, Start(d) PROVE FALSE
        BY <2>1 DEF Start, GoTo, Inv, TypeOK
  <2>2. ASSUME NEW d \in Containers, InsertTenant(d) PROVE FALSE
        BY <2>2 DEF InsertTenant, GoTo, Inv, TypeOK
  <2>3. ASSUME NEW d \in Containers, TenantTaken(d) \/ SeedRaises(d) \/ Stop(d) PROVE FALSE
        BY <2>3 DEF TenantTaken, SeedRaises, Stop, Leave, GoTo, Inv, TypeOK
  <2>4. ASSUME NEW d \in Containers, SeedCommits(d), d # c PROVE FALSE
        BY <2>4 DEF SeedCommits, Leave, GoTo, Inv, TypeOK
  <2>5. ASSUME Administer PROVE FALSE
        BY <2>5 DEF Administer, CreateChannel, PatchChannel, PutBotConfig, CreateItem, DeleteItem
  <2>. QED  BY <2>1, <2>2, <2>3, <2>4, <2>5 DEF Next, SeedNext
<1>2. seen[c].tenant  BY <1>1 DEF SeedCommits, Inv, InsertsAlone
<1>3. seen[c].bots > 0 /\ \A y \in Type : seen[c].channels[y] > 0
      BY <1>2 DEF Inv, SeenHolds
<1>4. bots' = bots
      BY <1>1, <1>3 DEF SeedCommits, Ensured
<1>5. channels' = channels /\ active' = active
  <2>1. channels' = [y \in Type |-> channels[y]] /\ active' = [y \in Type |-> active[y]]
        BY <1>1, <1>3 DEF SeedCommits, Ensured
  <2>. QED  BY <2>1 DEF Inv, TypeOK
<1>. QED  BY <1>1, <1>4, <1>5 DEF SeedCommits

THEOREM Invariance == Spec => []Inv
<1>. QED  BY InitInv, InvStep, PTL DEF Spec

\* Every variable keeps its type, whatever containers and administrators do.
THEOREM TypeCorrect == Spec => []TypeOK
<1>1. Inv => TypeOK  BY DEF Inv
<1>. QED  BY <1>1, Invariance, PTL

\* The default tenant, its agent and its bot configuration are created once,
\* and together with its channels, however many seeds run at the same time or
\* are stopped (seed.py 20-112).
THEOREM SeedIsSingle == Spec => []SeededOnce
<1>1. Inv => SeededOnce  BY DEF Inv
<1>. QED  BY <1>1, Invariance, PTL
\* A seed that finds the tenant leaves channels and configuration as the
\* administrators have made them (seed.py 3, "skip what exists").
THEOREM SeedSkipsWhatExists == Spec => SeedKeepsSettings
<1>1. Inv /\ [Next]_vars =>
        [\A c \in Containers :
           tenant /\ pc[c] # "serving" /\ pc'[c] = "serving"
               => UNCHANGED << channels, active, bots, tuned >>]_vars
      BY KeepsStep
<1>. QED  BY <1>1, Invariance, PTL DEF Spec, SeedKeepsSettings

(***************************************************************************)
(* The FAQ                                                                 *)
(***************************************************************************)

\* Whoever finds a tenant without any knowledge item knows that it was emptied,
\* since the tenant came with the FAQ; a snapshot without the tenant is empty.
NoItemsMeans(c) ==
    seen[c].items = 0 => ~seen[c].tenant \/ emptied

FaqInv ==
    /\ ~tenant => faqs = 0 /\ items = 0
    /\ tenant /\ faqs = 0 /\ items = 0 => emptied
    /\ \A c \in Containers : NoItemsMeans(c)
    /\ \A c \in Containers : ~seen[c].tenant => seen[c].items = 0
    /\ FaqTwiceOnlyIfEmptied

LEMMA FaqInit == Init => FaqInv
BY DEF Init, FaqInv, NoItemsMeans, Nothing, FaqTwiceOnlyIfEmptied

LEMMA FaqStart ==
    ASSUME Inv, FaqInv, NEW c \in Containers, Start(c)
    PROVE  FaqInv'
<1>1. UNCHANGED << tenant, faqs, items, emptied >>  BY DEF Start
<1>2. /\ seen'[c].tenant = tenant /\ seen'[c].items = faqs + items
      /\ \A d \in Containers \ {c} : seen'[d] = seen[d]
      BY DEF Start, Inv, TypeOK
<1>3. faqs + items = 0 <=> faqs = 0 /\ items = 0  BY DEF Inv, TypeOK
<1>. QED  BY <1>1, <1>2, <1>3 DEF FaqInv, NoItemsMeans, FaqTwiceOnlyIfEmptied

\* What a seed leaves is nobody's snapshot.
LEMMA FaqLeave ==
    ASSUME Inv, FaqInv, NEW c \in Containers, NEW l \in Place, Leave(c, l),
           UNCHANGED << rows, history >>
    PROVE  FaqInv'
<1>1. seen'[c] = Nothing /\ \A d \in Containers \ {c} : seen'[d] = seen[d]
      BY LeaveKeeps DEF Inv
<1>. QED  BY <1>1 DEF FaqInv, NoItemsMeans, Nothing, FaqTwiceOnlyIfEmptied

LEMMA FaqCommit ==
    ASSUME Inv, FaqInv, NEW c \in Containers, SeedCommits(c)
    PROVE  FaqInv'
<1>1. seen'[c] = Nothing /\ \A d \in Containers \ {c} : seen'[d] = seen[d]
      BY LeaveKeeps DEF Inv, SeedCommits, Place
<1>2. tenant' /\ UNCHANGED << items, emptied >> /\ faqs' = Ensured(faqs, seen[c].items)
      BY DEF SeedCommits
<1>3. /\ faqs' = 0 /\ items' = 0 => emptied'
      /\ FaqTwiceOnlyIfEmptied'
  <2>1. CASE ~seen[c].tenant
    <3>1. ~tenant  BY <2>1 DEF SeedCommits, Inv, InsertsAlone
    <3>2. faqs' = 1  BY <1>2, <2>1, <3>1 DEF FaqInv, Ensured
    <3>. QED  BY <3>2 DEF FaqTwiceOnlyIfEmptied
  <2>2. CASE seen[c].tenant /\ seen[c].items = 0
    <3>1. emptied'  BY <1>2, <2>2 DEF FaqInv, NoItemsMeans
    <3>. QED  BY <3>1 DEF FaqTwiceOnlyIfEmptied
  <2>3. CASE seen[c].tenant /\ seen[c].items # 0
    <3>1. tenant  BY <2>3 DEF Inv, SeenHolds
    <3>2. faqs' = faqs  BY <1>2, <2>3 DEF Ensured
    <3>. QED  BY <1>2, <3>1, <3>2 DEF FaqInv, FaqTwiceOnlyIfEmptied
  <2>. QED  BY <2>1, <2>2, <2>3
<1>. QED  BY <1>1, <1>2, <1>3 DEF FaqInv, NoItemsMeans, Nothing

LEMMA FaqAdminister ==
    ASSUME Inv, FaqInv, Served, Administer
    PROVE  FaqInv'
<1>1. tenant  BY DEF Served, Inv, ServesSeeded
<1>2. UNCHANGED << tenant, seen >>
      BY DEF Administer, CreateChannel, PatchChannel, PutBotConfig, CreateItem, DeleteItem
<1>3. /\ faqs' = 0 /\ items' = 0 => emptied'
      /\ emptied => emptied'
      /\ FaqTwiceOnlyIfEmptied'
  <2>1. ASSUME (\E y \in Type : CreateChannel(y) \/ PatchChannel(y)) \/ PutBotConfig
        PROVE  UNCHANGED << faqs, items, emptied >>
        BY <2>1 DEF CreateChannel, PatchChannel, PutBotConfig
  <2>2. ASSUME CreateItem
        PROVE  UNCHANGED << faqs, emptied >> /\ items' # 0
        BY <2>2 DEF CreateItem, Inv, TypeOK
  <2>3. ASSUME DeleteItem
        PROVE  /\ faqs' = 0 /\ items' = 0 => emptied'
               /\ emptied => emptied'
               /\ faqs' > 1 => faqs > 1
    <3>1. emptied' = (emptied \/ faqs + items = 1)  BY <2>3 DEF DeleteItem
    <3>2. faqs' = 0 /\ items' = 0 => faqs + items = 1
          BY <2>3 DEF DeleteItem, Inv, TypeOK
    <3>3. faqs' > 1 => faqs > 1  BY <2>3 DEF DeleteItem, Inv, TypeOK
    <3>. QED  BY <3>1, <3>2, <3>3, Zenon
  <2>. QED  BY <1>1, <2>1, <2>2, <2>3 DEF Administer, FaqInv, FaqTwiceOnlyIfEmptied
<1>. QED  BY <1>1, <1>2, <1>3 DEF FaqInv, NoItemsMeans

LEMMA FaqStep == Inv /\ FaqInv /\ [Next]_vars => FaqInv'
<1>. SUFFICES ASSUME Inv, FaqInv, [Next]_vars PROVE FaqInv'
     OBVIOUS
<1>1. ASSUME NEW c \in Containers, Start(c) PROVE FaqInv'
      BY <1>1, FaqStart
<1>2. ASSUME NEW c \in Containers, InsertTenant(c) PROVE FaqInv'
      BY <1>2 DEF InsertTenant, FaqInv, NoItemsMeans, FaqTwiceOnlyIfEmptied
<1>3. ASSUME NEW c \in Containers, TenantTaken(c) \/ SeedRaises(c) \/ Stop(c) PROVE FaqInv'
      BY <1>3, FaqLeave DEF TenantTaken, SeedRaises, Stop, Place
<1>4. ASSUME NEW c \in Containers, SeedCommits(c) PROVE FaqInv'
      BY <1>4, FaqCommit
<1>5. ASSUME Served, Administer PROVE FaqInv'
      BY <1>5, FaqAdminister
<1>6. CASE UNCHANGED vars
      BY <1>6 DEF FaqInv, NoItemsMeans, FaqTwiceOnlyIfEmptied
<1>. QED  BY <1>1, <1>2, <1>3, <1>4, <1>5, <1>6 DEF Next, SeedNext

\* The FAQ is put in twice only by seeds that found the knowledge base emptied,
\* however many containers start at the same time (seed.py 83-104).
THEOREM FaqOnce == Spec => []FaqTwiceOnlyIfEmptied
<1>1. FaqInv => FaqTwiceOnlyIfEmptied  BY DEF FaqInv
<1>. QED  BY <1>1, FaqInit, FaqStep, Invariance, PTL DEF Spec

(***************************************************************************)
(* The race for the tenant                                                 *)
(***************************************************************************)

\* A seed is lost only to one that has committed, and whose container serves
\* unless it was stopped.
RaceInv == /\ \A c \in Containers : pc[c] \in {"lost", "raised"} => tenant
           /\ tenant => Served \/ crashes > 0

\* As long as no container serves and none was stopped, either none has begun, or
\* one inserts the tenant and nothing keeps it from its commit, or none does and
\* every seed under way is free to: InsertTenant waits for no other.
RaceIsOpen ==
    \/ Served
    \/ crashes > 0
    \/ \E c \in Containers : pc[c] = "inserting"
    \/ ~tenant /\ \A c \in Containers : \/ pc[c] = "down"
                                        \/ pc[c] = "seeding" /\ ~seen[c].tenant

LEMMA RaceStep == Inv /\ RaceInv /\ [Next]_vars => RaceInv'
<1>. SUFFICES ASSUME Inv, RaceInv, [Next]_vars PROVE RaceInv'
     OBVIOUS
<1>1. ASSUME NEW c \in Containers, Start(c) \/ InsertTenant(c) PROVE RaceInv'
  <2>1. /\ pc[c] \in {"down", "seeding"} /\ pc'[c] \in {"seeding", "inserting"}
        /\ \A d \in Containers \ {c} : pc'[d] = pc[d]
        /\ UNCHANGED << tenant, crashes >>
        BY <1>1 DEF Start, InsertTenant, GoTo, Inv, TypeOK
  <2>. QED  BY <2>1 DEF RaceInv, Served
<1>2. ASSUME NEW c \in Containers, TenantTaken(c) \/ SeedRaises(c) PROVE RaceInv'
  <2>1. /\ tenant /\ pc[c] = "seeding"
        /\ \A d \in Containers \ {c} : pc'[d] = pc[d]
        /\ UNCHANGED << tenant, crashes >>
        BY <1>2 DEF TenantTaken, SeedRaises, Leave, GoTo, Inv, TypeOK, SeenHolds
  <2>. QED  BY <2>1 DEF RaceInv, Served
<1>3. ASSUME NEW c \in Containers, SeedCommits(c) PROVE RaceInv'
  <2>1. tenant' /\ pc'[c] = "serving"
        BY <1>3 DEF SeedCommits, Leave, GoTo, Inv, TypeOK
  <2>. QED  BY <2>1 DEF RaceInv, Served
<1>4. ASSUME NEW c \in Containers, Stop(c) PROVE RaceInv'
  <2>1. /\ pc'[c] = "down" /\ tenant' = tenant
        /\ \A d \in Containers \ {c} : pc'[d] = pc[d]
        BY <1>4 DEF Stop, Leave, GoTo, Inv, TypeOK
  <2>2. crashes' > 0  BY <1>4 DEF Stop, Inv, TypeOK
  <2>. QED  BY <2>1, <2>2 DEF RaceInv
<1>5. ASSUME Administer PROVE RaceInv'
  <2>1. UNCHANGED << tenant, pc, crashes >>
        BY <1>5 DEF Administer, CreateChannel, PatchChannel, PutBotConfig, CreateItem, DeleteItem
  <2>. QED  BY <2>1 DEF RaceInv, Served
<1>6. CASE UNCHANGED vars  BY <1>6 DEF RaceInv, Served
<1>. QED  BY <1>1, <1>2, <1>3, <1>4, <1>5, <1>6 DEF Next, SeedNext

\* Containers that start at once never all lose, and never wait for each other:
\* the safety that SomeoneServes rests on (seed.py 62-77, entrypoint.sh 2-13).
THEOREM RaceStaysOpen == Spec => []RaceIsOpen
<1>1. Init => RaceInv  BY DEF Init, RaceInv
<1>2. Inv /\ RaceInv => RaceIsOpen
      BY DEF Inv, TypeOK, Place, SeenHolds, RaceInv, RaceIsOpen, Served
<1>. QED  BY <1>1, <1>2, RaceStep, Invariance, PTL DEF Spec
=============================================================================
