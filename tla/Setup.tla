-------------------------------- MODULE Setup --------------------------------
(***************************************************************************)
(* What a backend container does before it serves, next to what the        *)
(* administrators do through those that serve: entrypoint.sh runs seed.py, *)
(* which looks for the default tenant, its agent, its channels, its bot    *)
(* configuration and its knowledge items and creates what is missing, all  *)
(* in one transaction; if it raises, the container ends.  Only the slug of *)
(* the tenant and the name of the agent have a unique index.               *)
(*                                                                         *)
(* The transaction reads from the snapshot of its first SELECT.  Another   *)
(* INSERT of the slug waits for it, and fails if it commits.               *)
(***************************************************************************)
EXTENDS Naturals, FiniteSets

CONSTANTS Containers,    \* backend containers
          MaxChannels,   \* bound: channels of one type
          MaxItems,      \* bound: knowledge items, the FAQ counted as one
          MaxCrashes     \* bound: containers that are stopped

ASSUME BoundAssumption == MaxChannels \in Nat /\ MaxItems \in Nat /\ MaxCrashes \in Nat

VARIABLES
    tenant,     \* the default tenant exists
    agents,     \* rows of its seeded agent
    bots,       \* rows of its bot configuration
    tuned,      \* an administrator has changed that configuration
    channels,   \* channels[y]: channels of type y
    active,     \* active[y]: how many of them are enabled
    faqs,       \* copies of the seeded FAQ
    items,      \* knowledge items that administrators created
    emptied,    \* an administrator has deleted the last knowledge item
    pc,         \* where each container stands
    seen,       \* seen[c]: what the snapshot of its seed holds
    crashes     \* how many were stopped so far

rows == << tenant, agents, bots, channels, active, faqs, items >>
history == << tuned, emptied >>
containers == << pc, seen >>
vars == << rows, history, containers, crashes >>

Type == {"widget", "webhook"}

\* lost: another seed created the tenant; raised: a SELECT for one row found two.
Place == {"down", "seeding", "inserting", "serving", "lost", "raised"}

Rows == [tenant : BOOLEAN, agents : Nat, bots : Nat, channels : [Type -> Nat], items : Nat]

Nothing == [tenant |-> FALSE, agents |-> 0, bots |-> 0,
            channels |-> [y \in Type |-> 0], items |-> 0]

TypeOK ==
    /\ tenant \in BOOLEAN
    /\ agents \in Nat /\ bots \in Nat
    /\ channels \in [Type -> Nat] /\ active \in [Type -> Nat]
    /\ faqs \in Nat /\ items \in Nat
    /\ tuned \in BOOLEAN /\ emptied \in BOOLEAN
    /\ pc \in [Containers -> Place]
    /\ seen \in [Containers -> Rows]
    /\ crashes \in Nat

\* The migrations leave empty tables.
Init ==
    /\ tenant = FALSE
    /\ agents = 0 /\ bots = 0
    /\ channels = [y \in Type |-> 0] /\ active = [y \in Type |-> 0]
    /\ faqs = 0 /\ items = 0
    /\ tuned = FALSE /\ emptied = FALSE
    /\ pc = [c \in Containers |-> "down"]
    /\ seen = [c \in Containers |-> Nothing]
    /\ crashes = 0
-----------------------------------------------------------------------------
(* seed.py                                                                 *)

GoTo(c, l) == pc' = [pc EXCEPT ![c] = l]

\* Fault: only the FAQ's own rows are counted.
StartCountingFaqs(c) ==
    /\ pc[c] = "down"
    /\ GoTo(c, "seeding")
    /\ seen' = [seen EXCEPT ![c] = [tenant |-> tenant, agents |-> agents, bots |-> bots,
                                    channels |-> channels, items |-> faqs]]
    /\ UNCHANGED << rows, history, crashes >>

\* The container starts; the SELECT of the tenant takes the snapshot.
Start(c) ==
    /\ pc[c] = "down"
    /\ GoTo(c, "seeding")
    /\ seen' = [seen EXCEPT ![c] = [tenant |-> tenant, agents |-> agents, bots |-> bots,
                                    channels |-> channels, items |-> faqs + items]]
    /\ UNCHANGED << rows, history, crashes >>

\* The seed is over.
Leave(c, l) == GoTo(c, l) /\ seen' = [seen EXCEPT ![c] = Nothing]

\* Fault: nothing keeps two tenants with one slug apart.
InsertTenantAnyway(c) ==
    /\ pc[c] = "seeding" /\ ~seen[c].tenant
    /\ GoTo(c, "inserting")
    /\ UNCHANGED << rows, history, seen, crashes >>

\* Fault: every seed locks the slug when it looks for it, and waits for the others.
InsertTenantLocking(c) ==
    /\ pc[c] = "seeding" /\ ~seen[c].tenant
    /\ ~tenant
    /\ \A d \in Containers \ {c} : pc[d] \notin {"seeding", "inserting"}
    /\ GoTo(c, "inserting")
    /\ UNCHANGED << rows, history, seen, crashes >>

\* The tenant's INSERT: it waits for an uncommitted one.
InsertTenant(c) ==
    /\ pc[c] = "seeding" /\ ~seen[c].tenant
    /\ ~tenant
    /\ \A d \in Containers : pc[d] # "inserting"
    /\ GoTo(c, "inserting")
    /\ UNCHANGED << rows, history, seen, crashes >>

\* The unique index of the slug: the script ends with the exception.
TenantTaken(c) ==
    /\ pc[c] = "seeding" /\ ~seen[c].tenant
    /\ tenant
    /\ Leave(c, "lost")
    /\ UNCHANGED << rows, history, crashes >>

\* scalar_one_or_none raises for more than one row.
Ambiguous(c) == \/ seen[c].agents > 1 \/ seen[c].bots > 1
                \/ \E y \in Type : seen[c].channels[y] > 1

SeedRaises(c) ==
    /\ pc[c] = "seeding" /\ seen[c].tenant
    /\ Ambiguous(c)
    /\ Leave(c, "raised")
    /\ UNCHANGED << rows, history, crashes >>

\* One row more, if the snapshot has none.
Ensured(n, s) == IF s = 0 THEN n + 1 ELSE n

\* Fault: a channel that exists is enabled again.
SeedCommitsEnabling(c) ==
    /\ \/ pc[c] = "inserting"
       \/ pc[c] = "seeding" /\ seen[c].tenant /\ ~Ambiguous(c)
    /\ tenant' = TRUE
    /\ agents' = Ensured(agents, seen[c].agents)
    /\ bots' = Ensured(bots, seen[c].bots)
    /\ channels' = [y \in Type |-> Ensured(channels[y], seen[c].channels[y])]
    /\ active' = channels'
    /\ faqs' = Ensured(faqs, seen[c].items)
    /\ Leave(c, "serving")
    /\ UNCHANGED << items, history, crashes >>

\* What is missing in the snapshot is created, and the API starts.
SeedCommits(c) ==
    /\ \/ pc[c] = "inserting"
       \/ pc[c] = "seeding" /\ seen[c].tenant /\ ~Ambiguous(c)
    /\ tenant' = TRUE
    /\ agents' = Ensured(agents, seen[c].agents)
    /\ bots' = Ensured(bots, seen[c].bots)
    /\ channels' = [y \in Type |-> Ensured(channels[y], seen[c].channels[y])]
    /\ active' = [y \in Type |-> Ensured(active[y], seen[c].channels[y])]
    /\ faqs' = Ensured(faqs, seen[c].items)
    /\ Leave(c, "serving")
    /\ UNCHANGED << items, history, crashes >>

\* The container is stopped, with its transaction if there is one, or one that
\* has ended by itself is started by hand.
Stop(c) ==
    /\ pc[c] # "down"
    /\ crashes < MaxCrashes
    /\ crashes' = crashes + 1
    /\ Leave(c, "down")
    /\ UNCHANGED << rows, history >>
-----------------------------------------------------------------------------
(* The administrators' requests, to any container that serves.             *)

Served == \E c \in Containers : pc[c] = "serving"

\* POST /channels
CreateChannel(y) ==
    /\ channels[y] < MaxChannels
    /\ channels' = [channels EXCEPT ![y] = @ + 1]
    /\ active' = [active EXCEPT ![y] = @ + 1]
    /\ UNCHANGED << tenant, agents, bots, faqs, items, history, containers, crashes >>

\* Fault: disabling counts a channel that is disabled already.
PatchChannelTwice(y) ==
    /\ \/ active' = [active EXCEPT ![y] = @ - 1]
       \/ active[y] < channels[y] /\ active' = [active EXCEPT ![y] = @ + 1]
    /\ UNCHANGED << tenant, agents, bots, channels, faqs, items, history, containers, crashes >>

\* PATCH /channels/{id}
PatchChannel(y) ==
    /\ \/ active[y] > 0 /\ active' = [active EXCEPT ![y] = @ - 1]
       \/ active[y] < channels[y] /\ active' = [active EXCEPT ![y] = @ + 1]
    /\ UNCHANGED << tenant, agents, bots, channels, faqs, items, history, containers, crashes >>

\* PUT /bot-config: 404 without the row, an exception with two.
PutBotConfig ==
    /\ bots = 1
    /\ tuned' = TRUE
    /\ UNCHANGED << rows, emptied, containers, crashes >>

\* POST /kb/items
CreateItem ==
    /\ faqs + items < MaxItems
    /\ items' = items + 1
    /\ UNCHANGED << tenant, agents, bots, channels, active, faqs, history, containers, crashes >>

\* DELETE /kb/items/{id}
DeleteItem ==
    /\ \/ faqs > 0 /\ faqs' = faqs - 1 /\ UNCHANGED items
       \/ items > 0 /\ items' = items - 1 /\ UNCHANGED faqs
    /\ emptied' = (emptied \/ faqs + items = 1)
    /\ UNCHANGED << tenant, agents, bots, channels, active, tuned, containers, crashes >>

SeedNext(c) == InsertTenant(c) \/ TenantTaken(c) \/ SeedRaises(c) \/ SeedCommits(c)

Administer == \/ \E y \in Type : CreateChannel(y) \/ PatchChannel(y)
              \/ PutBotConfig \/ CreateItem \/ DeleteItem

Next == \/ \E c \in Containers : Start(c) \/ SeedNext(c) \/ Stop(c)
        \/ Served /\ Administer

Spec == Init /\ [][Next]_vars

\* A script that has started goes on.
FairSpec == Spec /\ \A c \in Containers : WF_vars(SeedNext(c))
-----------------------------------------------------------------------------
\* However many containers start at once or die, the tenant is complete as soon
\* as it is there, with one agent and one bot configuration, which every turn
\* and every call of /bot-config selects as the only row (chat_service 31-36):
\* the slug's index serialises the one seed that creates them.
SeededOnce == IF tenant
                THEN agents = 1 /\ bots = 1 /\ \A y \in Type : channels[y] > 0
                ELSE agents = 0 /\ bots = 0 /\ \A y \in Type : channels[y] = 0

\* A seed that runs again leaves alone what administrators have made of
\* channels and configuration: it adds none where there is one, and enables none.
SeedKeepsSettings ==
    [][\A c \in Containers :
         tenant /\ pc[c] # "serving" /\ pc'[c] = "serving"
             => UNCHANGED << channels, active, bots, tuned >>]_vars

\* The FAQ is there twice only after somebody emptied the knowledge base: then
\* containers that start at once each put it back.
FaqTwiceOnlyIfEmptied == faqs > 1 => emptied

\* Of the containers that start on whatever is there, at least one gets to
\* serve: none waits for another for good, and not all of them lose.
SomeoneServes ==
    \A c \in Containers :
        pc[c] = "seeding" ~> Served \/ crashes > 0
                                \/ \E d \in Containers : pc[d] = "raised"

\* The script may run again and again, what exists is skipped (seed.py 3): it
\* does not fail on a tenant that is there.
SeedIsRepeatable == \A c \in Containers : pc[c] # "raised"
=============================================================================
