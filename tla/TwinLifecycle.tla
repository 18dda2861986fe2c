----------------------------- MODULE TwinLifecycle -----------------------------
(***************************************************************************)
(* One Twin on the chain and what the integration servers do to it through *)
(* the direct writer: creation, the calls that add children, the pruning   *)
(* of old states by the retention sweep, the bulk erasure of events and    *)
(* the deletion, batch by batch, with failures and retries.  The chain is  *)
(* external: it runs a transaction as a whole and only on objects that     *)
(* exist, charges the Twin's subscription for what is added, and deletes a *)
(* Twin only when its child table is empty.  Its owner may activate the    *)
(* access policy on the chain, which makes it a version-2 Twin.            *)
(***************************************************************************)
EXTENDS Naturals, FiniteSets, FiniteSetsExt

CONSTANTS
    Servers,           \* how many there are; each runs one cleanup of the Twin at a time
    Sweepers,          \* those where the pruning of states is enabled
    Requests,          \* clients, each with one request at a time
    Subscriptions,
    Registries,        \* child registries a Twin may start with
    Streams,           \* aspect and sample type
    Credits,           \* what each subscription may still add
    Batch,             \* calls in one transaction
    MaxBatches,        \* transactions of one request
    MaxPrunes,         \* prunes of one sweep
    Retention,         \* age at which a state may be pruned
    MaxClock,          \* bound
    MaxFailures,       \* bound
    None

ASSUME LifecycleAssumption ==
    /\ {Servers, Credits, Batch, MaxBatches, MaxPrunes, Retention, MaxClock, MaxFailures} \subseteq Nat
    /\ None \notin Nat

VARIABLES
    twin,              \* on the chain: the Twin
    children,          \* on the chain: its registered children
    nextId,            \* on the chain: the next object identifier
    credits,           \* on the chain: what the subscriptions have left
    clock,
    op,                \* the requests
    sweep,             \* the retention run of each server
    failures,          \* calls that failed
    published,         \* history: the states published, with the time
    pruned,            \* history: the states pruned, with the time
    erased             \* history: events a deletion erased, with the first identifier after its start

chain == <<twin, children, nextId, credits>>
history == <<published, pruned, erased>>
vars == <<twin, children, nextId, credits, clock, op, sweep, failures, published, pruned, erased>>

Simple == {"simple", "state", "composition", "assessment", "event"}
Parent == [member |-> "composition", indicator |-> "assessment", network |-> "interface"]
Types == Simple \cup {"interface"} \cup DOMAIN Parent

OfType(C, t) == {c \in C : c.type = t}
Ids(C) == {c.id : c \in C}
Events(C) == OfType(C, "event")

(* External: a Twin of the first contract has no version.                  *)
Versions == {"none", "1", "2"}
Twins == [at : {"none", "live", "gone"}, sub : Subscriptions, version : Versions, prepared : BOOLEAN]

(* External: what the chain keeps of an object, whose type may be foreign  *)
(* to this program and whose hash is empty, a digest or anything else.     *)
Hashes == {"", "digest", "other"}
Objects ==
    [id : Nat, type : (Types \cup {"foreign"}) \ {"state", "event"}, of : Nat \cup {None}]
        \cup [id : Nat, type : {"state"}, of : {None}, stream : Streams, observed : Nat, hash : Hashes]
        \cup [id : Nat, type : {"event"}, of : Nat \cup {None}, hash : Hashes, created : Nat]

Idle == [pc |-> "idle", kind |-> None, sub |-> None, snap |-> {}, n |-> 0, from |-> 0]
NoSweep == [todo |-> {}, n |-> 0]

Init ==
    /\ \E R \in Registries :
          /\ twin = R.twin
          /\ children = R.children
          /\ nextId = Cardinality(R.children)
          /\ published = {[state |-> x, at |-> 0] : x \in OfType(R.children, "state")}
    /\ credits = [a \in Subscriptions |-> Credits]
    /\ clock = 0
    /\ op = [r \in Requests |-> Idle]
    /\ sweep = [s \in Sweepers |-> NoSweep]
    /\ failures = 0
    /\ pruned = {} /\ erased = {}
-------------------------------------------------------------------------------
(* planCleanup.  Every child is checked before any call is chosen.         *)
HasParent(C, c) ==
    c.type \in DOMAIN Parent => \E p \in OfType(C, Parent[c.type]) : p.id = c.of
WellFormed(C) == \A c \in C : c.type \in Types /\ HasParent(C, c)

Networks(C, c) == {n \in OfType(C, "network") : n.of = c.id}
CallFor(C, c) == Ids({c} \cup IF c.type = "interface" THEN Networks(C, c) ELSE {})
Calls(C) == {CallFor(C, c) : c \in C \ OfType(C, "network")}

(* At most Batch calls, events only once there is room for all the others. *)
Bounded(C) ==
    LET last == {{e} : e \in Ids(Events(C))}
    IN  {P \in SUBSET Calls(C) :
            /\ Cardinality(P) = Min({Batch, Cardinality(Calls(C))})
            /\ P \cap last # {} => Calls(C) \ last \subseteq P}

(* The plans the children allow in some order of the registry, each a set  *)
(* of calls; none when the plan is refused.                                *)
PlanCleanupFault(C) ==
    IF ~WellFormed(C) THEN {} ELSE Bounded(C)

PlanCleanup(C) ==
    LET single == IF OfType(C, "member") # {} THEN OfType(C, "member") ELSE OfType(C, "indicator")
    IN  IF ~WellFormed(C) THEN {}
        ELSE IF single # {} THEN {{{c.id}} : c \in single}
        ELSE {P \in Bounded(C) : \A c \in OfType(C, "interface") : Cardinality(Networks(C, c)) <= 1}
-------------------------------------------------------------------------------
Cleanups == {"delete", "events"}
Cleaning == {r \in Requests : op[r].kind \in Cleanups}

(* readSubscription: current, with something left. *)
Funded(a) == credits[a] > 0

(* validateTwinAccounting, and the capacity check of createTwin: a cleanup *)
(* needs no credits.                                                       *)
Accounted(k, a) ==
    IF k = "create"
    THEN twin.at = "none" /\ Funded(a)
    ELSE twin.at = "live" /\ twin.sub = a /\ (k \in Cleanups \/ Funded(a))

Ask(r, k, a) ==
    /\ op[r].pc = "idle"
    /\ Accounted(k, a)
    /\ op' = [op EXCEPT ![r] = [Idle EXCEPT !.pc = "submit", !.kind = k, !.sub = a]]
    /\ UNCHANGED <<chain, clock, sweep, failures, history>>

(* A server that is cleaning the Twin refuses; another one may accept.     *)
AskCleanup(r, k, a) ==
    /\ op[r].pc = "idle"
    /\ Cardinality(Cleaning) < Servers
    /\ Accounted(k, a)
    /\ op' = [op EXCEPT ![r] = [Idle EXCEPT !.pc = "first", !.kind = k, !.sub = a,
                                           !.from = IF k = "delete" THEN nextId ELSE 0]]
    /\ UNCHANGED <<chain, clock, sweep, failures, history>>

End(r) == op' = [op EXCEPT ![r] = Idle]

(* Any call of a request may fail, or take effect and seem to fail.        *)
Fail(r) ==
    /\ op[r].pc # "idle"
    /\ failures < MaxFailures
    /\ failures' = failures + 1
    /\ End(r)
    /\ UNCHANGED <<chain, clock, sweep, history>>
-------------------------------------------------------------------------------
(* External: the objects a call leaves on the chain.                       *)
Child(i, t, of) == [id |-> nextId + i, type |-> t, of |-> of]
State(i, x, o) == [id |-> nextId + i, type |-> "state", of |-> None, stream |-> x, observed |-> o, hash |-> "digest"]
Event(i, of, h) == [id |-> nextId + i, type |-> "event", of |-> of, hash |-> h, created |-> clock]

NewInterface == {Child(0, "interface", None), Child(1, "network", nextId), Event(2, None, "")}
NewEvent == {Event(0, None, "")}
NewState(x, o) == {State(0, x, o), Event(1, nextId, "digest")}

Added == {NewInterface, NewEvent} \cup {NewState(x, o) : x \in Streams, o \in 0 .. clock}

Charge(a) == credits' = [credits EXCEPT ![a] = @ - 1]

CreateTwin(r) ==
    /\ op[r].pc = "submit" /\ op[r].kind = "create"
    /\ IF twin.at = "none" /\ Funded(op[r].sub)
       THEN /\ twin' = [at |-> "live", sub |-> op[r].sub, version |-> "1", prepared |-> FALSE]
            /\ children' = {Event(0, None, "")}
            /\ nextId' = nextId + 1
            /\ Charge(op[r].sub)
       ELSE UNCHANGED chain
    /\ End(r)
    /\ UNCHANGED <<clock, sweep, failures, history>>

(* publishState, addInterface, createComposition, emitTwinEvent and the    *)
(* other calls that add a child.                                           *)
TwinCall(r) ==
    /\ op[r].pc = "submit" /\ op[r].kind = "write"
    /\ IF twin.at = "live" /\ Funded(op[r].sub)
       THEN \E A \in Added :
               /\ children' = children \cup A
               /\ nextId' = nextId + Cardinality(A)
               /\ published' = published \cup {[state |-> x, at |-> clock] : x \in OfType(A, "state")}
               /\ Charge(op[r].sub)
       ELSE UNCHANGED <<children, nextId, credits, published>>
    /\ End(r)
    /\ UNCHANGED <<twin, clock, sweep, failures, pruned, erased>>
-------------------------------------------------------------------------------
(* External: the owner activates the policy, on the chain and for good.    *)
Activate ==
    /\ twin.at = "live" /\ twin.version = "1"
    /\ twin' = [twin EXCEPT !.version = "2"]
    /\ UNCHANGED <<children, nextId, credits, clock, op, sweep, failures, history>>

(* External: whether the calls of a cleanup that began before run on a     *)
(* Twin of version 2 is not for this program to say; they may be refused.  *)
Refused(r) ==
    /\ twin.version = "2" /\ op[r].pc \in {"prepare", "act"}
    /\ End(r)
    /\ UNCHANGED <<chain, clock, sweep, failures, history>>

(* cleanupSnapshot: the registry as it was when every page and every child *)
(* was read.  A registry that changed meanwhile is refused: a failure; so  *)
(* is every Twin of version 2.                                             *)
ReadyFault(r) == twin.prepared
Ready(r) == twin.prepared /\ Events(children) = {}

(* The first snapshot decides whether and how the request begins.          *)
BeginFault(r) ==
    IF twin.version # "none"
    THEN {p \in {"prepare", "loop"} :
             /\ op[r].kind = "delete" => Ready(r)
             /\ p = "loop" <=> twin.prepared}
    ELSE {p \in {"legacy"} : op[r].kind = "delete"}

Begin(r) ==
    IF twin.version # "none"
    THEN {p \in {"prepare", "loop"} :
             /\ twin.version = "1"
             /\ PlanCleanup(children) # {}
             /\ op[r].kind = "delete" => Ready(r)
             /\ p = "loop" <=> twin.prepared}
    ELSE {p \in {"legacy"} : op[r].kind = "delete"}

FirstSnapshot(r) ==
    /\ op[r].pc = "first"
    /\ IF twin.at # "live" \/ Begin(r) = {}
       THEN End(r)
       ELSE \E p \in Begin(r) : op' = [op EXCEPT ![r].pc = p]
    /\ UNCHANGED <<chain, clock, sweep, failures, history>>

Snapshot(r) ==
    /\ op[r].pc = "loop"
    /\ IF twin.at # "live" \/ twin.version = "2"
       THEN End(r)
       ELSE op' = [op EXCEPT ![r].pc = "act", ![r].snap = children]
    /\ UNCHANGED <<chain, clock, sweep, failures, history>>

PrepareDelete(r) ==
    /\ op[r].pc = "prepare"
    /\ IF twin.at = "live"
       THEN twin' = [twin EXCEPT !.prepared = TRUE] /\ op' = [op EXCEPT ![r].pc = "loop"]
       ELSE UNCHANGED twin /\ End(r)
    /\ UNCHANGED <<children, nextId, credits, clock, sweep, failures, history>>

(* The batch went through: the next one, unless it was the last allowed.   *)
NextBatch(r) ==
    IF op[r].n + 1 < MaxBatches
    THEN op' = [op EXCEPT ![r].pc = "loop", ![r].snap = {}, ![r].n = @ + 1]
    ELSE End(r)

(* One transaction removes all of these objects, or none when one is gone. *)
Remove(r, ids) ==
    IF ids \subseteq Ids(children)
    THEN children' = {c \in children : c.id \notin ids} /\ NextBatch(r)
    ELSE UNCHANGED children /\ End(r)

DeleteTwinEvents(r) ==
    /\ op[r].pc = "act" /\ op[r].kind = "events"
    /\ LET E == Ids(Events(op[r].snap))
       IN  IF E = {}
           THEN UNCHANGED children /\ End(r)
           ELSE \E D \in SUBSET E : Cardinality(D) = Min({Batch, Cardinality(E)}) /\ Remove(r, D)
    /\ UNCHANGED <<twin, nextId, credits, clock, sweep, failures, history>>

CleanupBatch(r) ==
    /\ op[r].pc = "act" /\ op[r].kind = "delete" /\ op[r].snap # {}
    /\ IF PlanCleanup(op[r].snap) = {}
       THEN UNCHANGED <<children, erased>> /\ End(r)
       ELSE \E P \in PlanCleanup(op[r].snap) :
               /\ Remove(r, UNION P)
               /\ erased' = erased \cup {[id |-> e.id, from |-> op[r].from] : e \in Events(children \ children')}
    /\ UNCHANGED <<twin, nextId, credits, clock, sweep, failures, published, pruned>>

DeleteTwin(r) ==
    /\ op[r].pc = "act" /\ op[r].kind = "delete" /\ op[r].snap = {}
    /\ twin' = IF children = {} THEN [twin EXCEPT !.at = "gone"] ELSE twin
    /\ End(r)
    /\ UNCHANGED <<children, nextId, credits, clock, sweep, failures, history>>

(* A Twin of the first contract is deleted by a call like any other.       *)
DeleteLegacy(r) ==
    /\ op[r].pc = "legacy"
    /\ IF twin.at = "live" /\ Funded(op[r].sub)
       THEN twin' = [twin EXCEPT !.at = "gone"] /\ Charge(op[r].sub)
       ELSE UNCHANGED <<twin, credits>>
    /\ End(r)
    /\ UNCHANGED <<children, nextId, clock, sweep, failures, history>>
-------------------------------------------------------------------------------
(* pruneOnChainStates.  The states and the events are listed side by side, *)
(* each from an index that may lag behind the chain.                       *)
Indexed(t) == {{c \in OfType(children, t) : c.id < k} : k \in {nextId, nextId - 2}}

OlderFault(x, y) == x.id < y.id
Older(x, y) == x.observed < y.observed \/ (x.observed = y.observed /\ x.id < y.id)
Newest(S, x) == \A y \in S : y.stream = x.stream /\ y # x => Older(y, x)

CanCreateVerificationReceipt(x, e) == x.hash = "digest" /\ e.hash \in {"", x.hash}

Eligible(S, E) ==
    {x \in S :
        /\ ~Newest(S, x)
        /\ \E e \in E : e.of = x.id /\ e.created + Retention <= clock /\ CanCreateVerificationReceipt(x, e)}

ListStates(s) ==
    /\ sweep[s] = NoSweep /\ twin.at = "live"
    /\ \E S \in Indexed("state"), E \in Indexed("event") : sweep' = [sweep EXCEPT ![s].todo = Eligible(S, E)]
    /\ UNCHANGED <<chain, clock, op, failures, history>>

Prunable(x) == x \in children /\ twin.at = "live" /\ Funded(twin.sub)

(* The oldest of them goes, if it is there and the subscription of the     *)
(* Twin allows; the chain leaves a receipt with its hash.                  *)
PruneState(s, x) ==
    LET S == sweep[s].todo
        n == sweep[s].n + IF Prunable(x) THEN 1 ELSE 0
    IN  /\ x \in S /\ \A z \in S : z = x \/ Older(x, z)
        /\ IF Prunable(x)
           THEN /\ children' = (children \ {x}) \cup {Event(0, None, x.hash)}
                /\ nextId' = nextId + 1
                /\ pruned' = pruned \cup {[state |-> x, at |-> clock]}
           ELSE UNCHANGED <<children, nextId, pruned>>
        /\ sweep' = [sweep EXCEPT ![s] = IF S = {x} \/ n = MaxPrunes THEN NoSweep ELSE [todo |-> S \ {x}, n |-> n]]
        /\ UNCHANGED <<twin, credits, clock, op, failures, published, erased>>

Tick ==
    /\ clock < MaxClock
    /\ clock' = clock + 1
    /\ UNCHANGED <<chain, op, sweep, failures, history>>
-------------------------------------------------------------------------------
(* A run starts before the creation or with what the chain may hold: its   *)
(* objects are named in turn and belong to one that is there or to none,   *)
(* those of a prepared Twin can be cleaned, and a stream has a latest      *)
(* state, as finitely many always have.                                    *)
ASSUME RegistryAssumption ==
    \A R \in Registries :
        LET C == R.children IN
        /\ R.twin \in Twins /\ R.twin.at # "gone"
        /\ R.twin.prepared => WellFormed(C)
        /\ IsFiniteSet(C) /\ C \subseteq Objects
        /\ \A c \in C : c.id < Cardinality(C) /\ c.of \in {None} \cup Ids(C)
        /\ \A c, d \in C : c.id = d.id => c = d
        /\ \A x \in OfType(C, "state") :
              \E m \in OfType(C, "state") :
                  /\ m.stream = x.stream
                  /\ \A z \in OfType(C, "state") : z.stream = x.stream => z = m \/ Older(z, m)

Step(r) ==
    \/ CreateTwin(r) \/ TwinCall(r)
    \/ FirstSnapshot(r) \/ Snapshot(r) \/ PrepareDelete(r)
    \/ DeleteTwinEvents(r) \/ CleanupBatch(r) \/ DeleteTwin(r) \/ DeleteLegacy(r)
    \/ Refused(r)

Next ==
    \/ \E r \in Requests, a \in Subscriptions :
          \/ \E k \in {"create", "write"} : Ask(r, k, a)
          \/ \E k \in Cleanups : AskCleanup(r, k, a)
    \/ \E r \in Requests : Step(r) \/ Fail(r)
    \/ \E s \in Sweepers : ListStates(s) \/ \E x \in sweep[s].todo : PruneState(s, x)
    \/ Activate \/ Tick

Spec == Init /\ [][Next]_vars

(* Whatever a server began goes on, and the owner asks again, for the      *)
(* erasure of the events and for the deletion, until the Twin is gone.     *)
FairSpec ==
    /\ Spec
    /\ \A r \in Requests : WF_vars(Step(r))
    /\ \A k \in Cleanups : SF_vars(\E r \in Requests : AskCleanup(r, k, twin.sub))
-------------------------------------------------------------------------------
(* Preparation cannot be undone, so the children of a prepared Twin can be *)
(* cleaned to the end, whoever goes on with it: each is of a type that     *)
(* planCleanup knows and no batch, of any server, took the parent of a     *)
(* child that is still there.                                              *)
PreparedIsFinishable ==
    twin.at = "live" /\ twin.prepared => WellFormed(children)

(* The Digital Thread a Twin had when its deletion was requested is erased *)
(* by the bulk action only: a deletion removes no event but those recorded *)
(* while it ran.                                                           *)
ErasedInBulkOnly == \A e \in erased : e.id >= e.from

(* Retention prunes a state only when its period is over and a later state *)
(* of the same stream was published and not pruned, whatever is published, *)
(* pruned and listed meanwhile.                                            *)
PrunedIsSuperseded ==
    \A p \in pruned :
        /\ \E q \in published : q.state = p.state /\ q.at + Retention <= p.at
        /\ \E q \in published :
              /\ q.state.stream = p.state.stream
              /\ q.state.observed >= p.state.observed /\ q.state # p.state
              /\ \A z \in pruned : z.state # q.state

(* A deletion that is retried comes to its end: however batches, bounds,   *)
(* failures, other servers and late writes cut it short.  Only the owner's *)
(* activation of the policy ends it otherwise: a Twin of version 2 is      *)
(* refused from its next snapshot on.                                      *)
DeletionCompletes ==
    twin.at = "live" /\ twin.version = "1" /\ WellFormed(children) ~> twin.at = "gone" \/ twin.version = "2"

(* "An active Admin has the same Twin capabilities as its owner: ...       *)
(* ownership transfer and deletion" (docs/TWIN_ADMINISTRATION.md:13-15): a *)
(* Twin of version 2, the only one that has Admins, is deleted like        *)
(* another when its deletion is retried.                                   *)
AdministeredIsDeletable ==
    twin.at = "live" /\ twin.version = "2" /\ WellFormed(children) ~> twin.at = "gone"
=============================================================================
