-------------------------- MODULE TwinLifecycleProofs --------------------------
(***************************************************************************)
(* Proofs about TwinLifecycle for any number of servers, requests, streams *)
(* and objects, any sizes of a batch and of a sweep.                       *)
(***************************************************************************)
EXTENDS TwinLifecycle, FiniteSetTheorems, TLAPS

Pcs == {"idle", "submit", "first", "prepare", "loop", "act", "legacy"}
States == [id : Nat, type : {"state"}, of : {None}, stream : Streams, observed : Nat, hash : Hashes]
Times == [state : States, at : Nat]

Operations ==
    {o \in [pc : Pcs, kind : {"create", "write", None} \cup Cleanups, sub : Subscriptions \cup {None},
            snap : SUBSET Objects, n : Nat, from : Nat] : o.pc = "idle" \/ o.sub \in Subscriptions}

TypeOK ==
    /\ twin \in Twins
    /\ children \in SUBSET Objects
    /\ nextId \in Nat
    /\ credits \in [Subscriptions -> Nat]
    /\ clock \in Nat
    /\ op \in [Requests -> Operations]
    /\ sweep \in [Sweepers -> [todo : SUBSET States, n : Nat]]
    /\ failures \in Nat
    /\ published \in SUBSET Times
    /\ pruned \in SUBSET Times
    /\ erased \in SUBSET [id : Nat, from : Nat]

(* An identifier names one object, and an object belongs to an older one.  *)
Named ==
    /\ \A c \in children : c.id < nextId /\ (c.of # None => c.of < nextId)
    /\ \A c, d \in children : c.id = d.id => c = d
    /\ \A q \in published : q.state.id < nextId

(* What a request has read: no identifier of it names another child now,   *)
(* and the children whose parents it may remove have not grown.            *)
Acting(r) == op[r].pc = "act"

SnapshotHolds ==
    \A r \in Requests : Acting(r) =>
        /\ \A c \in op[r].snap : c.id < nextId /\ \A d \in children : c.id = d.id => c = d
        /\ \A d \in children : d.type \in {"member", "indicator"} => d \in op[r].snap
        /\ \A d \in children, c \in op[r].snap :
              d.type = "network" /\ c.type = "interface" /\ d.of = c.id => d \in op[r].snap

(* From its first snapshot on a cleanup relies on a registry without gaps. *)
Committed(r) == op[r].pc \in {"prepare", "loop", "act"}

Cleanable == (twin.prepared \/ \E r \in Requests : Committed(r)) => WellFormed(children)

(* A deletion began when no event was left.                                *)
Erasing ==
    /\ \A r \in Requests : op[r].pc # "idle" /\ op[r].kind = "delete" =>
          /\ op[r].from <= nextId
          /\ Committed(r) => \A e \in Events(children) : e.id >= op[r].from
    /\ \A e \in erased : e.id >= e.from

(* What retention knows of a state: when it was published and that a later *)
(* one of its stream was.                                                  *)
Due(x, t) == \E q \in published : q.state = x /\ q.at + Retention <= t
Superseded(x) == \E q \in published : q.state.stream = x.stream /\ Older(x, q.state)

Dated ==
    /\ \A x \in OfType(children, "state") : \E q \in published : q.state = x
    /\ \A x \in OfType(children, "state"), e \in Events(children) :
          e.of = x.id => \E q \in published : q.state = x /\ q.at <= e.created

Retained ==
    /\ \A s \in Sweepers : \A x \in sweep[s].todo : Due(x, clock) /\ Superseded(x)
    /\ \A p \in pruned : Due(p.state, p.at) /\ Superseded(p.state)

(* Every stream that was published has a latest state.                     *)
Latest ==
    /\ \A q, z \in published : q.state.id = z.state.id => q.state = z.state
    /\ \A q \in published : \E m \in published :
          /\ m.state.stream = q.state.stream
          /\ \A z \in published : z.state.stream = q.state.stream => z.state = m.state \/ Older(z.state, m.state)

IndInv ==
    /\ TypeOK /\ Named /\ SnapshotHolds /\ Cleanable /\ Erasing
    /\ Dated /\ Retained /\ Latest
-------------------------------------------------------------------------------
(* Objects and the order of states. *)
LEMMA ObjectFacts ==
  /\ None \notin Nat
  /\ \A c \in Objects : c.id \in Nat /\ c.of \in Nat \cup {None}
  /\ \A c \in Objects : c.type = "state" => c \in States
  /\ \A c \in Objects : c.type = "event" => c.created \in Nat
  /\ States \subseteq Objects
  <1>1. None \notin Nat
    BY LifecycleAssumption
  <1>2. \A c \in Objects : c.id \in Nat /\ c.of \in Nat \cup {None}
    BY DEF Objects
  <1>3. \A c \in Objects : c.type = "state" => c \in States
    BY DEF Objects, States
  <1>4. \A c \in Objects : c.type = "event" => c.created \in Nat
    BY DEF Objects
  <1>5. States \subseteq Objects
    BY DEF Objects, States
  <1> QED
    BY <1>1, <1>2, <1>3, <1>4, <1>5

LEMMA OlderIsOrder ==
  /\ \A x \in States : ~Older(x, x)
  /\ \A x, y \in States : x.id # y.id => Older(x, y) \/ Older(y, x)
  /\ \A x, y, z \in States : Older(x, y) /\ Older(y, z) => Older(x, z)
  <1>1. \A x \in States : x.observed \in Nat /\ x.id \in Nat
    BY DEF States
  <1> QED
    BY <1>1 DEF Older

(* What a step may do to the registry: objects go, and new ones come with  *)
(* new identifiers, belonging to each other or to none.                    *)
New(A) ==
    /\ A \subseteq Objects /\ nextId' \in Nat /\ nextId <= nextId'
    /\ \A c \in A : /\ nextId <= c.id /\ c.id < nextId' /\ c.type \notin {"member", "indicator"}
                    /\ c.of # None => nextId <= c.of /\ c.of < nextId'
    /\ \A c, d \in A : c.id = d.id => c = d

Grown(A) ==
    /\ New(A) /\ children' \subseteq children \cup A
    /\ published \subseteq published' /\ published' \subseteq published \cup {q \in Times : q.state \in A}

LEMMA NamedKept ==
  ASSUME IndInv, NEW A, Grown(A)
  PROVE  Named'
  <1>1. \A c \in children : c \in Objects /\ c.id < nextId /\ (c.of # None => c.of < nextId)
    BY DEF IndInv, TypeOK, Named
  <1>2. \A c \in children \cup A : c.id \in Nat /\ c.of \in Nat \cup {None}
    BY <1>1, ObjectFacts DEF Grown, New
  <1>3. nextId \in Nat /\ nextId' \in Nat /\ nextId <= nextId'
    BY DEF IndInv, TypeOK, Grown, New
  <1>4. \A c \in children' : c.id < nextId' /\ (c.of # None => c.of < nextId')
    BY <1>1, <1>2, <1>3 DEF Grown, New
  <1>5. ASSUME NEW c \in children', NEW d \in children', c.id = d.id
        PROVE  c = d
    <2>1. \A x \in children : x.id < nextId
      BY <1>1
    <2>2. \A x \in A : nextId <= x.id
      BY DEF Grown, New
    <2>3. \A x \in children, y \in A : x.id # y.id
      BY <1>2, <1>3, <2>1, <2>2
    <2> QED
      BY <1>5, <2>3 DEF IndInv, Named, Grown, New
  <1>6. \A q \in published' : q.state.id < nextId'
    <2>1. \A q \in published : q.state.id < nextId /\ q.state.id \in Nat
      BY DEF IndInv, Named, TypeOK, Times, States
    <2> QED
      BY <1>3, <2>1 DEF Grown, New
  <1> QED
    BY <1>4, <1>5, <1>6 DEF Named

(* Requests keep what they have read or read what is there.                *)
Calm ==
    \A r \in Requests : Acting(r)' =>
        \/ Acting(r) /\ op'[r].snap = op[r].snap
        \/ op'[r].snap = children /\ UNCHANGED <<children, nextId>>

LEMMA SnapshotKept ==
  ASSUME IndInv, NEW A, Grown(A), Calm
  PROVE  SnapshotHolds'
  <1> SUFFICES ASSUME NEW r \in Requests, Acting(r)'
               PROVE  /\ \A c \in op'[r].snap : c.id < nextId' /\ \A d \in children' : c.id = d.id => c = d
                      /\ \A d \in children' : d.type \in {"member", "indicator"} => d \in op'[r].snap
                      /\ \A d \in children', c \in op'[r].snap :
                            d.type = "network" /\ c.type = "interface" /\ d.of = c.id => d \in op'[r].snap
    BY DEF SnapshotHolds
  <1>1. nextId \in Nat /\ nextId' \in Nat /\ nextId <= nextId'
    BY DEF IndInv, TypeOK, Grown, New
  <1>2. CASE op'[r].snap = children /\ UNCHANGED <<children, nextId>>
    BY <1>2 DEF IndInv, Named
  <1>3. CASE Acting(r) /\ op'[r].snap = op[r].snap
    <2>1. \A c \in op[r].snap : c.id \in Nat /\ c.id < nextId
      BY <1>3, ObjectFacts DEF IndInv, TypeOK, Operations, SnapshotHolds
    <2>2. \A d \in A : /\ d.id \in Nat /\ nextId <= d.id /\ d.type \notin {"member", "indicator"}
                       /\ d.of = None \/ (d.of \in Nat /\ nextId <= d.of)
      BY ObjectFacts DEF Grown, New
    <2>3. \A c \in op[r].snap, d \in A : c.id # d.id /\ d.of # c.id
      BY <1>1, <2>1, <2>2, ObjectFacts
    <2>4. \A c \in op[r].snap : c.id < nextId'
      BY <1>1, <2>1
    <2> QED
      BY <1>3, <2>2, <2>3, <2>4 DEF IndInv, SnapshotHolds, Grown
  <1> QED
    BY <1>2, <1>3 DEF Calm

(* A deletion commits itself only when no event is left.                   *)
Going ==
    \A r \in Requests : op'[r].pc # "idle" /\ op'[r].kind = "delete" =>
        \/ /\ op[r].pc # "idle" /\ op[r].kind = "delete" /\ op'[r].from = op[r].from
           /\ Committed(r)' => Committed(r) \/ (Events(children) = {} /\ UNCHANGED children)
        \/ op'[r].from = nextId /\ ~Committed(r)'

LEMMA ErasingKept ==
  ASSUME IndInv, NEW A, Grown(A), Going, \A e \in erased' : e \in erased \/ e.id >= e.from
  PROVE  Erasing'
  <1>1. nextId \in Nat /\ nextId' \in Nat /\ nextId <= nextId'
    BY DEF IndInv, TypeOK, Grown, New
  <1>2. ASSUME NEW r \in Requests, op'[r].pc # "idle", op'[r].kind = "delete"
        PROVE  op'[r].from <= nextId' /\ (Committed(r)' => \A e \in Events(children)' : e.id >= op'[r].from)
    <2>1. CASE op'[r].from = nextId /\ ~Committed(r)'
      BY <1>1, <2>1
    <2>2. CASE /\ op[r].pc # "idle" /\ op[r].kind = "delete" /\ op'[r].from = op[r].from
               /\ Committed(r)' => Committed(r) \/ (Events(children) = {} /\ UNCHANGED children)
      <3>1. op[r].from \in Nat /\ op[r].from <= nextId
        BY <2>2 DEF IndInv, TypeOK, Operations, Erasing
      <3>2. \A e \in A : e.id \in Nat /\ nextId <= e.id
        BY ObjectFacts DEF Grown, New
      <3>3. \A e \in A : e.id >= op[r].from
        BY <1>1, <3>1, <3>2
      <3>4. Committed(r) => \A e \in Events(children) : e.id >= op[r].from
        BY <2>2 DEF IndInv, Erasing
      <3>5. \A e \in Events(children)' : e \in Events(children) \/ e \in A
        BY DEF Events, OfType, Grown
      <3>6. UNCHANGED children => Events(children)' = Events(children)
        BY DEF Events, OfType
      <3> QED
        BY <1>1, <2>2, <3>1, <3>3, <3>4, <3>5, <3>6
    <2> QED
      BY <1>2, <2>1, <2>2 DEF Going
  <1>3. \A e \in erased' : e.id >= e.from
    BY DEF IndInv, Erasing
  <1> QED
    BY <1>2, <1>3 DEF Erasing

(* A new state is published with the event that belongs to it.             *)
Announced(A) ==
    /\ \A x \in OfType(A, "state") : \E q \in published' : q.state = x
    /\ \A x \in OfType(A, "state"), e \in Events(A) :
          e.of = x.id => \E q \in published' : q.state = x /\ q.at <= e.created

LEMMA DatedKept ==
  ASSUME IndInv, NEW A, Grown(A), Announced(A)
  PROVE  Dated'
  <1>1. /\ \A c \in children : c.id \in Nat /\ c.id < nextId
        /\ \A c \in children : c.of = None \/ (c.of \in Nat /\ c.of < nextId)
        /\ \A c \in A : c.id \in Nat /\ nextId <= c.id
        /\ \A c \in A : c.of = None \/ (c.of \in Nat /\ nextId <= c.of)
    BY ObjectFacts DEF IndInv, TypeOK, Named, Grown, New
  <1>2. nextId \in Nat /\ None \notin Nat
    BY ObjectFacts DEF IndInv, TypeOK
  <1>3. \A c \in children, d \in A : c.of # d.id /\ d.of # c.id
    BY <1>1, <1>2
  <1>4. children' \subseteq children \cup A /\ published \subseteq published'
    BY DEF Grown
  <1>5. \A x \in OfType(children, "state")' : \E q \in published' : q.state = x
    BY <1>4 DEF IndInv, Dated, Announced, OfType
  <1>6. ASSUME NEW x \in OfType(children, "state")', NEW e \in Events(children)', e.of = x.id
        PROVE  \E q \in published' : q.state = x /\ q.at <= e.created
    <2>1. /\ x \in OfType(children, "state") \/ x \in OfType(A, "state")
          /\ e \in Events(children) \/ e \in Events(A)
      BY <1>4 DEF OfType, Events
    <2>2. ~(x \in children /\ e \in A) /\ ~(x \in A /\ e \in children)
      BY <1>3, <1>6
    <2>3. CASE x \in OfType(children, "state") /\ e \in Events(children)
      BY <1>4, <1>6, <2>3 DEF IndInv, Dated
    <2>4. CASE x \in OfType(A, "state") /\ e \in Events(A)
      BY <1>6, <2>4 DEF Announced
    <2> QED
      BY <2>1, <2>2, <2>3, <2>4 DEF OfType, Events
  <1> QED
    BY <1>5, <1>6 DEF Dated

LEMMA RetainedKept ==
  ASSUME IndInv, published \subseteq published', clock' \in Nat, clock <= clock',
         \A s \in Sweepers : \A x \in sweep'[s].todo :
             x \in sweep[s].todo \/ (Due(x, clock) /\ Superseded(x)),
         \A p \in pruned' : p \in pruned \/ (Due(p.state, p.at) /\ Superseded(p.state))
  PROVE  Retained'
  <1>1. \A q \in published : q.at + Retention \in Nat
    BY LifecycleAssumption DEF IndInv, TypeOK, Times
  <1>2. clock \in Nat
    BY DEF IndInv, TypeOK
  <1>3. \A x : Due(x, clock) => Due(x, clock)'
    BY <1>1, <1>2 DEF Due
  <1>4. \A x : Superseded(x) => Superseded(x)'
    BY DEF Superseded
  <1>5. \A x, t : Due(x, t) => \E q \in published' : q.state = x /\ q.at + Retention <= t
    BY DEF Due
  <1>6. \A s \in Sweepers : \A x \in sweep'[s].todo : Due(x, clock)' /\ Superseded(x)'
    BY <1>3, <1>4 DEF IndInv, Retained
  <1>7. \A p \in pruned' : Due(p.state, p.at)' /\ Superseded(p.state)'
    BY <1>4, <1>5 DEF IndInv, Retained, Due
  <1> QED
    BY <1>6, <1>7 DEF Retained

(* A new state is the latest of its stream or the latest one stays. *)
LEMMA LatestKept ==
  ASSUME IndInv, NEW x \in States, x.id >= nextId, NEW t \in Nat,
         published' = published \cup {[state |-> x, at |-> t]}
  PROVE  Latest'
  <1> DEFINE new == [state |-> x, at |-> t]
             Last(m, P) == \A z \in P : z.state.stream = m.state.stream =>
                               z.state = m.state \/ Older(z.state, m.state)
  <1>1. /\ \A z \in published : z.state \in States /\ z.state.id \in Nat /\ z.state.id < nextId
        /\ nextId \in Nat /\ x.id \in Nat
    BY DEF IndInv, TypeOK, Times, States, Named
  <1>2. \A z \in published : z.state.id # x.id
    BY <1>1
  <1>3. \A q, z \in published' : q.state.id = z.state.id => q.state = z.state
    BY <1>2 DEF IndInv, Latest
  <1>4. ASSUME NEW q \in published
        PROVE  \E m \in published' : m.state.stream = q.state.stream /\ Last(m, published')
    <2>1. PICK m \in published : m.state.stream = q.state.stream /\ Last(m, published)
      BY DEF IndInv, Latest
    <2>2. CASE x.stream # m.state.stream \/ Older(x, m.state)
      <3>1. Last(m, published')
        BY <2>1, <2>2
      <3> QED
        BY <2>1, <3>1
    <2>3. CASE x.stream = m.state.stream /\ Older(m.state, x)
      <3>1. \A z \in published : z.state.stream = x.stream => Older(z.state, x)
        BY <1>1, <2>1, <2>3, OlderIsOrder
      <3>2. Last(new, published')
        BY <3>1
      <3> QED
        BY <2>1, <2>3, <3>2
    <2> QED
      BY <1>1, <1>2, <2>2, <2>3, OlderIsOrder
  <1>5. \E m \in published' : m.state.stream = x.stream /\ Last(m, published')
    <2>1. CASE \E q \in published : q.state.stream = x.stream
      BY <1>4, <2>1
    <2>2. CASE \A q \in published : q.state.stream # x.stream
      <3>1. Last(new, published')
        BY <2>2
      <3> QED
        BY <3>1
    <2> QED
      BY <2>1, <2>2
  <1>6. \A q \in published' : \E m \in published' : m.state.stream = q.state.stream /\ Last(m, published')
    BY <1>4, <1>5
  <1> QED
    BY <1>3, <1>6 DEF Latest
-------------------------------------------------------------------------------
(* Requests move one at a time. *)
LEMMA RequestMoves ==
  ASSUME IndInv, NEW r \in Requests, NEW o \in Operations, op' = [op EXCEPT ![r] = o]
  PROVE  op' \in [Requests -> Operations] /\ op'[r] = o /\ \A q \in Requests : q # r => op'[q] = op[q]
  BY DEF IndInv, TypeOK

LEMMA IdleIsOperation == Idle \in Operations /\ Idle.pc = "idle"
  BY DEF Idle, Operations, Pcs

LEMMA EndMoves ==
  ASSUME IndInv, NEW r \in Requests, End(r)
  PROVE  /\ op' \in [Requests -> Operations] /\ op'[r].pc = "idle"
         /\ \A q \in Requests : q # r => op'[q] = op[q]
  BY RequestMoves, IdleIsOperation DEF End

(* A step that leaves the registry alone. *)
LEMMA QuietInv ==
  ASSUME IndInv, TypeOK', UNCHANGED <<children, nextId, sweep, history>>, clock <= clock', Calm, Going,
         twin'.prepared \/ (\E r \in Requests : Committed(r)') => WellFormed(children)
  PROVE  IndInv'
  <1>1. Grown({})
    BY DEF IndInv, TypeOK, Grown, New, history
  <1>2. Named'
    BY <1>1, NamedKept
  <1>3. SnapshotHolds'
    BY <1>1, SnapshotKept
  <1>4. Cleanable'
    BY DEF Cleanable
  <1>5. Erasing'
    BY <1>1, ErasingKept DEF history
  <1>6. Dated'
    BY DEF IndInv, Dated, history
  <1>7. Retained'
    BY RetainedKept DEF TypeOK, history
  <1>8. Latest'
    BY DEF IndInv, Latest, history
  <1> QED
    BY <1>2, <1>3, <1>4, <1>5, <1>6, <1>7, <1>8 DEF IndInv

LEMMA EndInv ==
  ASSUME IndInv, NEW r \in Requests, End(r), UNCHANGED <<children, nextId, clock, sweep, history>>,
         twin' \in Twins,
         twin'.prepared => twin.prepared, credits' \in [Subscriptions -> Nat], failures' \in Nat
  PROVE  IndInv'
  <1>1. /\ op' \in [Requests -> Operations] /\ op'[r].pc = "idle"
        /\ \A q \in Requests : q # r => op'[q] = op[q]
    BY EndMoves
  <1>2. TypeOK'
    BY <1>1 DEF IndInv, TypeOK, history
  <1>3. Calm /\ Going
    BY <1>1 DEF Calm, Going, Acting, Committed
  <1>4. twin'.prepared \/ (\E q \in Requests : Committed(q)') => WellFormed(children)
    BY <1>1 DEF IndInv, Cleanable, Committed
  <1>5. clock <= clock'
    BY DEF IndInv, TypeOK
  <1> QED
    BY <1>2, <1>3, <1>4, <1>5, QuietInv

LEMMA AskInv ==
  ASSUME IndInv, NEW r \in Requests, NEW k \in {"create", "write"}, NEW a \in Subscriptions, Ask(r, k, a)
  PROVE  IndInv'
  <1> DEFINE o == [Idle EXCEPT !.pc = "submit", !.kind = k, !.sub = a]
  <1>1. o \in Operations /\ o.pc = "submit" /\ o.kind = k
    BY DEF Idle, Operations, Pcs
  <1>2. op' = [op EXCEPT ![r] = o]
    BY DEF Ask
  <1> HIDE DEF o
  <1>3. op' \in [Requests -> Operations] /\ op'[r] = o /\ \A q \in Requests : q # r => op'[q] = op[q]
    BY <1>1, <1>2, RequestMoves
  <1>4. UNCHANGED <<twin, children, nextId, credits, clock, sweep, failures, published, pruned, erased>>
    BY DEF Ask, chain, history
  <1>5. TypeOK'
    BY <1>3, <1>4 DEF IndInv, TypeOK
  <1>6. Calm /\ Going
    BY <1>1, <1>3 DEF Calm, Going, Acting, Committed
  <1>7. twin'.prepared \/ (\E q \in Requests : Committed(q)') => WellFormed(children)
    BY <1>1, <1>3, <1>4 DEF IndInv, Cleanable, Committed
  <1>8. clock <= clock'
    BY <1>4 DEF IndInv, TypeOK
  <1> QED
    BY <1>4, <1>5, <1>6, <1>7, <1>8, QuietInv DEF history

LEMMA AskCleanupInv ==
  ASSUME IndInv, NEW r \in Requests, NEW k \in Cleanups, NEW a \in Subscriptions, AskCleanup(r, k, a)
  PROVE  IndInv'
  <1> DEFINE o == [Idle EXCEPT !.pc = "first", !.kind = k, !.sub = a, !.from = IF k = "delete" THEN nextId ELSE 0]
  <1>1. o \in Operations /\ o.pc = "first" /\ o.kind = k /\ (k = "delete" => o.from = nextId)
    BY DEF Idle, Operations, Pcs, IndInv, TypeOK
  <1>2. op' = [op EXCEPT ![r] = o]
    BY DEF AskCleanup
  <1> HIDE DEF o
  <1>3. op' \in [Requests -> Operations] /\ op'[r] = o /\ \A q \in Requests : q # r => op'[q] = op[q]
    BY <1>1, <1>2, RequestMoves
  <1>4. UNCHANGED <<twin, children, nextId, credits, clock, sweep, failures, published, pruned, erased>>
    BY DEF AskCleanup, chain, history
  <1>5. TypeOK'
    BY <1>3, <1>4 DEF IndInv, TypeOK
  <1>6. Calm /\ Going
    BY <1>1, <1>3 DEF Calm, Going, Acting, Committed
  <1>7. twin'.prepared \/ (\E q \in Requests : Committed(q)') => WellFormed(children)
    BY <1>1, <1>3, <1>4 DEF IndInv, Cleanable, Committed
  <1>8. clock <= clock'
    BY <1>4 DEF IndInv, TypeOK
  <1> QED
    BY <1>4, <1>5, <1>6, <1>7, <1>8, QuietInv DEF history

LEMMA FailInv ==
  ASSUME IndInv, NEW r \in Requests, Fail(r)
  PROVE  IndInv'
  BY EndInv DEF Fail, IndInv, TypeOK, chain, history

LEMMA RefusedInv ==
  ASSUME IndInv, NEW r \in Requests, Refused(r)
  PROVE  IndInv'
  BY EndInv DEF Refused, IndInv, TypeOK, chain, history

(* Activation changes nothing of what a deletion relies on. *)
LEMMA ActivateInv ==
  ASSUME IndInv, Activate
  PROVE  IndInv'
  <1>1. UNCHANGED <<children, nextId, credits, clock, op, sweep, failures, published, pruned, erased>>
    BY DEF Activate, history
  <1>2. twin' \in Twins /\ twin'.prepared = twin.prepared
    BY DEF Activate, IndInv, TypeOK, Twins, Versions
  <1>3. TypeOK'
    BY <1>1, <1>2 DEF IndInv, TypeOK
  <1>4. Calm /\ Going
    BY <1>1 DEF Calm, Going, Acting, Committed
  <1>5. twin'.prepared \/ (\E q \in Requests : Committed(q)') => WellFormed(children)
    BY <1>1, <1>2 DEF IndInv, Cleanable, Committed
  <1>6. clock <= clock'
    BY <1>1 DEF IndInv, TypeOK
  <1> QED
    BY <1>1, <1>3, <1>4, <1>5, <1>6, QuietInv DEF history

-------------------------------------------------------------------------------
(* The phases of a cleanup. *)
LEMMA FirstSnapshotInv ==
  ASSUME IndInv, NEW r \in Requests, FirstSnapshot(r)
  PROVE  IndInv'
  <1>1. UNCHANGED <<twin, children, nextId, credits, clock, sweep, failures, published, pruned, erased>>
    BY DEF FirstSnapshot, chain, history
  <1>2. CASE End(r)
    BY <1>1, <1>2, EndInv DEF IndInv, TypeOK, history
  <1>3. ASSUME NEW p \in Begin(r), op' = [op EXCEPT ![r].pc = p]
        PROVE  IndInv'
    <2>1. op[r] \in Operations /\ op[r].pc = "first"
      BY DEF FirstSnapshot, IndInv, TypeOK
    <2>2. p \in Pcs /\ p # "act" /\ p # "idle"
      BY <1>3 DEF Begin, Pcs
    <2>3. p \in {"prepare", "loop"} => WellFormed(children)
      BY <1>3 DEF Begin, PlanCleanup
    <2>4. p \in {"prepare", "loop"} /\ op[r].kind = "delete" => Events(children) = {}
      BY <1>3 DEF Begin, Ready
    <2> DEFINE o == [op[r] EXCEPT !.pc = p]
    <2>5. o \in Operations /\ o.pc = p /\ o.kind = op[r].kind /\ o.from = op[r].from
      BY <2>1, <2>2 DEF Operations
    <2>6. op' = [op EXCEPT ![r] = o]
      BY <1>3
    <2> HIDE DEF o
    <2>7. op' \in [Requests -> Operations] /\ op'[r] = o /\ \A q \in Requests : q # r => op'[q] = op[q]
      BY <2>5, <2>6, RequestMoves
    <2>8. TypeOK'
      BY <1>1, <2>7 DEF IndInv, TypeOK
    <2>9. Calm /\ Going
      BY <1>1, <2>1, <2>2, <2>4, <2>5, <2>7 DEF Calm, Going, Acting, Committed
    <2>10. twin'.prepared \/ (\E q \in Requests : Committed(q)') => WellFormed(children)
      BY <1>1, <2>2, <2>3, <2>5, <2>7 DEF IndInv, Cleanable, Committed
    <2>11. clock <= clock'
      BY <1>1 DEF IndInv, TypeOK
    <2> QED
      BY <1>1, <2>8, <2>9, <2>10, <2>11, QuietInv DEF history
  <1> QED
    BY <1>2, <1>3 DEF FirstSnapshot

(* A committed request goes on. *)
LEMMA ContinueInv ==
  ASSUME IndInv, NEW r \in Requests, NEW o \in Operations, op' = [op EXCEPT ![r] = o],
         UNCHANGED <<children, nextId, credits, clock, sweep, failures, published, pruned, erased>>,
         twin' \in Twins,
         Committed(r), o.kind = op[r].kind, o.from = op[r].from, o.pc = "act" => o.snap = children
  PROVE  IndInv'
  <1>1. op' \in [Requests -> Operations] /\ op'[r] = o /\ \A q \in Requests : q # r => op'[q] = op[q]
    BY RequestMoves
  <1>2. TypeOK'
    BY <1>1 DEF IndInv, TypeOK
  <1>3. Calm /\ Going
    BY <1>1 DEF Calm, Going, Acting, Committed
  <1>4. WellFormed(children)
    BY DEF IndInv, Cleanable
  <1>5. clock <= clock'
    BY DEF IndInv, TypeOK
  <1> QED
    BY <1>2, <1>3, <1>4, <1>5, QuietInv DEF history

LEMMA SnapshotInv ==
  ASSUME IndInv, NEW r \in Requests, Snapshot(r)
  PROVE  IndInv'
  <1>1. UNCHANGED <<twin, children, nextId, credits, clock, sweep, failures, published, pruned, erased>>
    BY DEF Snapshot, chain, history
  <1>2. CASE End(r)
    BY <1>1, <1>2, EndInv DEF IndInv, TypeOK, history
  <1>3. CASE op' = [op EXCEPT ![r].pc = "act", ![r].snap = children]
    <2> DEFINE o == [op[r] EXCEPT !.pc = "act", !.snap = children]
    <2>1. op[r] \in Operations /\ op[r].pc = "loop" /\ children \in SUBSET Objects
      BY DEF Snapshot, IndInv, TypeOK
    <2>2. o \in Operations /\ o.kind = op[r].kind /\ o.from = op[r].from /\ o.snap = children
      BY <2>1 DEF Operations, Pcs
    <2>3. op' = [op EXCEPT ![r] = o]
      BY <1>3, <2>1 DEF IndInv, TypeOK, Operations
    <2> HIDE DEF o
    <2>4. Committed(r)
      BY DEF Snapshot, Committed
    <2> QED
      BY <1>1, <2>2, <2>3, <2>4, ContinueInv DEF IndInv, TypeOK
  <1> QED
    BY <1>2, <1>3 DEF Snapshot

LEMMA PrepareDeleteInv ==
  ASSUME IndInv, NEW r \in Requests, PrepareDelete(r)
  PROVE  IndInv'
  <1>1. UNCHANGED <<children, nextId, credits, clock, sweep, failures, published, pruned, erased>>
    BY DEF PrepareDelete, history
  <1>2. CASE UNCHANGED twin /\ End(r)
    BY <1>1, <1>2, EndInv DEF IndInv, TypeOK, history
  <1>3. CASE twin' = [twin EXCEPT !.prepared = TRUE] /\ op' = [op EXCEPT ![r].pc = "loop"]
    <2> DEFINE o == [op[r] EXCEPT !.pc = "loop"]
    <2>1. op[r] \in Operations /\ op[r].pc = "prepare"
      BY DEF PrepareDelete, IndInv, TypeOK
    <2>2. o \in Operations /\ o.kind = op[r].kind /\ o.from = op[r].from /\ o.pc = "loop"
      BY <2>1 DEF Operations, Pcs
    <2>3. op' = [op EXCEPT ![r] = o]
      BY <1>3
    <2> HIDE DEF o
    <2>4. Committed(r)
      BY DEF PrepareDelete, Committed
    <2>5. twin' \in Twins
      BY <1>3 DEF IndInv, TypeOK, Twins
    <2> QED
      BY <1>1, <2>2, <2>3, <2>4, <2>5, ContinueInv
  <1> QED
    BY <1>2, <1>3 DEF PrepareDelete

LEMMA DeleteTwinInv ==
  ASSUME IndInv, NEW r \in Requests, DeleteTwin(r)
  PROVE  IndInv'
  <1>1. /\ twin' \in Twins
        /\ twin'.prepared => twin.prepared
    BY DEF DeleteTwin, IndInv, TypeOK, Twins
  <1> QED
    BY <1>1, EndInv DEF DeleteTwin, IndInv, TypeOK

LEMMA Charged ==
  ASSUME IndInv, NEW a, Funded(a), Charge(a)
  PROVE  credits' \in [Subscriptions -> Nat]
  <1>1. a \in Subscriptions => credits[a] - 1 \in Nat
    BY DEF IndInv, TypeOK, Funded
  <1> QED
    BY <1>1 DEF Charge, IndInv, TypeOK

LEMMA DeleteLegacyInv ==
  ASSUME IndInv, NEW r \in Requests, DeleteLegacy(r)
  PROVE  IndInv'
  <1>1. /\ twin' \in Twins
        /\ twin'.prepared => twin.prepared
    BY DEF DeleteLegacy, IndInv, TypeOK, Twins
  <1>2. credits' \in [Subscriptions -> Nat]
    BY Charged DEF DeleteLegacy, IndInv, TypeOK
  <1> QED
    BY <1>1, <1>2, EndInv DEF DeleteLegacy, IndInv, TypeOK
-------------------------------------------------------------------------------
(* Steps that change the registry. *)
LEMMA RegistryInv ==
  ASSUME IndInv, TypeOK', NEW A, Grown(A), Announced(A), Calm, Going, Cleanable', Retained', Latest',
         \A e \in erased' : e \in erased \/ e.id >= e.from
  PROVE  IndInv'
  BY NamedKept, SnapshotKept, ErasingKept, DatedKept DEF IndInv

LEMMA Pairs ==
  ASSUME NEW a, NEW b, a # b
  PROVE  Cardinality({a, b}) = 2
  <1>1. IsFiniteSet({a}) /\ Cardinality({a}) = 1
    BY FS_Singleton
  <1>2. Cardinality({a} \cup {b}) = 2
    BY <1>1, FS_AddElement
  <1>3. {a} \cup {b} = {a, b}
    OBVIOUS
  <1> QED
    BY <1>2, <1>3

LEMMA Triples ==
  ASSUME NEW a, NEW b, NEW c, a # b, a # c, b # c
  PROVE  Cardinality({a, b, c}) = 3
  <1>1. IsFiniteSet({a} \cup {b})
    BY FS_Singleton, FS_AddElement
  <1>2. {a} \cup {b} = {a, b} /\ {a, b} \cup {c} = {a, b, c}
    OBVIOUS
  <1>3. IsFiniteSet({a, b}) /\ Cardinality({a, b}) = 2
    BY <1>1, <1>2, Pairs
  <1>4. c \notin {a, b}
    OBVIOUS
  <1>5. Cardinality({a, b} \cup {c}) = Cardinality({a, b}) + 1
    BY <1>3, <1>4, FS_AddElement
  <1> QED
    BY <1>2, <1>3, <1>5

LEMMA ChildFacts ==
  ASSUME IndInv, NEW i \in Nat, NEW t \in {"interface", "network"}, NEW of \in Nat \cup {None}
  PROVE  /\ Child(i, t, of) \in Objects /\ Child(i, t, of).id = nextId + i
         /\ Child(i, t, of).type = t /\ Child(i, t, of).of = of
  <1>1. nextId + i \in Nat
    BY DEF IndInv, TypeOK
  <1>2. t \in (Types \cup {"foreign"}) \ {"state", "event"}
    BY DEF Types, Parent
  <1>3. Child(i, t, of) \in [id : Nat, type : (Types \cup {"foreign"}) \ {"state", "event"}, of : Nat \cup {None}]
    BY <1>1, <1>2 DEF Child
  <1> QED
    BY <1>3 DEF Child, Objects

LEMMA StateFacts ==
  ASSUME IndInv, NEW i \in Nat, NEW x \in Streams, NEW o \in Nat
  PROVE  /\ State(i, x, o) \in States /\ State(i, x, o).id = nextId + i
         /\ State(i, x, o).type = "state" /\ State(i, x, o).of = None
  <1>1. nextId + i \in Nat
    BY DEF IndInv, TypeOK
  <1>2. "digest" \in Hashes /\ None \in {None}
    BY DEF Hashes
  <1>3. State(i, x, o) \in States
    BY <1>1, <1>2 DEF State, States
  <1> QED
    BY <1>3 DEF State

LEMMA EventFacts ==
  ASSUME IndInv, NEW i \in Nat, NEW h \in Hashes, NEW of \in Nat \cup {None}
  PROVE  /\ Event(i, of, h) \in Objects /\ Event(i, of, h).id = nextId + i
         /\ Event(i, of, h).type = "event" /\ Event(i, of, h).of = of /\ Event(i, of, h).created = clock
  <1>1. nextId + i \in Nat /\ clock \in Nat
    BY DEF IndInv, TypeOK
  <1>2. Event(i, of, h) \in [id : Nat, type : {"event"}, of : Nat \cup {None}, hash : Hashes, created : Nat]
    BY <1>1 DEF Event
  <1> QED
    BY <1>2 DEF Event, Objects

(* What the calls add. *)
LEMMA OneEvent ==
  ASSUME IndInv, NEW h \in Hashes, nextId' = nextId + 1
  PROVE  New({Event(0, None, h)}) /\ OfType({Event(0, None, h)}, "state") = {}
  <1> DEFINE e == Event(0, None, h)
  <1>1. e \in Objects /\ e.id = nextId + 0 /\ e.type = "event" /\ e.of = None
    BY EventFacts, 0 \in Nat, None \in Nat \cup {None}
  <1> HIDE DEF e
  <1>2. nextId \in Nat
    BY DEF IndInv, TypeOK
  <1>3. New({e})
    BY <1>1, <1>2 DEF New
  <1>4. OfType({e}, "state") = {}
    BY <1>1 DEF OfType
  <1> QED
    BY <1>3, <1>4 DEF e

LEMMA OneInterface ==
  ASSUME IndInv, NEW a \in Objects, NEW b \in Objects, NEW e \in Objects, NEW A, A = {a, b, e},
         a.id = nextId, a.type = "interface", a.of = None,
         b.id = nextId + 1, b.type = "network", b.of = nextId,
         e.id = nextId + 2, e.type = "event", e.of = None,
         nextId' = nextId + Cardinality(A)
  PROVE  New(A) /\ OfType(A, "state") = {} /\ WellFormed(A)
  <1>1. nextId \in Nat
    BY DEF IndInv, TypeOK
  <1>2. nextId' = nextId + 3
    <2>1. a # b /\ a # e /\ b # e
      BY <1>1
    <2>2. Cardinality({a, b, e}) = 3
      BY ONLY <2>1, Triples, Zenon
    <2> QED
      BY <2>2
  <1>3. None # nextId
    BY <1>1, ObjectFacts
  <1>4. New(A)
    <2>1. nextId' \in Nat /\ nextId <= nextId'
      BY <1>1, <1>2
    <2>2. \A c \in A : c = a \/ c = b \/ c = e
      OBVIOUS
    <2>3. A \subseteq Objects /\ \A c, d \in A : c.id = d.id => c = d
      BY <1>1, <2>2
    <2>4. \A c \in A : nextId <= c.id /\ c.id < nextId' /\ c.type \notin {"member", "indicator"}
      BY <1>1, <1>2, <2>2
    <2>5. \A c \in A : c.of # None => nextId <= c.of /\ c.of < nextId'
      BY <1>1, <1>2, <1>3, <2>2
    <2> QED
      BY <2>1, <2>3, <2>4, <2>5 DEF New
  <1>5. OfType(A, "state") = {}
    BY DEF OfType
  <1>6. WellFormed(A)
    <2>1. a \in OfType(A, "interface") /\ a.id = nextId
      BY <1>1 DEF OfType
    <2>2. \A c \in A : c.type \in {"interface", "network", "event"}
      OBVIOUS
    <2>3. \A c \in A : c.type = "network" => c.of = nextId
      OBVIOUS
    <2> QED
      BY <2>1, <2>2, <2>3 DEF WellFormed, HasParent, Types, Simple, Parent
  <1> QED
    BY <1>4, <1>5, <1>6

LEMMA OneState ==
  ASSUME IndInv, NEW x \in Streams, NEW o \in Nat, NEW A, A = {State(0, x, o), Event(1, nextId, "digest")},
         nextId' = nextId + Cardinality(A)
  PROVE  /\ New(A) /\ OfType(A, "state") = {State(0, x, o)} /\ WellFormed(A)
         /\ \A e \in Events(A) : e.created = clock
  <1> DEFINE a == State(0, x, o)
             e == Event(1, nextId, "digest")
  <1>1. nextId \in Nat
    BY DEF IndInv, TypeOK
  <1>2. /\ a \in States /\ a.id = nextId + 0 /\ a.type = "state" /\ a.of = None
        /\ e \in Objects /\ e.id = nextId + 1 /\ e.type = "event" /\ e.of = nextId /\ e.created = clock
    <2>1. 0 \in Nat /\ 1 \in Nat /\ nextId \in Nat \cup {None}
      BY <1>1
    <2>2. "digest" \in Hashes
      BY DEF Hashes
    <2>3. a \in States /\ a.id = nextId + 0 /\ a.type = "state" /\ a.of = None
      BY <2>1, StateFacts
    <2>4. e \in Objects /\ e.id = nextId + 1 /\ e.type = "event" /\ e.of = nextId /\ e.created = clock
      BY <2>1, <2>2, EventFacts
    <2> QED
      BY <2>3, <2>4
  <1>3. A = {a, e}
    OBVIOUS
  <1> HIDE DEF a, e
  <1>4. nextId' = nextId + 2
    <2>1. a # e
      BY <1>2
    <2> QED
      BY <1>3, <2>1, Pairs
  <1>5. None # nextId /\ a \in Objects
    BY <1>1, <1>2, ObjectFacts
  <1>6. New(A)
    BY <1>1, <1>2, <1>3, <1>4, <1>5 DEF New
  <1>7. OfType(A, "state") = {a} /\ Events(A) = {e}
    BY <1>2, <1>3 DEF OfType, Events
  <1>8. WellFormed(A)
    BY <1>2, <1>3 DEF WellFormed, HasParent, OfType, Types, Simple, Parent
  <1> QED
    BY <1>2, <1>6, <1>7, <1>8 DEF a


LEMMA AddedFacts ==
  ASSUME IndInv, NEW A \in Added, nextId' = nextId + Cardinality(A)
  PROVE  /\ New(A) /\ WellFormed(A)
         /\ \/ OfType(A, "state") = {}
            \/ /\ \E x \in States : x.id >= nextId /\ OfType(A, "state") = {x}
               /\ \A e \in Events(A) : e.created = clock
  <1>1. nextId \in Nat /\ clock \in Nat /\ 0 \in Nat /\ 1 \in Nat /\ 2 \in Nat
    BY DEF IndInv, TypeOK
  <1>2. "" \in Hashes /\ None \in Nat \cup {None}
    BY DEF Hashes
  <1>3. ASSUME A = NewInterface
        PROVE  New(A) /\ WellFormed(A) /\ OfType(A, "state") = {}
    <2>1. PICK a : a = Child(0, "interface", None)
      OBVIOUS
    <2>2. PICK b : b = Child(1, "network", nextId)
      OBVIOUS
    <2>3. PICK e : e = Event(2, None, "")
      OBVIOUS
    <2>4. a \in Objects /\ a.id = nextId + 0 /\ a.type = "interface" /\ a.of = None
      BY <1>1, <1>2, <2>1, ChildFacts
    <2>5. b \in Objects /\ b.id = nextId + 1 /\ b.type = "network" /\ b.of = nextId
      BY <1>1, <2>2, ChildFacts
    <2>6. e \in Objects /\ e.id = nextId + 2 /\ e.type = "event" /\ e.of = None
      BY <1>1, <1>2, <2>3, EventFacts
    <2>7. A = {a, b, e}
      BY <1>3, <2>1, <2>2, <2>3 DEF NewInterface
    <2>8. a.id = nextId
      BY <1>1, <2>4
    <2>9. New(A) /\ OfType(A, "state") = {} /\ WellFormed(A)
      BY <2>4, <2>5, <2>6, <2>7, <2>8, OneInterface
    <2> QED
      BY <2>9
  <1>4. ASSUME A = NewEvent
        PROVE  New(A) /\ WellFormed(A) /\ OfType(A, "state") = {}
    <2>1. PICK e : e = Event(0, None, "")
      OBVIOUS
    <2>2. e \in Objects /\ e.type = "event"
      BY <1>1, <1>2, <2>1, EventFacts
    <2>3. A = {e}
      BY <1>4, <2>1 DEF NewEvent
    <2>4. Cardinality(A) = 1
      BY <2>3, FS_Singleton
    <2>5. WellFormed(A)
      BY <2>2, <2>3 DEF WellFormed, HasParent, Types, Simple, Parent
    <2>6. New({Event(0, None, "")}) /\ OfType({Event(0, None, "")}, "state") = {}
      BY <1>2, <2>4, OneEvent
    <2> QED
      BY <1>4, <2>5, <2>6 DEF NewEvent
  <1>5. ASSUME NEW y \in Streams, NEW o \in 0 .. clock, A = NewState(y, o)
        PROVE  /\ New(A) /\ WellFormed(A)
               /\ \E x \in States : x.id >= nextId /\ OfType(A, "state") = {x}
               /\ \A e \in Events(A) : e.created = clock
    <2>1. o \in Nat
      BY <1>1
    <2>2. State(0, y, o) \in States /\ State(0, y, o).id = nextId + 0
      BY <1>1, <2>1, StateFacts
    <2>3. /\ New(A) /\ OfType(A, "state") = {State(0, y, o)} /\ WellFormed(A)
          /\ \A e \in Events(A) : e.created = clock
      BY <1>5, <2>1, OneState DEF NewState
    <2>4. State(0, y, o).id >= nextId
      BY <1>1, <2>2
    <2> QED
      BY <2>2, <2>3, <2>4
  <1> QED
    BY <1>3, <1>4, <1>5 DEF Added

LEMMA CreateTwinInv ==
  ASSUME IndInv, NEW r \in Requests, CreateTwin(r)
  PROVE  IndInv'
  <1>1. UNCHANGED <<clock, sweep, failures, published, pruned, erased>> /\ End(r)
    BY DEF CreateTwin, history
  <1>2. CASE UNCHANGED chain
    BY <1>1, <1>2, EndInv DEF IndInv, TypeOK, chain, history
  <1>3. CASE /\ Funded(op[r].sub) /\ Charge(op[r].sub) /\ nextId' = nextId + 1
             /\ children' = {Event(0, None, "")}
             /\ twin' = [at |-> "live", sub |-> op[r].sub, version |-> "1", prepared |-> FALSE]
             /\ op[r].sub \in Subscriptions
    <2>1. PICK e : e = Event(0, None, "")
      OBVIOUS
    <2>2. e \in Objects /\ e.type = "event" /\ New({e}) /\ OfType({e}, "state") = {}
      <3>1. "" \in Hashes /\ None \in Nat \cup {None} /\ 0 \in Nat
        BY DEF Hashes
      <3> QED
        BY <1>3, <2>1, <3>1, EventFacts, OneEvent
    <2>3. children' = {e}
      BY <1>3, <2>1
    <2>4. Grown({e}) /\ Announced({e})
      BY <1>1, <2>2, <2>3 DEF Grown, Announced
    <2>5. /\ op' \in [Requests -> Operations] /\ op'[r].pc = "idle"
          /\ \A q \in Requests : q # r => op'[q] = op[q]
      BY <1>1, EndMoves
    <2>6. Calm /\ Going
      BY <2>5 DEF Calm, Going, Acting, Committed
    <2>7. WellFormed(children)'
      BY <2>2, <2>3 DEF WellFormed, HasParent, Types, Simple, Parent
    <2>8. credits' \in [Subscriptions -> Nat]
      BY <1>3, Charged
    <2>9. TypeOK'
      <3>1. twin' \in Twins
        BY <1>3 DEF Twins, Versions
      <3>2. nextId' \in Nat
        BY <2>2 DEF New
      <3> QED
        BY <1>1, <2>2, <2>3, <2>5, <2>8, <3>1, <3>2 DEF IndInv, TypeOK
    <2>10. Retained' /\ Latest' /\ Cleanable'
      BY <1>1, <2>7 DEF IndInv, Retained, Due, Superseded, Latest, Cleanable
    <2> QED
      BY <1>1, <2>4, <2>6, <2>9, <2>10, RegistryInv
  <1>4. op[r].sub \in Subscriptions
    BY DEF CreateTwin, IndInv, TypeOK, Operations
  <1> QED
    BY <1>2, <1>3, <1>4 DEF CreateTwin

LEMMA WellFormedUnion ==
  ASSUME NEW C, NEW D, WellFormed(C), WellFormed(D)
  PROVE  WellFormed(C \cup D)
  BY DEF WellFormed, HasParent, OfType

(* A call that adds nothing but new objects and the states it publishes. *)
LEMMA TwinCallInv ==
  ASSUME IndInv, NEW r \in Requests, TwinCall(r)
  PROVE  IndInv'
  <1>1. UNCHANGED <<twin, clock, sweep, failures, pruned, erased>> /\ End(r)
    BY DEF TwinCall
  <1>2. CASE UNCHANGED <<children, nextId, credits, published>>
    BY <1>1, <1>2, EndInv DEF IndInv, TypeOK, history
  <1>3. ASSUME Funded(op[r].sub), Charge(op[r].sub), NEW A \in Added, children' = children \cup A,
               nextId' = nextId + Cardinality(A),
               published' = published \cup {[state |-> x, at |-> clock] : x \in OfType(A, "state")}
        PROVE  IndInv'
    <2>1. /\ New(A) /\ WellFormed(A)
          /\ \/ OfType(A, "state") = {}
             \/ /\ \E x \in States : x.id >= nextId /\ OfType(A, "state") = {x}
                /\ \A e \in Events(A) : e.created = clock
      BY <1>3, AddedFacts
    <2>2. clock \in Nat
      BY DEF IndInv, TypeOK
    <2>3. \A x \in OfType(A, "state") : x \in A /\ x \in States
      BY <2>1, ObjectFacts DEF OfType, New
    <2>4. published' \subseteq published \cup {q \in Times : q.state \in A}
      BY <1>3, <2>2, <2>3 DEF Times
    <2>5. Grown(A)
      BY <1>3, <2>1, <2>4 DEF Grown
    <2>6. Announced(A)
      <3>1. \A x \in OfType(A, "state") : [state |-> x, at |-> clock] \in published'
        BY <1>3
      <3>2. \A x \in OfType(A, "state"), e \in Events(A) : clock <= e.created
        BY <2>1, <2>2
      <3> QED
        BY <3>1, <3>2 DEF Announced
    <2>7. Latest'
      <3>1. CASE OfType(A, "state") = {}
        <4>1. published' = published
          BY <1>3, <3>1
        <4> QED
          BY <4>1 DEF IndInv, Latest
      <3>2. ASSUME NEW x \in States, x.id >= nextId, OfType(A, "state") = {x}
            PROVE  Latest'
        <4>1. published' = published \cup {[state |-> x, at |-> clock]}
          BY <1>3, <3>2
        <4> QED
          BY <2>2, <3>2, <4>1, LatestKept
      <3> QED
        BY <2>1, <3>1, <3>2
    <2>8. /\ op' \in [Requests -> Operations] /\ op'[r].pc = "idle"
          /\ \A q \in Requests : q # r => op'[q] = op[q]
      BY <1>1, EndMoves
    <2>9. Calm /\ Going
      BY <2>8 DEF Calm, Going, Acting, Committed
    <2>10. Cleanable'
      <3>1. WellFormed(children) => WellFormed(children')
        BY <1>3, <2>1, WellFormedUnion
      <3> QED
        BY <1>1, <2>8, <3>1 DEF IndInv, Cleanable, Committed
    <2>11. credits' \in [Subscriptions -> Nat]
      BY <1>3, Charged
    <2>12. TypeOK'
      <3>1. children' \in SUBSET Objects /\ nextId' \in Nat
        BY <1>3, <2>1 DEF New, IndInv, TypeOK
      <3>2. published' \in SUBSET Times
        BY <2>4 DEF IndInv, TypeOK
      <3> QED
        BY <1>1, <2>8, <2>11, <3>1, <3>2 DEF IndInv, TypeOK
    <2>13. Retained'
      BY <1>1, <1>3, <2>2, RetainedKept
    <2> QED
      BY <1>1, <2>5, <2>6, <2>7, <2>9, <2>10, <2>12, <2>13, RegistryInv
  <1> QED
    BY <1>2, <1>3 DEF TwinCall
-------------------------------------------------------------------------------
(* Batches. *)
LEMMA RemovalKeepsParents ==
  ASSUME WellFormed(children), children' \subseteq children,
         \A d \in children', p \in children :
             d.type \in DOMAIN Parent /\ p.type = Parent[d.type] /\ p.id = d.of => p \in children'
  PROVE  WellFormed(children')
  BY DEF WellFormed, HasParent, OfType

(* What a batch leaves to prove is that it takes no parent of a child. *)
LEMMA BatchInv ==
  ASSUME IndInv, NEW r \in Requests, Acting(r), NEW ids, Remove(r, ids),
         \A c \in children : c.id \in ids =>
             \A d \in children : d.type \in DOMAIN Parent /\ c.type = Parent[d.type] /\ c.id = d.of => d.id \in ids,
         UNCHANGED <<twin, nextId, credits, clock, sweep, failures, published, pruned>>,
         erased' \in SUBSET [id : Nat, from : Nat], \A e \in erased' : e \in erased \/ e.id >= e.from
  PROVE  IndInv'
  <1>1. children' \subseteq children
    BY DEF Remove
  <1>2. WellFormed(children)
    BY DEF IndInv, Cleanable, Acting, Committed
  <1>3. \A d \in children', p \in children :
            d.type \in DOMAIN Parent /\ p.type = Parent[d.type] /\ p.id = d.of => p \in children'
    BY DEF Remove
  <1>4. WellFormed(children')
    BY <1>1, <1>2, <1>3, RemovalKeepsParents
  <1>5. Grown({}) /\ Announced({})
    BY <1>1 DEF Grown, New, Announced, OfType, Events, IndInv, TypeOK
  <1>6. PICK o \in Operations :
           op' = [op EXCEPT ![r] = o] /\ o.pc # "act"
           /\ (o.pc = "idle" \/ (o.kind = op[r].kind /\ o.from = op[r].from))
    <2>1. op[r] \in Operations /\ op[r].pc = "act"
      BY DEF IndInv, TypeOK, Acting
    <2>2. CASE End(r)
      BY <2>2, IdleIsOperation DEF End
    <2>3. CASE op' = [op EXCEPT ![r].pc = "loop", ![r].snap = {}, ![r].n = @ + 1]
      <3> DEFINE o == [op[r] EXCEPT !.pc = "loop", !.snap = {}, !.n = @ + 1]
      <3>1. o \in Operations /\ o.pc = "loop" /\ o.kind = op[r].kind /\ o.from = op[r].from
        <4> DEFINE l == [op[r] EXCEPT !.pc = "loop", !.snap = {}]
        <4>1. l \in Operations /\ l.pc = "loop" /\ l.kind = op[r].kind /\ l.from = op[r].from /\ l.n = op[r].n
          BY <2>1 DEF Operations, Pcs
        <4>2. o = [l EXCEPT !.n = l.n + 1]
          BY <2>1 DEF Operations
        <4> HIDE DEF l, o
        <4> QED
          BY <4>1, <4>2 DEF Operations
      <3>2. op' = [op EXCEPT ![r] = o]
        BY <2>1, <2>3 DEF IndInv, TypeOK, Operations
      <3> HIDE DEF o
      <3> QED
        BY <3>1, <3>2
    <2> QED
      BY <2>2, <2>3 DEF Remove, NextBatch
  <1>7. op' \in [Requests -> Operations] /\ op'[r] = o /\ \A q \in Requests : q # r => op'[q] = op[q]
    BY <1>6, RequestMoves
  <1>8. Calm /\ Going
    BY <1>6, <1>7 DEF Calm, Going, Acting, Committed
  <1>9. TypeOK'
    BY <1>1, <1>7 DEF IndInv, TypeOK
  <1>10. Cleanable' /\ Latest'
    BY <1>4 DEF Cleanable, IndInv, Latest
  <1>11. Retained'
    BY RetainedKept DEF IndInv, Retained, TypeOK
  <1> QED
    BY <1>5, <1>8, <1>9, <1>10, <1>11, RegistryInv

LEMMA DeleteTwinEventsInv ==
  ASSUME IndInv, NEW r \in Requests, DeleteTwinEvents(r)
  PROVE  IndInv'
  <1>1. Acting(r) /\ UNCHANGED <<twin, nextId, credits, clock, sweep, failures, published, pruned, erased>>
    BY DEF DeleteTwinEvents, Acting, history
  <1>2. CASE UNCHANGED children /\ End(r)
    BY <1>1, <1>2, EndInv DEF IndInv, TypeOK, history
  <1>3. ASSUME NEW D \in SUBSET Ids(Events(op[r].snap)), Remove(r, D)
        PROVE  IndInv'
    <2>1. \A c \in children : c.id \in D => c.type = "event"
      BY <1>1 DEF IndInv, SnapshotHolds, Ids, Events, OfType
    <2>2. \A d : d.type \in DOMAIN Parent => Parent[d.type] # "event"
      BY DEF Parent
    <2>3. erased' \in SUBSET [id : Nat, from : Nat]
      BY <1>1 DEF IndInv, TypeOK
    <2> QED
      BY <1>1, <1>3, <2>1, <2>2, <2>3, BatchInv
  <1> QED
    BY <1>2, <1>3 DEF DeleteTwinEvents

(* A plan takes one member or indicator, or interfaces with their networks *)
(* and objects that no child that is left can belong to.                   *)
LEMMA PlanTakesNoParent ==
  ASSUME IndInv, NEW r \in Requests, Acting(r), NEW P \in PlanCleanup(op[r].snap),
         NEW c \in children, c.id \in UNION P,
         NEW d \in children, d.type \in DOMAIN Parent, c.type = Parent[d.type], c.id = d.of
  PROVE  d.id \in UNION P
  <1> DEFINE S == op[r].snap
  <1>1. /\ \A x \in S : \A y \in children : x.id = y.id => x = y
        /\ d.type \in {"member", "indicator"} => d \in S
        /\ \A x \in S : d.type = "network" /\ x.type = "interface" /\ d.of = x.id => d \in S
    BY DEF IndInv, SnapshotHolds
  <1>2. /\ d.type \in {"member", "indicator", "network"}
        /\ d.type = "network" => c.type = "interface"
        /\ c.type \in {"composition", "assessment", "interface"}
    BY DEF Parent
  <1> DEFINE single == IF OfType(S, "member") # {} THEN OfType(S, "member") ELSE OfType(S, "indicator")
  <1>3. \/ single # {} /\ \E x \in single : P = {{x.id}}
        \/ single = {} /\ P \in Bounded(S)
    BY DEF PlanCleanup
  <1>4. ASSUME NEW x \in single, P = {{x.id}}
        PROVE  FALSE
    <2>1. x \in S /\ x.type \in {"member", "indicator"}
      BY <1>4 DEF OfType
    <2>2. c.id = x.id
      BY <1>4
    <2> QED
      BY <1>1, <1>2, <2>1, <2>2
  <1>5. ASSUME single = {}, P \in Bounded(S)
        PROVE  d.id \in UNION P
    <2>1. d.type = "network" /\ c.type = "interface"
      BY <1>1, <1>2, <1>5 DEF OfType
    <2>2. PICK x \in S \ OfType(S, "network") : CallFor(S, x) \in P /\ c.id \in CallFor(S, x)
      BY <1>5 DEF Bounded, Calls
    <2>3. c.id = x.id
      <3>1. \A n \in Networks(S, x) : n \in S /\ n.type = "network"
        BY DEF Networks, OfType
      <3>2. \A n \in Networks(S, x) : c.id # n.id
        BY <1>1, <2>1, <3>1
      <3> QED
        BY <2>2, <3>2 DEF CallFor, Ids
    <2>4. x = c
      BY <1>1, <2>2, <2>3
    <2>5. d \in Networks(S, x)
      BY <1>1, <2>1, <2>2, <2>4 DEF Networks, OfType
    <2>6. d.id \in CallFor(S, x)
      BY <2>1, <2>4, <2>5 DEF CallFor, Ids
    <2> QED
      BY <2>2, <2>6
  <1> QED
    BY <1>3, <1>4, <1>5

LEMMA CleanupBatchInv ==
  ASSUME IndInv, NEW r \in Requests, CleanupBatch(r)
  PROVE  IndInv'
  <1>1. /\ Acting(r) /\ op[r].kind = "delete" /\ op[r].pc # "idle"
        /\ UNCHANGED <<twin, nextId, credits, clock, sweep, failures, published, pruned>>
    BY DEF CleanupBatch, Acting
  <1>2. CASE UNCHANGED <<children, erased>> /\ End(r)
    BY <1>1, <1>2, EndInv DEF IndInv, TypeOK, history
  <1>3. ASSUME NEW P \in PlanCleanup(op[r].snap), Remove(r, UNION P),
               erased' = erased \cup {[id |-> e.id, from |-> op[r].from] : e \in Events(children \ children')}
        PROVE  IndInv'
    <2>1. \A e \in Events(children \ children') : e \in Events(children) /\ e.id \in Nat
      BY ObjectFacts DEF Events, OfType, IndInv, TypeOK
    <2>2. op[r].from \in Nat
      BY DEF IndInv, TypeOK, Operations
    <2>3. \A e \in Events(children) : e.id >= op[r].from
      BY <1>1 DEF IndInv, Erasing, Committed, Acting
    <2> DEFINE new(e) == [id |-> e.id, from |-> op[r].from]
    <2>a. \A e \in Events(children \ children') : new(e) \in [id : Nat, from : Nat] /\ new(e).id >= new(e).from
      BY <2>1, <2>2, <2>3
    <2>b. erased' = erased \cup {new(e) : e \in Events(children \ children')}
      BY <1>3
    <2> HIDE DEF new
    <2>4. erased' \in SUBSET [id : Nat, from : Nat]
      BY <2>a, <2>b DEF IndInv, TypeOK
    <2>5. \A e \in erased' : e \in erased \/ e.id >= e.from
      BY <2>a, <2>b
    <2>6. \A c \in children : c.id \in UNION P =>
              \A d \in children : d.type \in DOMAIN Parent /\ c.type = Parent[d.type] /\ c.id = d.of => d.id \in UNION P
      BY <1>1, PlanTakesNoParent
    <2> QED
      BY <1>1, <1>3, <2>4, <2>5, <2>6, BatchInv
  <1> QED
    BY <1>2, <1>3 DEF CleanupBatch
-------------------------------------------------------------------------------
(* The retention sweep and the clock. *)
LEMMA ListStatesInv ==
  ASSUME IndInv, NEW s \in Sweepers, ListStates(s)
  PROVE  IndInv'
  <1>1. PICK S \in Indexed("state"), E \in Indexed("event") : sweep' = [sweep EXCEPT ![s].todo = Eligible(S, E)]
    BY DEF ListStates
  <1>2. UNCHANGED <<twin, children, nextId, credits, clock, op, failures, published, pruned, erased>>
    BY DEF ListStates, chain, history
  <1>3. S \subseteq OfType(children, "state") /\ E \subseteq Events(children)
    BY DEF Indexed, Events, OfType
  <1>4. S \subseteq States /\ S \subseteq children /\ \A e \in E : e.created \in Nat
    BY <1>3, ObjectFacts DEF OfType, Events, IndInv, TypeOK
  <1>5. ASSUME NEW x \in Eligible(S, E)
        PROVE  x \in States /\ Due(x, clock) /\ Superseded(x)
    <2>1. x \in S /\ ~Newest(S, x)
      BY DEF Eligible
    <2>2. PICK e \in E : e.of = x.id /\ e.created + Retention <= clock
      BY DEF Eligible
    <2>3. PICK q \in published : q.state = x /\ q.at <= e.created
      BY <1>3, <2>1, <2>2 DEF IndInv, Dated
    <2>4. q.at + Retention <= clock
      BY <1>4, <2>2, <2>3, LifecycleAssumption DEF IndInv, TypeOK, Times
    <2>5. PICK y \in S : y.stream = x.stream /\ y # x /\ ~Older(y, x)
      BY <2>1 DEF Newest
    <2>6. Older(x, y)
      <3>1. x.id # y.id
        BY <1>4, <2>1, <2>5 DEF IndInv, Named
      <3> QED
        BY <1>4, <2>1, <2>5, <3>1, OlderIsOrder
    <2>7. PICK z \in published : z.state = y
      BY <1>3, <2>5 DEF IndInv, Dated
    <2> QED
      BY <1>4, <2>1, <2>3, <2>4, <2>5, <2>6, <2>7 DEF Due, Superseded
  <1>6. sweep' \in [Sweepers -> [todo : SUBSET States, n : Nat]]
    <2>1. Eligible(S, E) \in SUBSET States
      BY <1>5
    <2> QED
      BY <1>1, <2>1 DEF IndInv, TypeOK
  <1>7. TypeOK'
    BY <1>2, <1>6 DEF IndInv, TypeOK
  <1>8. \A t \in Sweepers : \A x \in sweep'[t].todo : x \in sweep[t].todo \/ (Due(x, clock) /\ Superseded(x))
    BY <1>1, <1>5 DEF IndInv, TypeOK
  <1>9. Retained'
    BY <1>2, <1>8, RetainedKept DEF IndInv, TypeOK, Retained
  <1>10. Grown({}) /\ Announced({})
    BY <1>2 DEF Grown, New, Announced, OfType, Events, IndInv, TypeOK
  <1>11. Calm /\ Going /\ Cleanable' /\ Latest'
    BY <1>2 DEF Calm, Going, Acting, Committed, IndInv, Cleanable, Latest
  <1> QED
    BY <1>2, <1>7, <1>9, <1>10, <1>11, RegistryInv

LEMMA TickInv ==
  ASSUME IndInv, Tick
  PROVE  IndInv'
  <1>1. UNCHANGED <<twin, children, nextId, credits, op, sweep, failures, published, pruned, erased>>
    BY DEF Tick, chain, history
  <1>2. clock \in Nat /\ clock' = clock + 1
    BY DEF Tick, IndInv, TypeOK
  <1>3. TypeOK'
    BY <1>1, <1>2 DEF IndInv, TypeOK
  <1>4. Calm /\ Going
    BY <1>1 DEF Calm, Going, Acting, Committed
  <1>5. twin'.prepared \/ (\E q \in Requests : Committed(q)') => WellFormed(children)
    BY <1>1 DEF IndInv, Cleanable, Committed
  <1> QED
    BY <1>1, <1>2, <1>3, <1>4, <1>5, QuietInv DEF history

LEMMA PruneStateInv ==
  ASSUME IndInv, NEW s \in Sweepers, NEW x \in sweep[s].todo, PruneState(s, x)
  PROVE  IndInv'
  <1>1. UNCHANGED <<twin, credits, clock, op, failures, published, erased>>
    BY DEF PruneState
  <1>2. x \in States /\ x.type = "state" /\ x.hash \in Hashes /\ Due(x, clock) /\ Superseded(x)
    BY DEF IndInv, TypeOK, Retained, States
  <1>3. PICK n \in Nat, T \in SUBSET sweep[s].todo : sweep' = [sweep EXCEPT ![s] = [todo |-> T, n |-> n]]
    <2> DEFINE S == sweep[s].todo
               n == sweep[s].n + IF Prunable(x) THEN 1 ELSE 0
    <2>1. sweep' = [sweep EXCEPT ![s] = IF S = {x} \/ n = MaxPrunes THEN NoSweep ELSE [todo |-> S \ {x}, n |-> n]]
      BY DEF PruneState
    <2>2. n \in Nat
      BY DEF IndInv, TypeOK
    <2>3. NoSweep = [todo |-> {}, n |-> 0]
      BY DEF NoSweep
    <2> HIDE DEF n
    <2> QED
      BY <2>1, <2>2, <2>3
  <1>4. sweep' \in [Sweepers -> [todo : SUBSET States, n : Nat]]
    BY <1>3 DEF IndInv, TypeOK
  <1>5. \A t \in Sweepers : sweep'[t].todo \subseteq sweep[t].todo
    BY <1>3 DEF IndInv, TypeOK
  <1>6. Calm /\ Going /\ Latest'
    BY <1>1 DEF Going, Acting, Committed, IndInv, Latest, Calm
  <1>7. CASE UNCHANGED <<children, nextId, pruned>>
    <2>1. Grown({}) /\ Announced({})
      BY <1>1, <1>7 DEF Grown, New, Announced, OfType, Events, IndInv, TypeOK
    <2>2. TypeOK' /\ Cleanable'
      BY <1>1, <1>4, <1>7 DEF IndInv, TypeOK, Cleanable, Committed
    <2>3. Retained'
      BY <1>1, <1>5, <1>7, RetainedKept DEF IndInv, TypeOK, Retained
    <2> QED
      BY <1>1, <1>6, <2>1, <2>2, <2>3, RegistryInv
  <1>8. CASE /\ children' = (children \ {x}) \cup {Event(0, None, x.hash)}
             /\ nextId' = nextId + 1 /\ pruned' = pruned \cup {[state |-> x, at |-> clock]}
    <2>1. PICK e : e = Event(0, None, x.hash)
      OBVIOUS
    <2>2. e \in Objects /\ e.type = "event" /\ New({e}) /\ OfType({e}, "state") = {}
      <3>1. None \in Nat \cup {None} /\ 0 \in Nat
        OBVIOUS
      <3>2. PICK h \in Hashes : h = x.hash
        BY <1>2
      <3>3. Event(0, None, h) \in Objects /\ Event(0, None, h).type = "event"
        BY <3>1, EventFacts
      <3>4. New({Event(0, None, h)}) /\ OfType({Event(0, None, h)}, "state") = {}
        BY <1>8, OneEvent
      <3> QED
        BY <2>1, <3>2, <3>3, <3>4
    <2>3. children' = (children \ {x}) \cup {e}
      BY <1>8, <2>1
    <2>4. Grown({e}) /\ Announced({e})
      BY <1>1, <2>2, <2>3 DEF Grown, Announced
    <2>5. Cleanable'
      <3>1. WellFormed(children) => WellFormed(children \ {x})
        BY <1>2 DEF WellFormed, HasParent, OfType, Parent
      <3>2. WellFormed({e})
        BY <2>2 DEF WellFormed, HasParent, Types, Simple, Parent
      <3> QED
        BY <1>1, <2>3, <3>1, <3>2, WellFormedUnion DEF IndInv, Cleanable, Committed
    <2>6. clock \in Nat /\ [state |-> x, at |-> clock] \in Times
      BY <1>2 DEF IndInv, TypeOK, Times
    <2>7. TypeOK'
      <3>1. nextId' \in Nat
        BY <2>2 DEF New
      <3>2. pruned' \in SUBSET Times
        BY <1>8, <2>6 DEF IndInv, TypeOK
      <3> QED
        BY <1>1, <1>4, <2>2, <2>3, <3>1, <3>2 DEF IndInv, TypeOK
    <2>8. Retained'
      BY <1>1, <1>2, <1>5, <1>8, <2>6, RetainedKept
    <2> QED
      BY <1>1, <1>6, <2>4, <2>5, <2>7, <2>8, RegistryInv
  <1> QED
    BY <1>7, <1>8 DEF PruneState
-------------------------------------------------------------------------------
THEOREM InitInv == Init => IndInv
  <1> SUFFICES ASSUME Init
               PROVE  IndInv
    OBVIOUS
  <1>1. PICK R \in Registries :
           /\ twin = R.twin /\ children = R.children /\ nextId = Cardinality(R.children)
           /\ published = {[state |-> x, at |-> 0] : x \in OfType(R.children, "state")}
    BY DEF Init
  <1>2. /\ twin \in Twins
        /\ twin.prepared => WellFormed(children)
        /\ IsFiniteSet(children) /\ children \subseteq Objects
        /\ \A c \in children : c.id < Cardinality(children) /\ c.of \in {None} \cup Ids(children)
        /\ \A c, d \in children : c.id = d.id => c = d
        /\ \A x \in OfType(children, "state") :
              \E m \in OfType(children, "state") :
                  /\ m.stream = x.stream
                  /\ \A z \in OfType(children, "state") : z.stream = x.stream => z = m \/ Older(z, m)
    BY <1>1, RegistryAssumption
  <1>3. nextId \in Nat
    BY <1>1, <1>2, FS_CardinalityType
  <1>4. \A r \in Requests : op[r] = Idle
    BY DEF Init
  <1>5. op \in [Requests -> Operations]
    BY IdleIsOperation DEF Init
  <1>6. \A x \in OfType(children, "state") : x \in States /\ x \in children
    BY <1>2, ObjectFacts DEF OfType
  <1>7. published \in SUBSET Times
    BY <1>1, <1>6 DEF Times
  <1>8. TypeOK
    <2>1. credits \in [Subscriptions -> Nat]
      BY LifecycleAssumption DEF Init
    <2>2. sweep \in [Sweepers -> [todo : SUBSET States, n : Nat]]
      BY DEF Init, NoSweep
    <2> QED
      BY <1>2, <1>3, <1>5, <1>7, <2>1, <2>2 DEF Init, TypeOK
  <1>9. \A q \in published : \E x \in OfType(children, "state") : q.state = x /\ q.at = 0
    <2>1. published = {[state |-> x, at |-> 0] : x \in OfType(children, "state")}
      BY <1>1
    <2>2. \A q \in published : \E x \in OfType(children, "state") : q = [state |-> x, at |-> 0]
      BY <2>1
    <2> QED
      BY <2>2
  <1>10. \A x \in OfType(children, "state") : \E q \in published : q.state = x /\ q.at = 0
    <2>1. published = {[state |-> x, at |-> 0] : x \in OfType(children, "state")}
      BY <1>1
    <2>2. \A x \in OfType(children, "state") : [state |-> x, at |-> 0] \in published
      BY <2>1
    <2> QED
      BY <2>2
  <1>11. Named
    <2>1. \A c \in children : c.id < nextId
      BY <1>1, <1>2
    <2>2. \A c \in children : c.of # None => c.of < nextId
      BY <1>2, <2>1 DEF Ids
    <2>3. \A q \in published : q.state.id < nextId
      BY <1>6, <1>9, <2>1
    <2> QED
      BY <1>2, <2>1, <2>2, <2>3 DEF Named
  <1>12. SnapshotHolds /\ Cleanable /\ Erasing
    BY <1>2, <1>4 DEF Init, SnapshotHolds, Cleanable, Erasing, Acting, Committed, Idle
  <1>13. Dated
    <2>1. \A e \in Events(children) : 0 <= e.created
      BY <1>2, ObjectFacts DEF Events, OfType
    <2> QED
      BY <1>10, <2>1 DEF Dated
  <1>14. Retained
    BY DEF Init, Retained, NoSweep
  <1>15. Latest
    <2>1. \A q, z \in published : q.state.id = z.state.id => q.state = z.state
      BY <1>2, <1>6, <1>9
    <2>2. ASSUME NEW q \in published
          PROVE  \E m \in published :
                    /\ m.state.stream = q.state.stream
                    /\ \A z \in published : z.state.stream = q.state.stream =>
                           z.state = m.state \/ Older(z.state, m.state)
      <3>1. PICK x \in OfType(children, "state") : q.state = x
        BY <1>9
      <3>2. PICK y \in OfType(children, "state") :
               /\ y.stream = x.stream
               /\ \A z \in OfType(children, "state") : z.stream = x.stream => z = y \/ Older(z, y)
        BY <1>2
      <3>3. PICK m \in published : m.state = y
        BY <1>10
      <3> QED
        BY <1>9, <3>1, <3>2, <3>3
    <2> QED
      BY <2>1, <2>2 DEF Latest
  <1> QED
    BY <1>8, <1>11, <1>12, <1>13, <1>14, <1>15 DEF IndInv

THEOREM StepInv == IndInv /\ [Next]_vars => IndInv'
  <1> SUFFICES ASSUME IndInv, [Next]_vars
               PROVE  IndInv'
    OBVIOUS
  <1>1. ASSUME NEW r \in Requests, Step(r)
        PROVE  IndInv'
    BY <1>1, CreateTwinInv, TwinCallInv, FirstSnapshotInv, SnapshotInv, PrepareDeleteInv, DeleteTwinEventsInv,
       CleanupBatchInv, DeleteTwinInv, DeleteLegacyInv, RefusedInv DEF Step
  <1>2. CASE UNCHANGED vars
    BY <1>2 DEF vars, IndInv, TypeOK, Named, SnapshotHolds, Acting, Cleanable, Committed, Erasing, Dated,
                Retained, Due, Superseded, Latest
  <1> QED
    BY <1>1, <1>2, AskInv, AskCleanupInv, FailInv, ActivateInv, ListStatesInv, PruneStateInv, TickInv DEF Next

THEOREM Invariance == Spec => []IndInv
  BY InitInv, StepInv, PTL DEF Spec

(* Preparation cannot be undone, so what is prepared must be possible to   *)
(* clean to the end: whatever mixture of batches, of late writes and of    *)
(* pruning has run, every child of a prepared Twin is of a known type and  *)
(* has its parent.                                                         *)
THEOREM Finishable == Spec => []PreparedIsFinishable
  <1>1. IndInv => PreparedIsFinishable
    BY DEF IndInv, Cleanable, PreparedIsFinishable
  <1> QED
    BY <1>1, Invariance, PTL

(* A deletion never erases an event that was recorded before it began:     *)
(* those go with the bulk action.                                          *)
THEOREM BulkOnly == Spec => []ErasedInBulkOnly
  <1>1. IndInv => ErasedInBulkOnly
    BY DEF IndInv, Erasing, ErasedInBulkOnly
  <1> QED
    BY <1>1, Invariance, PTL

(* A state is pruned only when its period is over and some later state of  *)
(* its stream has not been pruned: the latest one that was ever published  *)
(* never is, whatever the index has missed.                                *)
THEOREM PruningIsSuperseded == Spec => []PrunedIsSuperseded
  <1>1. IndInv => PrunedIsSuperseded
    <2> SUFFICES ASSUME IndInv, NEW p \in pruned
                 PROVE  /\ \E q \in published : q.state = p.state /\ q.at + Retention <= p.at
                        /\ \E q \in published :
                              /\ q.state.stream = p.state.stream
                              /\ q.state.observed >= p.state.observed /\ q.state # p.state
                              /\ \A z \in pruned : z.state # q.state
      BY DEF PrunedIsSuperseded
    <2>1. Due(p.state, p.at) /\ Superseded(p.state)
      BY DEF IndInv, Retained
    <2>2. /\ \A q \in published : q.state \in States
          /\ \A z \in pruned : z.state \in States
      BY DEF IndInv, TypeOK, Times
    <2>3. PICK q \in published : q.state.stream = p.state.stream /\ Older(p.state, q.state)
      BY <2>1 DEF Superseded
    <2>4. PICK m \in published :
             /\ m.state.stream = q.state.stream
             /\ \A z \in published : z.state.stream = q.state.stream => z.state = m.state \/ Older(z.state, m.state)
      BY DEF IndInv, Latest
    <2>5. ASSUME NEW z \in pruned, z.state = m.state
          PROVE  FALSE
      <3>1. PICK l \in published : l.state.stream = m.state.stream /\ Older(m.state, l.state)
        BY <2>5 DEF IndInv, Retained, Superseded
      <3>2. l.state = m.state \/ Older(l.state, m.state)
        BY <2>4, <3>1
      <3> QED
        BY <2>2, <3>1, <3>2, OlderIsOrder
    <2>6. Older(p.state, m.state)
      <3>1. q.state = m.state \/ Older(q.state, m.state)
        BY <2>4
      <3> QED
        BY <2>2, <2>3, <3>1, OlderIsOrder
    <2>7. m.state.observed >= p.state.observed
      BY <2>2, <2>6 DEF Older, States
    <2>8. m.state # p.state
      BY <2>2, <2>6, OlderIsOrder
    <2> QED
      BY <2>1, <2>3, <2>4, <2>5, <2>7, <2>8 DEF Due
  <1> QED
    BY <1>1, Invariance, PTL
================================================================================
