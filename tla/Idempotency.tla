------------------------------ MODULE Idempotency ------------------------------
(***************************************************************************)
(* idempotencyMiddleware over a memory or a Redis store: mutating requests *)
(* that carry the same Idempotency-Key, to any server instance sharing the *)
(* store, race for a pending entry; the winner runs the handler and writes *)
(* the completed response, or deletes the entry after a 5xx.  The write is *)
(* not awaited: with Redis it lands after the client has its answer.       *)
(***************************************************************************)
EXTENDS Naturals

CONSTANTS
    Requests,          \* mutating requests with an Idempotency-Key
    Keys,              \* the keys clients choose
    Bodies,            \* fingerprints of method, path, body and subject
    MaxEras            \* bound on expiries of a key

ASSUME IdempotencyAssumption == MaxEras \in Nat

VARIABLES
    remote,            \* the store is Redis, otherwise it is in memory
    entry,             \* the store
    pc,                \* where each request is
    key,               \* its Idempotency-Key
    body,              \* its fingerprint
    answer,            \* what the client was told
    source,            \* the request whose response was replayed
    mutated,           \* the request's mutation took effect
    era,               \* history: how often the key's entry ended by itself
    eraOf,             \* history: the era in which the request ran
    overrun            \* history: keys whose entry expired under its handler

vars == <<remote, entry, pc, key, body, answer, source, mutated, era, eraOf, overrun>>

NoEntry == [state |-> "absent"]

Entry == [state : {"pending", "complete"}, body : Bodies, by : Requests]

Init ==
    /\ remote \in BOOLEAN
    /\ entry = [k \in Keys |-> NoEntry]
    /\ pc = [r \in Requests |-> "new"]
    /\ key \in [Requests -> Keys]
    /\ body \in [Requests -> Bodies]
    /\ answer = [r \in Requests |-> "none"]
    /\ source = [r \in Requests |-> r]
    /\ mutated = [r \in Requests |-> FALSE]
    /\ era = [k \in Keys |-> 0]
    /\ eraOf = [r \in Requests |-> 0]
    /\ overrun = {}

(* Faulty variants (names ending in Fault) change one definition the way a *)
(* plausible bug would; no specification uses them.                        *)
-------------------------------------------------------------------------------
AcquireFault(r) ==
    /\ pc[r] = "new"
    /\ entry[key[r]].state # "complete"
    /\ entry' = [entry EXCEPT ![key[r]] = [state |-> "pending", body |-> body[r], by |-> r]]
    /\ pc' = [pc EXCEPT ![r] = "running"]
    /\ eraOf' = [eraOf EXCEPT ![r] = era[key[r]]]
    /\ UNCHANGED <<remote, key, body, answer, source, mutated, era, overrun>>

(* acquire wins: the Map of the memory store, SET NX of Redis. *)
Acquire(r) ==
    /\ pc[r] = "new"
    /\ entry[key[r]] = NoEntry
    /\ entry' = [entry EXCEPT ![key[r]] = [state |-> "pending", body |-> body[r], by |-> r]]
    /\ pc' = [pc EXCEPT ![r] = "running"]
    /\ eraOf' = [eraOf EXCEPT ![r] = era[key[r]]]
    /\ UNCHANGED <<remote, key, body, answer, source, mutated, era, overrun>>

RefuseFault(r) ==
    LET e == entry[key[r]] IN
    /\ answer' = [answer EXCEPT ![r] =
          IF e = NoEntry THEN "conflict"
          ELSE IF e.state = "complete" THEN "replayed" ELSE "inProgress"]
    /\ source' = [source EXCEPT ![r] =
          IF e # NoEntry /\ e.state = "complete" THEN e.by ELSE r]
    /\ pc' = [pc EXCEPT ![r] = "done"]

RefuseConflictFault(r) ==
    LET e == entry[key[r]] IN
    /\ answer' = [answer EXCEPT ![r] =
          IF e # NoEntry /\ e.state = "complete" /\ e.body = body[r]
          THEN "replayed" ELSE "conflict"]
    /\ source' = [source EXCEPT ![r] =
          IF e # NoEntry /\ e.body = body[r] /\ e.state = "complete" THEN e.by ELSE r]
    /\ pc' = [pc EXCEPT ![r] = "done"]

(* The answers to a request that did not get the entry. *)
Refuse(r) ==
    LET e == entry[key[r]] IN
    /\ answer' = [answer EXCEPT ![r] =
          IF e = NoEntry \/ (e # NoEntry /\ e.body # body[r]) THEN "conflict"
          ELSE IF e.state = "complete" THEN "replayed" ELSE "inProgress"]
    /\ source' = [source EXCEPT ![r] =
          IF e # NoEntry /\ e.body = body[r] /\ e.state = "complete" THEN e.by ELSE r]
    /\ pc' = [pc EXCEPT ![r] = "done"]

(* Redis fails under acquire, before or after it set the entry; the        *)
(* response hook is not installed yet, so nothing releases the entry.      *)
AcquireFails(r, applied) ==
    /\ remote
    /\ pc[r] = "new"
    /\ applied => entry[key[r]] = NoEntry
    /\ entry' = IF applied
                THEN [entry EXCEPT ![key[r]] = [state |-> "pending", body |-> body[r], by |-> r]]
                ELSE entry
    /\ answer' = [answer EXCEPT ![r] = "serverError"]
    /\ pc' = [pc EXCEPT ![r] = "done"]
    /\ UNCHANGED <<remote, key, body, source, mutated, era, eraOf, overrun>>

(* acquire loses.  The memory store returns the entry it found; with Redis *)
(* the entry is read by a second command.                                  *)
AcquireLoses(r) ==
    /\ pc[r] = "new"
    /\ entry[key[r]] # NoEntry
    /\ \/ /\ ~remote
          /\ Refuse(r)
       \/ /\ remote
          /\ pc' = [pc EXCEPT ![r] = "lookup"]
          /\ UNCHANGED <<answer, source>>
    /\ UNCHANGED <<remote, entry, key, body, mutated, era, eraOf, overrun>>

Lookup(r) ==
    /\ pc[r] = "lookup"
    /\ Refuse(r)
    /\ UNCHANGED <<remote, entry, key, body, mutated, era, eraOf, overrun>>

Complete(r) == [entry EXCEPT ![key[r]] = [state |-> "complete", body |-> body[r], by |-> r]]

Released(r) == [entry EXCEPT ![key[r]] = NoEntry]

(* The handler answers below 500; took says whether it mutated anything.   *)
HandlerAnswers(r, took) ==
    /\ pc[r] = "running"
    /\ mutated' = [mutated EXCEPT ![r] = took]
    /\ answer' = [answer EXCEPT ![r] = "executed"]
    /\ pc' = [pc EXCEPT ![r] = IF remote THEN "storing" ELSE "done"]
    /\ entry' = IF remote THEN entry ELSE Complete(r)
    /\ UNCHANGED <<remote, key, body, source, era, eraOf, overrun>>

(* The handler answers 5xx; the mutation may have taken effect all the     *)
(* same, as when the outcome of a submission is unknown.                   *)
HandlerErrs(r, took) ==
    /\ pc[r] = "running"
    /\ mutated' = [mutated EXCEPT ![r] = took]
    /\ answer' = [answer EXCEPT ![r] = "serverError"]
    /\ pc' = [pc EXCEPT ![r] = IF remote THEN "deleting" ELSE "done"]
    /\ entry' = IF remote THEN entry ELSE Released(r)
    /\ UNCHANGED <<remote, key, body, source, era, eraOf, overrun>>

(* The store.put or store.delete that nobody awaits reaches Redis. *)
WriteLands(r) ==
    /\ pc[r] \in {"storing", "deleting"}
    /\ entry' = IF pc[r] = "storing" THEN Complete(r) ELSE Released(r)
    /\ pc' = [pc EXCEPT ![r] = "done"]
    /\ UNCHANGED <<remote, key, body, answer, source, mutated, era, eraOf, overrun>>

(* The instance serving the request dies, or Redis refuses the write. *)
InstanceDies(r, took) ==
    /\ remote
    /\ pc[r] \in {"running", "storing", "deleting"}
    /\ mutated' = [mutated EXCEPT ![r] = IF pc[r] = "running" THEN took ELSE @]
    /\ pc' = [pc EXCEPT ![r] = "lost"]
    /\ UNCHANGED <<remote, entry, key, body, answer, source, era, eraOf, overrun>>

Running == {r \in Requests : pc[r] = "running"}

(* The only server instance dies and its memory store with it; took are    *)
(* the running handlers that had already mutated something.                *)
ServerDies(took) ==
    /\ ~remote
    /\ Running # {}
    /\ \A k \in Keys : era[k] < MaxEras
    /\ mutated' = [r \in Requests |-> mutated[r] \/ r \in took]
    /\ pc' = [r \in Requests |-> IF r \in Running THEN "lost" ELSE pc[r]]
    /\ entry' = [k \in Keys |-> NoEntry]
    /\ era' = [k \in Keys |-> era[k] + 1]
    /\ UNCHANGED <<remote, key, body, answer, source, eraOf, overrun>>

(* Someone still works on the entry. *)
Busy(k) == \E r \in Requests : key[r] = k /\ pc[r] \in {"running", "storing", "deleting"}

(* The time to live of an entry passes. *)
Expire(k) ==
    /\ entry[k] # NoEntry
    /\ era[k] < MaxEras
    /\ entry' = [entry EXCEPT ![k] = NoEntry]
    /\ era' = [era EXCEPT ![k] = @ + 1]
    /\ overrun' = IF Busy(k) THEN overrun \cup {k} ELSE overrun
    /\ UNCHANGED <<remote, pc, key, body, answer, source, mutated, eraOf>>

Next ==
    \/ \E r \in Requests :
          \/ Acquire(r)
          \/ AcquireLoses(r)
          \/ Lookup(r)
          \/ WriteLands(r)
          \/ \E took \in BOOLEAN :
                \/ HandlerAnswers(r, took)
                \/ HandlerErrs(r, took)
                \/ InstanceDies(r, took)
                \/ AcquireFails(r, took)
    \/ \E took \in SUBSET Running : ServerDies(took)
    \/ \E k \in Keys : Expire(k)

Spec == Init /\ [][Next]_vars

-------------------------------------------------------------------------------
Together(r, q) == key[r] = key[q] /\ eraOf[r] = eraOf[q]

(* "allows only one mutation across two instances sharing a store": of the *)
(* requests with one key at most one takes effect, until the key's entry   *)
(* expires or the store is lost; except that a mutation answered 5xx       *)
(* releases its key, and a handler may outlast its entry.                  *)
OneAnsweredMutation ==
    \A r, q \in Requests :
        /\ mutated[r] /\ mutated[q]
        /\ Together(r, q)
        /\ "serverError" \notin {answer[r], answer[q]}
        /\ key[r] \notin overrun
        => r = q

(* A replayed response belongs to an earlier execution of the same key and *)
(* the same fingerprint that was answered below 500, never to another      *)
(* caller's request.                                                       *)
ReplayIsFaithful ==
    \A r \in Requests : answer[r] = "replayed" =>
        /\ source[r] # r
        /\ key[source[r]] = key[r]
        /\ body[source[r]] = body[r]
        /\ answer[source[r]] = "executed"

(* "Idempotency-Key was reused with a different request": IDEMPOTENCY_     *)
(* CONFLICT is answered only when another fingerprint used the key; with   *)
(* Redis also when the entry goes between SET NX and GET.                  *)
ConflictIsTrue ==
    \A r \in Requests : answer[r] = "conflict" /\ ~remote =>
        \E q \in Requests : key[q] = key[r] /\ body[q] # body[r]

===============================================================================
