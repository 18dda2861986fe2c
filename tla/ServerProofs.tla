------------------------------ MODULE ServerProofs -----------------------------
(***************************************************************************)
(* Proofs about what stands between a request and its effect: Idempotency, *)
(* for every set of requests, keys and bodies, either store and any number *)
(* of expiries; SponsoredExecutor, for any number of operations and gas    *)
(* stations; TenantCredentials, for any number of calls, tenants and       *)
(* devices.                                                                *)
(***************************************************************************)
EXTENDS Idempotency, SponsoredExecutor, TenantCredentials, TLAPS

(* The idempotency middleware and its stores. *)
Working == {"running", "storing", "deleting"}

TypeOK ==
    /\ remote \in BOOLEAN
    /\ entry \in [Keys -> Entry \cup {NoEntry}]
    /\ pc \in [Requests -> {"new", "lookup", "done", "lost"} \cup Working]
    /\ key \in [Requests -> Keys]
    /\ body \in [Requests -> Bodies]
    /\ answer \in [Requests -> {"none", "executed", "replayed", "inProgress", "conflict", "serverError"}]
    /\ source \in [Requests -> Requests]
    /\ mutated \in [Requests -> BOOLEAN]
    /\ era \in [Keys -> Nat]
    /\ eraOf \in [Requests -> Nat]
    /\ overrun \in SUBSET Keys

(* Where a request is tells what it was answered and whether it mutated. *)
PhaseKnowsAnswer ==
    \A r \in Requests :
        /\ pc[r] \in {"new", "lookup", "running"} => answer[r] = "none" /\ ~mutated[r]
        /\ pc[r] = "storing" => answer[r] = "executed"
        /\ pc[r] = "deleting" => answer[r] = "serverError"
        /\ pc[r] \in {"lookup", "storing", "deleting"} => remote

(* An entry belongs to a request of its key and fingerprint that has left  *)
(* acquire; a completed one to a request that was answered below 500.      *)
EntryIsOwned ==
    \A k \in Keys : entry[k] # NoEntry =>
        LET r == entry[k].by IN
        /\ key[r] = k
        /\ body[r] = entry[k].body
        /\ pc[r] \notin {"new", "lookup"}
        /\ entry[k].state = "complete" => answer[r] = "executed"

(* A request that counts against its key: it still works on the entry, or  *)
(* it mutated something and was not answered 5xx.                          *)
Counts(r) == pc[r] \in Working \/ (mutated[r] /\ answer[r] # "serverError")

(* Only the request that holds the entry counts in the era of now, and no  *)
(* request works on behalf of an earlier era unless its entry expired      *)
(* under it.                                                               *)
HolderCounts ==
    \A r \in Requests :
        /\ eraOf[r] <= era[key[r]]
        /\ key[r] \notin overrun =>
              /\ pc[r] \in Working => eraOf[r] = era[key[r]]
              /\ Counts(r) /\ eraOf[r] = era[key[r]] =>
                    entry[key[r]] # NoEntry /\ entry[key[r]].by = r

IndInv ==
    /\ TypeOK /\ PhaseKnowsAnswer /\ EntryIsOwned /\ HolderCounts
    /\ OneAnsweredMutation /\ ReplayIsFaithful /\ ConflictIsTrue

LEMMA InitInv == Init => IndInv
  <1> SUFFICES ASSUME Init PROVE IndInv
    OBVIOUS
  <1>1. TypeOK
    BY DEF Init, TypeOK, Working
  <1>2. PhaseKnowsAnswer /\ HolderCounts
    BY DEF Init, PhaseKnowsAnswer, HolderCounts, Counts, Working
  <1>3. EntryIsOwned
    BY DEF Init, EntryIsOwned
  <1>4. OneAnsweredMutation /\ ReplayIsFaithful /\ ConflictIsTrue
    BY DEF Init, OneAnsweredMutation, ReplayIsFaithful, ConflictIsTrue
  <1> QED
    BY <1>1, <1>2, <1>3, <1>4 DEF IndInv

LEMMA AcquireInv ==
  ASSUME IndInv, NEW r \in Requests, Acquire(r)
  PROVE  IndInv'
  <1> USE DEF IndInv
  <1>1. TypeOK'
    BY DEF TypeOK, Acquire, Entry, NoEntry, Working
  <1>2. PhaseKnowsAnswer'
    BY DEF PhaseKnowsAnswer, TypeOK, Acquire, Working
  <1>3. EntryIsOwned'
    BY DEF EntryIsOwned, PhaseKnowsAnswer, TypeOK, Acquire, Entry, NoEntry, Working
  <1>4. HolderCounts'
    BY DEF HolderCounts, Counts, PhaseKnowsAnswer, EntryIsOwned, TypeOK, Acquire, Entry, NoEntry, Working
  <1>5. OneAnsweredMutation'
    BY DEF OneAnsweredMutation, Together, HolderCounts, Counts, PhaseKnowsAnswer, TypeOK, Acquire, Working
  <1>6. ReplayIsFaithful'
    BY DEF ReplayIsFaithful, EntryIsOwned, PhaseKnowsAnswer, TypeOK, Acquire, Entry, NoEntry, Working
  <1>7. ConflictIsTrue'
    BY DEF ConflictIsTrue, EntryIsOwned, PhaseKnowsAnswer, TypeOK, Acquire, Entry, NoEntry, Working
  <1> QED
    BY <1>1, <1>2, <1>3, <1>4, <1>5, <1>6, <1>7

LEMMA AcquireFailsInv ==
  ASSUME IndInv, NEW r \in Requests, NEW applied \in BOOLEAN, AcquireFails(r, applied)
  PROVE  IndInv'
  <1> USE DEF IndInv
  <1>1. TypeOK'
    BY DEF TypeOK, AcquireFails, Entry, NoEntry, Working
  <1>2. PhaseKnowsAnswer'
    BY DEF PhaseKnowsAnswer, TypeOK, AcquireFails, Working
  <1>3. EntryIsOwned'
    BY DEF EntryIsOwned, PhaseKnowsAnswer, TypeOK, AcquireFails, Entry, NoEntry, Working
  <1>4. HolderCounts'
    BY DEF HolderCounts, Counts, PhaseKnowsAnswer, EntryIsOwned, TypeOK, AcquireFails, Entry, NoEntry, Working
  <1>5. OneAnsweredMutation'
    BY DEF OneAnsweredMutation, Together, HolderCounts, Counts, PhaseKnowsAnswer, TypeOK, AcquireFails, Working
  <1>6. ReplayIsFaithful'
    BY DEF ReplayIsFaithful, EntryIsOwned, PhaseKnowsAnswer, TypeOK, AcquireFails, Entry, NoEntry, Working
  <1>7. ConflictIsTrue'
    BY DEF ConflictIsTrue, EntryIsOwned, PhaseKnowsAnswer, TypeOK, AcquireFails, Entry, NoEntry, Working
  <1> QED
    BY <1>1, <1>2, <1>3, <1>4, <1>5, <1>6, <1>7

LEMMA AcquireLosesInv ==
  ASSUME IndInv, NEW r \in Requests, AcquireLoses(r)
  PROVE  IndInv'
  <1> USE DEF IndInv
  <1>1. TypeOK'
    BY DEF TypeOK, AcquireLoses, Refuse, Entry, NoEntry, Working
  <1>2. PhaseKnowsAnswer'
    BY DEF PhaseKnowsAnswer, TypeOK, AcquireLoses, Refuse, Working
  <1>3. EntryIsOwned'
    BY DEF EntryIsOwned, PhaseKnowsAnswer, TypeOK, AcquireLoses, Refuse, Entry, NoEntry, Working
  <1>4. HolderCounts'
    BY DEF HolderCounts, Counts, PhaseKnowsAnswer, EntryIsOwned, TypeOK, AcquireLoses, Refuse, Entry,
           NoEntry, Working
  <1>5. OneAnsweredMutation'
    BY DEF OneAnsweredMutation, Together, HolderCounts, Counts, PhaseKnowsAnswer, TypeOK, AcquireLoses,
           Refuse, Working
  <1>6. ReplayIsFaithful'
    BY DEF ReplayIsFaithful, EntryIsOwned, PhaseKnowsAnswer, TypeOK, AcquireLoses, Refuse, Entry, NoEntry, Working
  <1>7. ConflictIsTrue'
    BY DEF ConflictIsTrue, EntryIsOwned, PhaseKnowsAnswer, TypeOK, AcquireLoses, Refuse, Entry, NoEntry, Working
  <1> QED
    BY <1>1, <1>2, <1>3, <1>4, <1>5, <1>6, <1>7

LEMMA LookupInv ==
  ASSUME IndInv, NEW r \in Requests, Lookup(r)
  PROVE  IndInv'
  <1> USE DEF IndInv
  <1>1. TypeOK'
    BY DEF TypeOK, Lookup, Refuse, Entry, NoEntry, Working
  <1>2. PhaseKnowsAnswer'
    BY DEF PhaseKnowsAnswer, TypeOK, Lookup, Refuse, Working
  <1>3. EntryIsOwned'
    BY DEF EntryIsOwned, PhaseKnowsAnswer, TypeOK, Lookup, Refuse, Entry, NoEntry, Working
  <1>4. HolderCounts'
    BY DEF HolderCounts, Counts, PhaseKnowsAnswer, EntryIsOwned, TypeOK, Lookup, Refuse, Entry, NoEntry, Working
  <1>5. OneAnsweredMutation'
    BY DEF OneAnsweredMutation, Together, HolderCounts, Counts, PhaseKnowsAnswer, TypeOK, Lookup, Refuse, Working
  <1>6. ReplayIsFaithful'
    BY DEF ReplayIsFaithful, EntryIsOwned, PhaseKnowsAnswer, TypeOK, Lookup, Refuse, Entry, NoEntry, Working
  <1>7. ConflictIsTrue'
    BY DEF ConflictIsTrue, EntryIsOwned, PhaseKnowsAnswer, TypeOK, Lookup, Refuse, Entry, NoEntry, Working
  <1> QED
    BY <1>1, <1>2, <1>3, <1>4, <1>5, <1>6, <1>7

LEMMA WriteLandsInv ==
  ASSUME IndInv, NEW r \in Requests, WriteLands(r)
  PROVE  IndInv'
  <1> USE DEF IndInv
  <1>1. TypeOK'
    BY DEF TypeOK, WriteLands, Complete, Released, Entry, NoEntry, Working
  <1>2. PhaseKnowsAnswer'
    BY DEF PhaseKnowsAnswer, TypeOK, WriteLands, Complete, Released, Working
  <1>3. EntryIsOwned'
    BY DEF EntryIsOwned, PhaseKnowsAnswer, TypeOK, WriteLands, Complete, Released, Entry, NoEntry, Working
  <1>4. HolderCounts'
    BY DEF HolderCounts, Counts, PhaseKnowsAnswer, EntryIsOwned, TypeOK, WriteLands, Complete, Released,
           Entry, NoEntry, Working
  <1>5. OneAnsweredMutation'
    BY DEF OneAnsweredMutation, Together, HolderCounts, Counts, PhaseKnowsAnswer, TypeOK, WriteLands,
           Complete, Released, Working
  <1>6. ReplayIsFaithful'
    BY DEF ReplayIsFaithful, EntryIsOwned, PhaseKnowsAnswer, TypeOK, WriteLands, Complete, Released, Entry,
           NoEntry, Working
  <1>7. ConflictIsTrue'
    BY DEF ConflictIsTrue, EntryIsOwned, PhaseKnowsAnswer, TypeOK, WriteLands, Complete, Released, Entry,
           NoEntry, Working
  <1> QED
    BY <1>1, <1>2, <1>3, <1>4, <1>5, <1>6, <1>7

LEMMA HandlerAnswersInv ==
  ASSUME IndInv, NEW r \in Requests, NEW took \in BOOLEAN, HandlerAnswers(r, took)
  PROVE  IndInv'
  <1> USE DEF IndInv
  <1>1. TypeOK'
    BY DEF TypeOK, HandlerAnswers, Complete, Entry, NoEntry, Working
  <1>2. PhaseKnowsAnswer'
    BY DEF PhaseKnowsAnswer, TypeOK, HandlerAnswers, Complete, Working
  <1>3. EntryIsOwned'
    BY DEF EntryIsOwned, PhaseKnowsAnswer, TypeOK, HandlerAnswers, Complete, Entry, NoEntry, Working
  <1>4. HolderCounts'
    BY DEF HolderCounts, Counts, PhaseKnowsAnswer, EntryIsOwned, TypeOK, HandlerAnswers, Complete, Entry,
           NoEntry, Working
  <1>5. OneAnsweredMutation'
    BY DEF OneAnsweredMutation, Together, HolderCounts, Counts, PhaseKnowsAnswer, TypeOK, HandlerAnswers,
           Complete, Working
  <1>6. ReplayIsFaithful'
    BY DEF ReplayIsFaithful, EntryIsOwned, PhaseKnowsAnswer, TypeOK, HandlerAnswers, Complete, Entry,
           NoEntry, Working
  <1>7. ConflictIsTrue'
    BY DEF ConflictIsTrue, EntryIsOwned, PhaseKnowsAnswer, TypeOK, HandlerAnswers, Complete, Entry, NoEntry, Working
  <1> QED
    BY <1>1, <1>2, <1>3, <1>4, <1>5, <1>6, <1>7

LEMMA HandlerErrsInv ==
  ASSUME IndInv, NEW r \in Requests, NEW took \in BOOLEAN, HandlerErrs(r, took)
  PROVE  IndInv'
  <1> USE DEF IndInv
  <1>1. TypeOK'
    BY DEF TypeOK, HandlerErrs, Released, Entry, NoEntry, Working
  <1>2. PhaseKnowsAnswer'
    BY DEF PhaseKnowsAnswer, TypeOK, HandlerErrs, Released, Working
  <1>3. EntryIsOwned'
    BY DEF EntryIsOwned, PhaseKnowsAnswer, TypeOK, HandlerErrs, Released, Entry, NoEntry, Working
  <1>4. HolderCounts'
    BY DEF HolderCounts, Counts, PhaseKnowsAnswer, EntryIsOwned, TypeOK, HandlerErrs, Released, Entry,
           NoEntry, Working
  <1>5. OneAnsweredMutation'
    BY DEF OneAnsweredMutation, Together, HolderCounts, Counts, PhaseKnowsAnswer, TypeOK, HandlerErrs,
           Released, Working
  <1>6. ReplayIsFaithful'
    BY DEF ReplayIsFaithful, EntryIsOwned, PhaseKnowsAnswer, TypeOK, HandlerErrs, Released, Entry, NoEntry, Working
  <1>7. ConflictIsTrue'
    BY DEF ConflictIsTrue, EntryIsOwned, PhaseKnowsAnswer, TypeOK, HandlerErrs, Released, Entry, NoEntry, Working
  <1> QED
    BY <1>1, <1>2, <1>3, <1>4, <1>5, <1>6, <1>7

LEMMA InstanceDiesInv ==
  ASSUME IndInv, NEW r \in Requests, NEW took \in BOOLEAN, InstanceDies(r, took)
  PROVE  IndInv'
  <1> USE DEF IndInv
  <1>1. TypeOK'
    BY DEF TypeOK, InstanceDies, Entry, NoEntry, Working
  <1>2. PhaseKnowsAnswer'
    BY DEF PhaseKnowsAnswer, TypeOK, InstanceDies, Working
  <1>3. EntryIsOwned'
    BY DEF EntryIsOwned, PhaseKnowsAnswer, TypeOK, InstanceDies, Entry, NoEntry, Working
  <1>4. HolderCounts'
    BY DEF HolderCounts, Counts, PhaseKnowsAnswer, EntryIsOwned, TypeOK, InstanceDies, Entry, NoEntry, Working
  <1>5. OneAnsweredMutation'
    BY DEF OneAnsweredMutation, Together, HolderCounts, Counts, PhaseKnowsAnswer, TypeOK, InstanceDies, Working
  <1>6. ReplayIsFaithful'
    BY DEF ReplayIsFaithful, EntryIsOwned, PhaseKnowsAnswer, TypeOK, InstanceDies, Entry, NoEntry, Working
  <1>7. ConflictIsTrue'
    BY DEF ConflictIsTrue, EntryIsOwned, PhaseKnowsAnswer, TypeOK, InstanceDies, Entry, NoEntry, Working
  <1> QED
    BY <1>1, <1>2, <1>3, <1>4, <1>5, <1>6, <1>7

LEMMA ServerDiesInv ==
  ASSUME IndInv, NEW took \in SUBSET Running, ServerDies(took)
  PROVE  IndInv'
  <1> USE DEF IndInv
  <1>1. TypeOK'
    BY DEF TypeOK, ServerDies, Running, Entry, NoEntry, Working
  <1>2. PhaseKnowsAnswer' /\ EntryIsOwned'
    BY DEF PhaseKnowsAnswer, EntryIsOwned, TypeOK, ServerDies, Running, Working
  <1>3. HolderCounts'
    BY DEF HolderCounts, Counts, PhaseKnowsAnswer, TypeOK, ServerDies, Running, Working
  <1>4. OneAnsweredMutation'
    BY DEF OneAnsweredMutation, Together, HolderCounts, Counts, TypeOK, ServerDies, Running, Working
  <1>5. ReplayIsFaithful' /\ ConflictIsTrue'
    BY DEF ReplayIsFaithful, ConflictIsTrue, TypeOK, ServerDies
  <1> QED
    BY <1>1, <1>2, <1>3, <1>4, <1>5

LEMMA ExpireInv ==
  ASSUME IndInv, NEW k \in Keys, Expire(k)
  PROVE  IndInv'
  <1> USE DEF IndInv
  <1>1. TypeOK'
    BY DEF TypeOK, Expire, Entry, NoEntry
  <1>2. PhaseKnowsAnswer' /\ EntryIsOwned'
    BY DEF PhaseKnowsAnswer, EntryIsOwned, TypeOK, Expire
  <1>3. HolderCounts'
    BY DEF HolderCounts, Counts, Busy, TypeOK, Expire, Working
  <1>4. OneAnsweredMutation' /\ ReplayIsFaithful' /\ ConflictIsTrue'
    BY DEF OneAnsweredMutation, Together, ReplayIsFaithful, ConflictIsTrue, TypeOK, Expire
  <1> QED
    BY <1>1, <1>2, <1>3, <1>4

LEMMA StepInv == IndInv /\ [Next]_vars => IndInv'
  <1> SUFFICES ASSUME IndInv, [Next]_vars PROVE IndInv'
    OBVIOUS
  <1>1. CASE UNCHANGED vars
    BY <1>1 DEF vars, IndInv, TypeOK, PhaseKnowsAnswer, EntryIsOwned, HolderCounts, Counts,
                OneAnsweredMutation, Together, ReplayIsFaithful, ConflictIsTrue
  <1>2. ASSUME NEW r \in Requests,
               Acquire(r) \/ AcquireLoses(r) \/ Lookup(r) \/ WriteLands(r)
        PROVE  IndInv'
    BY <1>2, AcquireInv, AcquireLosesInv, LookupInv, WriteLandsInv
  <1>3. ASSUME NEW r \in Requests, NEW took \in BOOLEAN,
               \/ HandlerAnswers(r, took) \/ HandlerErrs(r, took)
               \/ InstanceDies(r, took) \/ AcquireFails(r, took)
        PROVE  IndInv'
    BY <1>3, HandlerAnswersInv, HandlerErrsInv, InstanceDiesInv, AcquireFailsInv
  <1>4. ASSUME NEW took \in SUBSET Running, ServerDies(took)
        PROVE  IndInv'
    BY <1>4, ServerDiesInv
  <1>5. ASSUME NEW k \in Keys, Expire(k)
        PROVE  IndInv'
    BY <1>5, ExpireInv
  <1> QED
    BY <1>1, <1>2, <1>3, <1>4, <1>5 DEF Next

LEMMA Invariance == Spec => []IndInv
  BY InitInv, StepInv, PTL DEF Spec

(* Among the requests that carry one Idempotency-Key, on any number of     *)
(* server instances and whichever of them die, at most one mutation that   *)
(* was not answered 5xx takes effect before the key's entry expires.       *)
THEOREM SingleMutation == Spec => []OneAnsweredMutation
  <1>1. IndInv => OneAnsweredMutation
    BY DEF IndInv
  <1> QED
    BY <1>1, Invariance, PTL

(* A response is replayed only to a request with the key and fingerprint   *)
(* of the one that was executed and answered below 500.                    *)
THEOREM FaithfulReplay == Spec => []ReplayIsFaithful
  <1>1. IndInv => ReplayIsFaithful
    BY DEF IndInv
  <1> QED
    BY <1>1, Invariance, PTL

(* With the store in memory, a request is told that its key was reused     *)
(* only if another fingerprint did use it.                                 *)
THEOREM TrueConflict == Spec => []ConflictIsTrue
  <1>1. IndInv => ConflictIsTrue
    BY DEF IndInv
  <1> QED
    BY <1>1, Invariance, PTL

-------------------------------------------------------------------------------
(* The executor of sponsored transactions. *)
(* Where a call is tells which stations can have committed: none before    *)
(* the current one but those that answered without a digest, none after it. *)
OnlyCurrentSubmitted ==
    \A o \in Operations, s \in Stations :
        /\ s < station[o] => fate[o][s] \in {"unsent", "never"} \/ s \in garbled[o]
        /\ s > station[o] => fate[o][s] = "unsent"

PhaseKnowsFate ==
    \A o \in Operations :
        /\ progress[o] \in {"reserving", "executing"} => fate[o][station[o]] = "unsent"
        /\ outcome[o] \in {"transactionFailed", "unavailable"} =>
              fate[o][station[o]] # "committed" \/ station[o] \in garbled[o]
        /\ outcome[o] = "success" => fate[o][station[o]] = "committed"
        /\ progress[o] # "done" => outcome[o] = "none"

ExecutorInv == ExecutorTypeOK /\ OnlyCurrentSubmitted /\ PhaseKnowsFate

LEMMA ExecutorInitInv == ExecutorInit => ExecutorInv
  BY ExecutorAssumption
  DEF ExecutorInit, ExecutorInv, ExecutorTypeOK, OnlyCurrentSubmitted, PhaseKnowsFate, Stations, Fates, Outcomes

(* A call fails over only from a station that committed nothing and cannot *)
(* commit later, or that answered without a digest.                        *)
LEMMA FailOverInv ==
  ASSUME ExecutorInv, NEW o \in Operations, progress[o] \in {"reserving", "executing"},
         FailOver(o),
         NEW sent \in Fates, NEW odd \in SUBSET Stations,
         fate' = [fate EXCEPT ![o][station[o]] = sent],
         garbled' = [garbled EXCEPT ![o] = odd],
         garbled[o] \subseteq odd,
         sent \in {"unsent", "never"} \/ station[o] \in odd
  PROVE  ExecutorInv'
  <1> USE ExecutorAssumption DEF ExecutorInv, Stations
  <1>1. ExecutorTypeOK'
    <2>1. /\ fate' \in [Operations -> [Stations -> Fates]]
          /\ garbled' \in [Operations -> SUBSET Stations]
      BY DEF ExecutorTypeOK, Fates
    <2>2. CASE /\ station[o] < StationCount
               /\ station' = [station EXCEPT ![o] = @ + 1]
               /\ progress' = [progress EXCEPT ![o] = "reserving"]
               /\ UNCHANGED outcome
      <3>1. station \in [Operations -> 1..StationCount] /\ StationCount \in Nat
        BY DEF ExecutorTypeOK
      <3>2. station[o] + 1 \in 1..StationCount
        BY <2>2, <3>1
      <3>3. station' \in [Operations -> 1..StationCount]
        BY <2>2, <3>1, <3>2
      <3> QED
        BY <2>1, <2>2, <3>3 DEF ExecutorTypeOK
    <2>3. CASE Conclude(o, "unavailable")
      BY <2>1, <2>3 DEF ExecutorTypeOK, Conclude, Outcomes
    <2> QED
      BY <2>2, <2>3 DEF FailOver
  <1>2. \A p \in Operations, s \in Stations :
           fate'[p][s] = IF p = o /\ s = station[o] THEN sent ELSE fate[p][s]
    BY DEF ExecutorTypeOK
  <1>3. \A p \in Operations : garbled'[p] = IF p = o THEN odd ELSE garbled[p]
    BY DEF ExecutorTypeOK
  <1>4. \A p \in Operations : p # o => /\ station'[p] = station[p]
                                       /\ progress'[p] = progress[p]
                                       /\ outcome'[p] = outcome[p]
    BY DEF FailOver, Conclude, ExecutorTypeOK
  <1>5. \/ /\ station[o] < StationCount
           /\ station'[o] = station[o] + 1
           /\ progress'[o] = "reserving"
           /\ outcome'[o] = "none"
        \/ /\ station'[o] = station[o]
           /\ progress'[o] = "done"
           /\ outcome'[o] = "unavailable"
    BY DEF FailOver, Conclude, ExecutorTypeOK, PhaseKnowsFate
  <1>6. station[o] \in 1..StationCount
    BY DEF ExecutorTypeOK
  <1>7. OnlyCurrentSubmitted'
    <2>1. ASSUME NEW p \in Operations, p # o, NEW s \in Stations
          PROVE  /\ s < station'[p] => fate'[p][s] \in {"unsent", "never"} \/ s \in garbled'[p]
                 /\ s > station'[p] => fate'[p][s] = "unsent"
      BY <2>1, <1>2, <1>4, <1>3 DEF OnlyCurrentSubmitted
    <2>2. ASSUME NEW s \in Stations
          PROVE  /\ s < station'[o] => fate'[o][s] \in {"unsent", "never"} \/ s \in garbled'[o]
                 /\ s > station'[o] => fate'[o][s] = "unsent"
      <3>1. CASE s = station[o]
        BY <3>1, <1>2, <1>5, <1>6, <1>3
      <3>2. CASE s < station[o]
        BY <3>2, <1>2, <1>5, <1>6, <1>3 DEF OnlyCurrentSubmitted
      <3>3. CASE s > station[o]
        BY <3>3, <1>2, <1>5, <1>6, <1>3 DEF OnlyCurrentSubmitted
      <3> QED
        BY <3>1, <3>2, <3>3, <1>6
    <2> QED
      BY <2>1, <2>2 DEF OnlyCurrentSubmitted
  <1>8. PhaseKnowsFate'
    <2>1. \A p \in Operations : p # o => fate'[p] = fate[p]
      BY DEF ExecutorTypeOK
    <2>2. ASSUME station[o] < StationCount, station'[o] = station[o] + 1
          PROVE  fate'[o][station'[o]] = "unsent"
      BY <2>2, <1>2, <1>6 DEF OnlyCurrentSubmitted
    <2>3. fate'[o][station[o]] # "committed" \/ station[o] \in garbled'[o]
      BY <1>2, <1>6, <1>3
    <2> QED
      BY <1>4, <1>5, <1>3, <2>1, <2>2, <2>3 DEF PhaseKnowsFate, ExecutorTypeOK
  <1> QED
    BY <1>1, <1>7, <1>8

(* The other steps leave the call at its station. *)
LEMMA StayInv ==
  ASSUME ExecutorInv, NEW o \in Operations, NEW sent \in Fates, NEW next \in {"executing", "confirming", "done"},
         NEW result \in Outcomes,
         UNCHANGED <<station, garbled>>,
         progress' = [progress EXCEPT ![o] = next],
         fate' = [fate EXCEPT ![o][station[o]] = sent],
         outcome' = [outcome EXCEPT ![o] = result],
         next = "executing" => sent = "unsent",
         next # "done" => result = "none",
         result \in {"transactionFailed", "unavailable"} => sent # "committed",
         result = "success" => sent = "committed"
  PROVE  ExecutorInv'
  <1> USE DEF ExecutorInv, Stations
  <1>1. ExecutorTypeOK'
    BY DEF ExecutorTypeOK
  <1>2. \A p \in Operations, s \in Stations :
           fate'[p][s] = IF p = o /\ s = station[o] THEN sent ELSE fate[p][s]
    BY DEF ExecutorTypeOK
  <1>3. \A p \in Operations : station[p] \in 1..StationCount
    BY DEF ExecutorTypeOK
  <1>4. OnlyCurrentSubmitted'
    BY <1>2, <1>3 DEF OnlyCurrentSubmitted
  <1>5. PhaseKnowsFate'
    BY <1>2, <1>3 DEF PhaseKnowsFate, ExecutorTypeOK
  <1> QED
    BY <1>1, <1>4, <1>5

LEMMA ExecutorStepInv ==
  ASSUME ExecutorInv, [ExecutorNext]_executorVars
  PROVE  ExecutorInv'
  <1>1. CASE UNCHANGED executorVars
    BY <1>1 DEF ExecutorInv, ExecutorTypeOK, OnlyCurrentSubmitted, PhaseKnowsFate, executorVars
  <1>2. ASSUME NEW o \in Operations, Step(o) PROVE ExecutorInv'
    <2> DEFINE Same(f) == [fate EXCEPT ![o][station[o]] = f]
    <2>1. /\ fate[o][station[o]] \in Fates
          /\ fate = Same(fate[o][station[o]])
          /\ outcome = [outcome EXCEPT ![o] = outcome[o]]
          /\ outcome[o] \in Outcomes
          /\ garbled = [garbled EXCEPT ![o] = garbled[o]]
          /\ garbled[o] \in SUBSET Stations
          /\ station[o] \in Stations
      BY DEF ExecutorInv, ExecutorTypeOK
    <2>2. CASE Reserve(o)
      <3>1. fate[o][station[o]] = "unsent" /\ outcome[o] = "none"
        BY <2>2 DEF Reserve, ExecutorInv, PhaseKnowsFate
      <3> QED
        BY <2>1, <2>2, <3>1, StayInv DEF Reserve
    <2>3. CASE ReserveFails(o)
      <3>1. fate[o][station[o]] = "unsent"
        BY <2>3 DEF ReserveFails, ExecutorInv, PhaseKnowsFate
      <3> QED
        BY <2>1, <2>3, <3>1, FailOverInv DEF ReserveFails
    <2>4. CASE ExecuteRejected(o)
      BY <2>1, <2>4, FailOverInv DEF ExecuteRejected, Fates
    <2>5. ASSUME NEW result \in {"never", "committed", "aborted"},
                 ExecuteUnknown(o, result) \/ ExecuteAnswers(o, result)
          PROVE  ExecutorInv'
      <3>1. CASE ExecuteUnknown(o, result)
        BY <3>1, StayInv DEF ExecuteUnknown, Conclude, Fates, Outcomes
      <3>2. CASE ExecuteAnswers(o, result)
        <4>1. outcome[o] = "none"
          BY <3>2 DEF ExecuteAnswers, ExecutorInv, PhaseKnowsFate
        <4> QED
          BY <2>1, <3>2, <4>1, StayInv DEF ExecuteAnswers, Fates
      <3> QED
        BY <2>5, <3>1, <3>2
    <2>6. CASE Confirm(o)
      <3> DEFINE r == IF fate[o][station[o]] = "committed" THEN "success" ELSE "transactionFailed"
      <3>1. /\ r \in Outcomes
            /\ r \in {"transactionFailed", "unavailable"} => fate[o][station[o]] # "committed"
            /\ r = "success" => fate[o][station[o]] = "committed"
        BY DEF Outcomes
      <3>2. Conclude(o, r) /\ UNCHANGED <<fate, garbled>>
        BY <2>6 DEF Confirm
      <3> HIDE DEF r
      <3> QED
        BY <2>1, <3>1, <3>2, StayInv DEF Conclude
    <2>7. CASE ConfirmFails(o)
      BY <2>1, <2>7, StayInv DEF ConfirmFails, Conclude, Outcomes
    <2>8. ASSUME NEW result \in {"never", "committed", "aborted"}, ExecuteGarbled(o, result)
          PROVE  ExecutorInv'
      <3>1. /\ garbled[o] \cup {station[o]} \in SUBSET Stations
            /\ result \in Fates
        BY <2>1 DEF Fates
      <3> QED
        BY <2>8, <3>1, FailOverInv DEF ExecuteGarbled
    <2> QED
      BY <1>2, <2>2, <2>3, <2>4, <2>5, <2>6, <2>7, <2>8 DEF Step
  <1> QED
    BY <1>1, <1>2 DEF ExecutorNext

LEMMA ExecutorInvariance == ExecutorSpec => []ExecutorInv
  <1>1. ExecutorInit => ExecutorInv
    BY ExecutorInitInv
  <1>2. ExecutorInv /\ [ExecutorNext]_executorVars => ExecutorInv'
    BY ExecutorStepInv
  <1> QED
    BY <1>1, <1>2, PTL DEF ExecutorSpec

(* Failover over any number of gas stations commits an operation at most   *)
(* once, leaving aside stations that answer 200 without a digest.          *)
THEOREM SingleCommit == ExecutorSpec => []AtMostOneCommit
  <1>1. ExecutorInv => AtMostOneCommit
    BY DEF ExecutorInv, ExecutorTypeOK, OnlyCurrentSubmitted, AtMostOneCommit, Stations
  <1> QED
    BY <1>1, ExecutorInvariance, PTL

(* What execute answers is true: success means that its last station       *)
(* committed, a definite failure that none did, leaving aside stations     *)
(* that answer 200 without a digest.                                       *)
THEOREM HonestAnswer == ExecutorSpec => []AnswerIsTrue
  <1>1. ExecutorInv => AnswerIsTrue
    <2> SUFFICES ASSUME ExecutorInv, NEW o \in Operations
                 PROVE  /\ outcome[o] = "success" => fate[o][station[o]] = "committed"
                        /\ outcome[o] \in {"transactionFailed", "unavailable"} =>
                              \A s \in Stations \ garbled[o] : fate[o][s] # "committed"
      BY DEF AnswerIsTrue
    <2>1. outcome[o] = "success" => fate[o][station[o]] = "committed"
      BY DEF ExecutorInv, PhaseKnowsFate
    <2>2. ASSUME outcome[o] \in {"transactionFailed", "unavailable"},
                 NEW s \in Stations \ garbled[o]
          PROVE  fate[o][s] # "committed"
      <3>1. s \in 1..StationCount /\ station[o] \in 1..StationCount
        BY DEF ExecutorInv, ExecutorTypeOK, Stations
      <3>2. CASE s = station[o]
        BY <2>2, <3>2 DEF ExecutorInv, PhaseKnowsFate
      <3>3. CASE s # station[o]
        <4>1. s < station[o] \/ s > station[o]
          BY <3>1, <3>3, ExecutorAssumption
        <4> QED
          BY <4>1 DEF ExecutorInv, OnlyCurrentSubmitted
      <3> QED
        BY <3>2, <3>3
    <2> QED
      BY <2>1, <2>2
  <1> QED
    BY <1>1, ExecutorInvariance, PTL

-------------------------------------------------------------------------------
(* The tenant registry and the broker's credentials. *)
Stages == {"new", "read", "write", "rename", "passwords", "acl", "done", "failed"}
Definitions ==
    [base : Ops \cup {Issued, None}, key : Ops \cup {None}, login : Logins \cup {None}, off : BOOLEAN,
     devs : [Devices -> {"absent", "active", "revoked"}]]
Files == [Tenants -> Definitions]
Answers == [Tenants -> [Scopes -> Ops \cup {"nothing", "contested", "revoked"}]]
Holding == {o \in Ops : stage[o] \in {"write", "rename", "passwords", "acl"}}

TenantTypeOK ==
    /\ file \in Files
    /\ tmp # <<>> => tmp \in Files
    /\ passwd \in [Tenants -> [Principals -> Ops \cup {None}]]
    /\ acl \in SUBSET (Tenants \X Principals)
    /\ stage \in [Ops -> Stages]
    /\ DOMAIN call = Ops /\ \A o \in Underway : call[o] \in Calls
    /\ DOMAIN held = Ops /\ \A o \in Holding : held[o] \in Files
    /\ todo \in [Ops -> SUBSET Principals]
    /\ told \in Answers
    /\ shared \in SUBSET Ops
    /\ overlapped \in BOOLEAN
    /\ clean \in BOOLEAN

(* A call that shares nothing runs by itself and finds what it has written. *)
Alone ==
    /\ ~overlapped => shared = {}
    /\ \A o \in Underway \ shared : Underway = {o}
    /\ \A o \in Underway \ shared :
          /\ stage[o] = "rename" => tmp = held[o]
          /\ stage[o] \in {"passwords", "acl"} => file = held[o]
    /\ clean => acl = Entries(file) /\ Underway = {}

(* What a call holds has its change in it, and the passwords it deletes    *)
(* belong to its scopes.                                                   *)
Made(o) ==
    LET c == call[o]
        x == held[o][c.t]
    IN  /\ c.kind = "save" => x.base = o
        /\ c.kind = "rotateApp" => x.key = o /\ ~x.off /\ x.login \in Logins
        /\ c.kind = "revokeApp" => x.key = None /\ (c.devices => \A d \in Devices : x.devs[d] # "active")
        /\ c.kind = "rotateDevice" => x.devs[c.d] = "active"
        /\ c.kind = "revokeDevice" => x.devs[c.d] # "active"
        /\ \A p \in todo[o] : IF p \in Devices THEN p \in ScopesOf(c) ELSE "app" \in ScopesOf(c)

(* What was answered, T, stands in a tenant file f, a password file P and  *)
(* an ACL A.                                                               *)
Agree(f, P, A, T) ==
    \A t \in Tenants :
        /\ T[t]["base"] \in Ops => f[t].base = T[t]["base"]
        /\ T[t]["app"] \in Ops =>
              /\ f[t].key = T[t]["app"] /\ ~f[t].off /\ f[t].login \in Logins
              /\ P[t][f[t].login] = T[t]["app"]
              /\ \A p \in Logins : <<t, p>> \in A <=> p = f[t].login
        /\ T[t]["app"] = "revoked" => f[t].key = None /\ \A p \in Logins : <<t, p>> \notin A
        /\ \A d \in Devices :
              /\ T[t][d] \in Ops => f[t].devs[d] = "active" /\ P[t][d] = T[t][d] /\ <<t, d>> \in A
              /\ T[t][d] = "revoked" => f[t].devs[d] # "active" /\ <<t, d>> \notin A

Agrees(f) == Agree(f, passwd, acl, told)

(* Calls that do not overlap keep the answers true. *)
Serial ==
    ~overlapped =>
        /\ Agrees(file)
        /\ \A o \in Underway : \A s \in ScopesOf(call[o]) : told[call[o].t][s] = "nothing"
        /\ \A o \in Holding : Agrees(held[o])
        /\ \A o \in Underway : stage[o] = "acl" =>
              /\ call[o].kind = "rotateApp" => passwd[call[o].t][held[o][call[o].t].login] = o
              /\ call[o].kind = "rotateDevice" => passwd[call[o].t][call[o].d] = o

TenantInv == TenantTypeOK /\ Alone /\ Serial /\ \A o \in Holding : Made(o)
-------------------------------------------------------------------------------
LEMMA CallFacts ==
  \A c \in Calls :
     /\ c.t \in Tenants
     /\ c.kind \in {"save", "rotateApp", "revokeApp", "rotateDevice", "revokeDevice"}
     /\ c.kind = "rotateApp" => c.route \in Logins
     /\ c.kind = "revokeApp" => c.devices \in BOOLEAN
     /\ c.kind \in {"rotateDevice", "revokeDevice"} => c.d \in Devices
  BY DEF Calls

LEMMA ScopeFacts ==
  ASSUME NEW c \in Calls
  PROVE  /\ c.kind = "save" => ScopesOf(c) = {"base"}
         /\ c.kind = "rotateApp" => ScopesOf(c) = {"app"}
         /\ c.kind = "revokeApp" /\ c.devices => ScopesOf(c) = {"app"} \cup Devices
         /\ c.kind = "revokeApp" /\ ~c.devices => ScopesOf(c) = {"app"}
         /\ c.kind \in {"rotateDevice", "revokeDevice"} => ScopesOf(c) = {c.d}
         /\ ScopesOf(c) \subseteq Scopes
  <1>1. c.kind = "save" => ScopesOf(c) = {"base"}
    BY DEF ScopesOf
  <1>2. c.kind = "rotateApp" => ScopesOf(c) = {"app"}
    BY DEF ScopesOf
  <1>3. c.kind = "revokeApp" => ScopesOf(c) = {"app"} \cup (IF c.devices THEN Devices ELSE {})
    BY DEF ScopesOf
  <1>4. c.kind \in {"rotateDevice", "revokeDevice"} => ScopesOf(c) = {c.d} /\ c.d \in Devices
    BY CallFacts DEF ScopesOf
  <1> QED
    BY <1>1, <1>2, <1>3, <1>4, CallFacts DEF Scopes

LEMMA NameFacts ==
  /\ "internal" \in Principals /\ "tenant" \in Principals /\ Logins \cap Devices = {}
  /\ Principals = Logins \cup Devices /\ None \notin Principals
  /\ "base" \notin Devices /\ "app" \notin Devices
  /\ None \notin Ops /\ "nothing" \notin Ops /\ "contested" \notin Ops /\ "revoked" \notin Ops
  BY TenantAssumption DEF Principals, Logins

LEMMA EntriesFacts ==
  ASSUME NEW f \in Files
  PROVE  /\ Entries(f) \in SUBSET (Tenants \X Principals)
         /\ \A t \in Tenants, p \in Logins :
               <<t, p>> \in Entries(f) <=> p = f[t].login /\ f[t].key # None /\ ~f[t].off
         /\ \A t \in Tenants, d \in Devices : <<t, d>> \in Entries(f) <=> f[t].devs[d] = "active"
  <1>1. Entries(f) \in SUBSET (Tenants \X Principals)
    BY DEF Entries
  <1>2. \A t \in Tenants, p \in Principals :
           <<t, p>> \in Entries(f) <=>
               \/ p = f[t].login /\ f[t].key # None /\ ~f[t].off
               \/ p \in Devices /\ f[t].devs[p] = "active"
    BY DEF Entries
  <1>3. \A t \in Tenants : f[t].login \in Logins \cup {None}
    BY DEF Files, Definitions
  <1> QED
    BY <1>1, <1>2, <1>3, NameFacts

(* The tenant file with the change of a call in it. *)
LEMMA ChangedFacts ==
  ASSUME NEW x \in Definitions, NEW c \in Calls, NEW o \in Ops
  PROVE  LET y == Changed(x, c, o) IN
         /\ y \in Definitions
         /\ "base" \notin ScopesOf(c) => y.base = x.base
         /\ "app" \notin ScopesOf(c) => y.key = x.key /\ y.login = x.login /\ y.off = x.off
         /\ \A d \in Devices : d \notin ScopesOf(c) => y.devs[d] = x.devs[d]
         /\ c.kind = "save" => y.base = o
         /\ c.kind = "rotateApp" => y.key = o /\ ~y.off /\ y.login \in Logins
         /\ c.kind = "revokeApp" => y.key = None /\ (c.devices => \A d \in Devices : y.devs[d] # "active")
         /\ c.kind = "rotateDevice" => y.devs[c.d] = "active"
         /\ c.kind = "revokeDevice" => y.devs[c.d] # "active"
  <1> DEFINE y == Changed(x, c, o)
  <1>1. CASE c.kind = "save"
    <2>1. y = [x EXCEPT !.base = o]
      BY <1>1 DEF Changed
    <2>2. ScopesOf(c) = {"base"}
      BY <1>1, ScopeFacts
    <2> HIDE DEF y
    <2>3. y \in Definitions /\ y.base = o /\ y.key = x.key /\ y.login = x.login /\ y.off = x.off /\ y.devs = x.devs
      BY <2>1 DEF Definitions
    <2> QED
      BY <1>1, <2>2, <2>3 DEF y
  <1>2. CASE c.kind = "rotateApp"
    <2> DEFINE l == IF c.route = "tenant" /\ x.login # None THEN x.login ELSE c.route
    <2>1. y = [x EXCEPT !.key = o, !.off = FALSE, !.login = l]
      BY <1>2 DEF Changed, Definitions
    <2>2. ScopesOf(c) = {"app"}
      BY <1>2, ScopeFacts
    <2>3. l \in Logins
      BY <1>2, CallFacts DEF Definitions
    <2> HIDE DEF y, l
    <2>4. y \in Definitions /\ y.base = x.base /\ y.key = o /\ ~y.off /\ y.login \in Logins /\ y.devs = x.devs
      BY <2>1, <2>3 DEF Definitions
    <2> QED
      BY <1>2, <2>2, <2>4, NameFacts DEF y
  <1>3. CASE c.kind = "revokeApp"
    <2> DEFINE e == [d \in Devices |-> IF c.devices /\ x.devs[d] # "absent" THEN "revoked" ELSE x.devs[d]]
    <2>1. y = [x EXCEPT !.key = None, !.off = TRUE, !.devs = e]
      BY <1>3 DEF Changed
    <2>2. /\ c.devices => ScopesOf(c) = {"app"} \cup Devices
          /\ ~c.devices => ScopesOf(c) = {"app"}
      BY <1>3, ScopeFacts
    <2>3. /\ e \in [Devices -> {"absent", "active", "revoked"}]
          /\ c.devices => \A d \in Devices : e[d] # "active"
          /\ ~c.devices => \A d \in Devices : e[d] = x.devs[d]
      BY DEF Definitions
    <2> HIDE DEF y, e
    <2>4. y \in Definitions /\ y.base = x.base /\ y.key = None /\ y.devs = e
      BY <2>1, <2>3 DEF Definitions
    <2> QED
      BY <1>3, <2>2, <2>3, <2>4, NameFacts, CallFacts DEF y
  <1>4. CASE c.kind \in {"rotateDevice", "revokeDevice"}
    <2>1. PICK w \in {"absent", "active", "revoked"} :
             /\ y = [x EXCEPT !.devs[c.d] = w]
             /\ c.kind = "rotateDevice" => w = "active"
             /\ c.kind = "revokeDevice" => w # "active"
      <3>1. CASE c.kind = "rotateDevice"
        BY <3>1 DEF Changed
      <3>2. CASE c.kind = "revokeDevice"
        <4>1. y = [x EXCEPT !.devs[c.d] = IF @ = "absent" THEN @ ELSE "revoked"]
          BY <3>2 DEF Changed
        <4> HIDE DEF y
        <4> QED
          BY <3>2, <4>1 DEF Definitions
      <3> QED
        BY <1>4, <3>1, <3>2
    <2>2. ScopesOf(c) = {c.d} /\ c.d \in Devices
      BY <1>4, ScopeFacts, CallFacts
    <2> DEFINE e == [x.devs EXCEPT ![c.d] = w]
    <2>3. /\ e \in [Devices -> {"absent", "active", "revoked"}] /\ e[c.d] = w
          /\ \A d \in Devices \ {c.d} : e[d] = x.devs[d]
      BY <2>1, <2>2 DEF Definitions
    <2>4. y = [x EXCEPT !.devs = e]
      BY <2>1 DEF Definitions
    <2> HIDE DEF y, e
    <2>5. y \in Definitions /\ y.base = x.base /\ y.key = x.key /\ y.login = x.login /\ y.off = x.off /\ y.devs = e
      BY <2>3, <2>4 DEF Definitions
    <2> QED
      BY <1>4, <2>1, <2>2, <2>3, <2>5, NameFacts DEF y
  <1> QED
    BY <1>1, <1>2, <1>3, <1>4, CallFacts
-------------------------------------------------------------------------------
(* What was answered goes on standing. *)
LEMMA AgreeForgets ==
  ASSUME NEW f, NEW P, NEW A, NEW T, NEW U, Agree(f, P, A, T),
         \A t \in Tenants, s \in Scopes : U[t][s] \in {T[t][s], "nothing", "contested"}
  PROVE  Agree(f, P, A, U)
  <1>1. \A t \in Tenants, s \in Scopes : U[t][s] \in Ops \cup {"revoked"} => U[t][s] = T[t][s]
    BY NameFacts
  <1>2. "base" \in Scopes /\ "app" \in Scopes /\ Devices \subseteq Scopes
    BY DEF Scopes
  <1> QED
    BY <1>1, <1>2 DEF Agree

LEMMA AgreeChanged ==
  ASSUME NEW f \in Files, NEW P, NEW A, NEW T, Agree(f, P, A, T), NEW c \in Calls, NEW o \in Ops,
         \A s \in ScopesOf(c) : T[c.t][s] = "nothing"
  PROVE  Agree([f EXCEPT ![c.t] = Changed(@, c, o)], P, A, T)
  <1> DEFINE y == Changed(f[c.t], c, o)
             g == [f EXCEPT ![c.t] = y]
  <1>1. c.t \in Tenants /\ f[c.t] \in Definitions
    BY CallFacts DEF Files
  <1>2. /\ T[c.t]["base"] # "nothing" => y.base = f[c.t].base
        /\ T[c.t]["app"] # "nothing" => y.key = f[c.t].key /\ y.login = f[c.t].login /\ y.off = f[c.t].off
        /\ \A d \in Devices : T[c.t][d] # "nothing" => y.devs[d] = f[c.t].devs[d]
    BY <1>1, ChangedFacts
  <1> HIDE DEF y
  <1>3. g[c.t] = y /\ \A t \in Tenants \ {c.t} : g[t] = f[t]
    BY <1>1 DEF Files
  <1> HIDE DEF g
  <1>4. Agree(g, P, A, T)
    BY <1>2, <1>3, NameFacts DEF Agree
  <1> QED
    BY <1>4 DEF g, y

LEMMA AgreePassword ==
  ASSUME NEW f, NEW P \in [Tenants -> [Principals -> Ops \cup {None}]], NEW A, NEW T, Agree(f, P, A, T),
         NEW t \in Tenants, NEW p \in Principals, NEW v,
         IF p \in Devices THEN T[t][p] = "nothing" ELSE T[t]["app"] = "nothing"
  PROVE  Agree(f, [P EXCEPT ![t][p] = v], A, T)
  <1> DEFINE Q == [P EXCEPT ![t][p] = v]
  <1>1. \A u \in Tenants, q \in Principals : (u # t \/ q # p) => Q[u][q] = P[u][q]
    OBVIOUS
  <1> HIDE DEF Q
  <1>2. \A u \in Tenants, q \in Logins : (u # t \/ T[u]["app"] # "nothing") => Q[u][q] = P[u][q]
    BY <1>1, NameFacts
  <1>3. \A u \in Tenants, d \in Devices : (u # t \/ T[u][d] # "nothing") => Q[u][d] = P[u][d]
    BY <1>1, NameFacts
  <1>4. Agree(f, Q, A, T)
    BY <1>2, <1>3, NameFacts DEF Agree
  <1> QED
    BY <1>4 DEF Q

LEMMA AgreeAcl ==
  ASSUME NEW f \in Files, NEW P, NEW A, NEW T, Agree(f, P, A, T)
  PROVE  Agree(f, P, Entries(f), T)
  <1>1. \A t \in Tenants : T[t]["app"] \in Ops =>
           /\ \A p \in Logins : <<t, p>> \in Entries(f) <=> p = f[t].login
    BY EntriesFacts, NameFacts DEF Agree
  <1>2. \A t \in Tenants : T[t]["app"] = "revoked" => \A p \in Logins : <<t, p>> \notin Entries(f)
    BY EntriesFacts DEF Agree
  <1>3. \A t \in Tenants, d \in Devices :
           /\ T[t][d] \in Ops => <<t, d>> \in Entries(f)
           /\ T[t][d] = "revoked" => <<t, d>> \notin Entries(f)
    BY EntriesFacts DEF Agree
  <1> QED
    BY <1>1, <1>2, <1>3 DEF Agree

(* A call that has done its work may say so. *)
LEMMA AgreeAnswered ==
  ASSUME NEW f \in Files, NEW P, NEW T, NEW U, NEW c \in Calls, NEW o \in Ops,
         Agree(f, P, Entries(f), T),
         \A t \in Tenants \ {c.t} : U[t] = T[t],
         \A s \in Scopes :
            /\ s \notin ScopesOf(c) => U[c.t][s] = T[c.t][s]
            /\ s \in ScopesOf(c) =>
                  \/ U[c.t][s] = "contested"
                  \/ U[c.t][s] = IF c.kind \in {"revokeApp", "revokeDevice"} THEN "revoked" ELSE o,
         c.kind = "save" => f[c.t].base = o,
         c.kind = "rotateApp" =>
            f[c.t].key = o /\ ~f[c.t].off /\ f[c.t].login \in Logins /\ P[c.t][f[c.t].login] = o,
         c.kind = "revokeApp" => f[c.t].key = None /\ (c.devices => \A d \in Devices : f[c.t].devs[d] # "active"),
         c.kind = "rotateDevice" => f[c.t].devs[c.d] = "active" /\ P[c.t][c.d] = o,
         c.kind = "revokeDevice" => f[c.t].devs[c.d] # "active"
  PROVE  Agree(f, P, Entries(f), U)
  <1>1. c.t \in Tenants
    BY CallFacts
  <1>2. "base" \in Scopes /\ "app" \in Scopes /\ Devices \subseteq Scopes /\ o # "revoked" /\ o # None
    BY NameFacts DEF Scopes
  <1>3. U[c.t]["base"] \in Ops => f[c.t].base = U[c.t]["base"]
    <2>1. "base" \in ScopesOf(c) => c.kind = "save"
      BY ScopeFacts, NameFacts, CallFacts
    <2> QED
      BY <1>1, <1>2, <2>1, NameFacts DEF Agree
  <1>4. /\ U[c.t]["app"] \in Ops =>
              /\ f[c.t].key = U[c.t]["app"] /\ ~f[c.t].off /\ f[c.t].login \in Logins
              /\ P[c.t][f[c.t].login] = U[c.t]["app"]
              /\ \A p \in Logins : <<c.t, p>> \in Entries(f) <=> p = f[c.t].login
        /\ U[c.t]["app"] = "revoked" => f[c.t].key = None /\ \A p \in Logins : <<c.t, p>> \notin Entries(f)
    <2>1. "app" \in ScopesOf(c) => c.kind \in {"rotateApp", "revokeApp"}
      BY ScopeFacts, NameFacts, CallFacts
    <2>2. CASE "app" \notin ScopesOf(c)
      BY <1>1, <1>2, <2>2 DEF Agree
    <2>3. CASE "app" \in ScopesOf(c)
      BY <1>1, <1>2, <2>1, <2>3, NameFacts, EntriesFacts
    <2> QED
      BY <2>2, <2>3
  <1>5. ASSUME NEW d \in Devices
        PROVE  /\ U[c.t][d] \in Ops =>
                     f[c.t].devs[d] = "active" /\ P[c.t][d] = U[c.t][d] /\ <<c.t, d>> \in Entries(f)
               /\ U[c.t][d] = "revoked" => f[c.t].devs[d] # "active" /\ <<c.t, d>> \notin Entries(f)
    <2>1. d \in ScopesOf(c) =>
             \/ c.kind = "revokeApp" /\ c.devices
             \/ c.kind \in {"rotateDevice", "revokeDevice"} /\ c.d = d
      BY ScopeFacts, NameFacts, CallFacts
    <2>2. CASE d \notin ScopesOf(c)
      BY <1>1, <1>2, <2>2 DEF Agree
    <2>3. CASE d \in ScopesOf(c)
      BY <1>1, <1>2, <2>1, <2>3, NameFacts, EntriesFacts
    <2> QED
      BY <2>2, <2>3
  <1> QED
    BY <1>1, <1>3, <1>4, <1>5 DEF Agree
-------------------------------------------------------------------------------
(* Calls move one at a time. *)
Local(o) ==
    /\ DOMAIN call' = Ops /\ DOMAIN held' = Ops
    /\ stage' \in [Ops -> Stages] /\ todo' \in [Ops -> SUBSET Principals]
    /\ \A q \in Ops \ {o} : /\ stage'[q] = stage[q] /\ call'[q] = call[q]
                           /\ held'[q] = held[q] /\ todo'[q] = todo[q]

LEMMA Solo ==
  ASSUME TenantInv, ~overlapped, NEW o \in Underway
  PROVE  /\ shared = {} /\ Underway = {o} /\ Holding \subseteq {o}
         /\ stage[o] = "rename" => tmp = held[o]
         /\ stage[o] \in {"passwords", "acl"} => file = held[o]
  <1>1. shared = {} /\ o \in Underway \ shared
    BY DEF TenantInv, Alone
  <1>2. Holding \subseteq Underway
    BY DEF Holding, Underway
  <1> QED
    BY <1>1, <1>2 DEF TenantInv, Alone

LEMMA LocalMade ==
  ASSUME TenantInv, NEW o \in Ops, Local(o), o \in Holding' => Made(o)'
  PROVE  \A q \in Holding' : Made(q)'
  <1> SUFFICES ASSUME NEW q \in Holding', q # o
               PROVE  Made(q)'
    OBVIOUS
  <1>1. q \in Ops /\ q \in Holding /\ call'[q] = call[q] /\ held'[q] = held[q] /\ todo'[q] = todo[q]
    BY DEF Local, Holding
  <1>2. Made(q)
    BY <1>1 DEF TenantInv
  <1> QED
    BY <1>1, <1>2 DEF Made

LEMMA LocalTypes ==
  ASSUME TenantInv, NEW o \in Ops, Local(o),
         o \in Underway' => call'[o] \in Calls, o \in Holding' => held'[o] \in Files
  PROVE  /\ \A q \in Underway' : call'[q] \in Calls
         /\ \A q \in Holding' : held'[q] \in Files
  BY DEF TenantInv, TenantTypeOK, Local, Underway, Holding

LEMMA EndMoves ==
  ASSUME TenantInv, NEW o \in Ops, NEW how \in {"done", "failed"}, End(o, how)
  PROVE  /\ Local(o) /\ Underway' = Underway \ {o} /\ o \notin Holding'
         /\ \A q \in Underway' : call'[q] \in Calls
         /\ \A q \in Holding' : held'[q] \in Files
         /\ \A q \in Holding' : Made(q)'
  <1>1. Local(o) /\ stage'[o] = how
    BY DEF End, Local, TenantInv, TenantTypeOK, Stages
  <1>2. Underway' = Underway \ {o} /\ o \notin Holding'
    BY <1>1 DEF Underway, Holding, Local
  <1> QED
    BY <1>1, <1>2, LocalTypes, LocalMade

(* A call that ends leaves nothing running that was alone. *)
LEMMA EndAlone ==
  ASSUME TenantInv, NEW o \in Underway, NEW how \in {"done", "failed"}, End(o, how),
         UNCHANGED <<shared, overlapped>>,
         clean' => acl' = Entries(file)' /\ Underway = {o}
  PROVE  Alone'
  <1>1. o \in Ops
    BY DEF Underway
  <1>2. Underway' = Underway \ {o}
    BY <1>1, EndMoves
  <1>3. \A q \in Underway' \ shared' : FALSE
    BY <1>2 DEF TenantInv, Alone
  <1> QED
    BY <1>2, <1>3 DEF TenantInv, Alone

LEMMA NotClean ==
  ASSUME TenantInv, NEW o \in Underway
  PROVE  ~clean
  BY DEF TenantInv, Alone

LEMMA EndSerial ==
  ASSUME TenantInv, NEW o \in Underway, NEW how \in {"done", "failed"}, End(o, how), UNCHANGED overlapped,
         ~overlapped => Agrees(file)'
  PROVE  Serial'
  <1>1. o \in Ops
    BY DEF Underway
  <1>2. Underway' = Underway \ {o} /\ o \notin Holding'
    BY <1>1, EndMoves
  <1>3. Holding' \subseteq Underway'
    BY DEF Holding, Underway
  <1>4. ~overlapped => Underway = {o}
    BY Solo
  <1> QED
    BY <1>2, <1>3, <1>4 DEF Serial

LEMMA LeaveInv ==
  ASSUME TenantInv, NEW o \in Underway, End(o, "failed"),
         UNCHANGED <<file, tmp, passwd, acl, told, shared, overlapped, clean>>
  PROVE  TenantInv'
  <1>1. o \in Ops
    BY DEF Underway
  <1>2. ~overlapped => Agrees(file)'
    BY DEF TenantInv, Serial, Agrees
  <1>3. TenantTypeOK'
    BY <1>1, EndMoves DEF TenantInv, TenantTypeOK, Local
  <1>4. Alone'
    BY NotClean, EndAlone
  <1>5. Serial'
    BY <1>2, EndSerial
  <1> QED
    BY <1>1, <1>3, <1>4, <1>5, EndMoves DEF TenantInv

LEMMA FailInv ==
  ASSUME TenantInv, NEW o \in Ops, Fail(o)
  PROVE  TenantInv'
  BY LeaveInv DEF Fail

LEMMA BeginInv ==
  ASSUME TenantInv, NEW o \in Ops, NEW c \in Calls, Begin(o, c)
  PROVE  TenantInv'
  <1> DEFINE U == [s \in Scopes |->
                      IF s \notin ScopesOf(c) THEN told[c.t][s]
                      ELSE IF \E q \in Underway : call[q].t = c.t /\ s \in ScopesOf(call[q])
                      THEN "contested" ELSE "nothing"]
  <1>1. stage[o] = "new" /\ UNCHANGED <<file, tmp, passwd, acl, held, todo>> /\ clean' = FALSE
    BY DEF Begin
  <1>2. Local(o) /\ stage'[o] = "read" /\ call'[o] = c
    BY DEF Begin, Local, TenantInv, TenantTypeOK, Stages
  <1>3. Underway' = Underway \cup {o} /\ o \notin Underway /\ Holding' = Holding /\ o \notin Holding
    BY <1>1, <1>2 DEF Underway, Holding, Local
  <1>4. /\ shared' = IF Underway = {} THEN {} ELSE shared \cup Underway \cup {o}
        /\ overlapped' = (overlapped \/ Underway # {})
    BY DEF Begin
  <1>5. c.t \in Tenants /\ told' = [told EXCEPT ![c.t] = U]
    BY CallFacts DEF Begin
  <1>6. /\ told' \in Answers
        /\ \A t \in Tenants, s \in Scopes : told'[t][s] \in {told[t][s], "nothing", "contested"}
        /\ Underway = {} => \A s \in ScopesOf(c) : told'[c.t][s] = "nothing"
    <2>1. \A s \in Scopes : U[s] \in {told[c.t][s], "nothing", "contested"}
      OBVIOUS
    <2>2. Underway = {} => \A s \in ScopesOf(c) : U[s] = "nothing"
      BY ScopeFacts
    <2>3. told \in Answers
      BY DEF TenantInv, TenantTypeOK
    <2>4. U \in [Scopes -> Ops \cup {"nothing", "contested", "revoked"}]
      BY <1>5, <2>3 DEF Answers
    <2> HIDE DEF U
    <2> QED
      BY <1>5, <2>1, <2>2, <2>3, <2>4 DEF Answers
  <1> HIDE DEF U
  <1>7. TenantTypeOK'
    <2>1. \A q \in Underway' : call'[q] \in Calls
      BY <1>2, <1>3, LocalTypes
    <2>2. \A q \in Holding' : held'[q] \in Files
      BY <1>2, <1>3, LocalTypes
    <2>3. shared' \in SUBSET Ops /\ overlapped' \in BOOLEAN
      BY <1>4 DEF TenantInv, TenantTypeOK, Underway
    <2> QED
      BY <1>1, <1>2, <1>6, <2>1, <2>2, <2>3 DEF TenantInv, TenantTypeOK, Local
  <1>8. Alone'
    <2>1. CASE Underway = {}
      BY <1>1, <1>2, <1>3, <1>4, <2>1 DEF Alone
    <2>2. CASE Underway # {}
      BY <1>1, <1>3, <1>4, <2>2 DEF Alone
    <2> QED
      BY <2>1, <2>2
  <1>9. Serial'
    <2> SUFFICES ASSUME ~overlapped'
                 PROVE  /\ Agrees(file)'
                        /\ \A q \in Underway' : \A s \in ScopesOf(call'[q]) : told'[call'[q].t][s] = "nothing"
                        /\ Holding' = {} /\ \A q \in Underway' : stage'[q] = "read"
      BY DEF Serial
    <2>1. ~overlapped /\ Underway = {}
      BY <1>4 DEF TenantInv, TenantTypeOK
    <2>2. Holding = {}
      BY <2>1 DEF Holding, Underway
    <2>3. Agree(file, passwd, acl, told')
      <3>1. Agree(file, passwd, acl, told)
        BY <2>1 DEF TenantInv, Serial, Agrees
      <3> QED
        BY <1>6, <3>1, AgreeForgets
    <2> QED
      BY <1>1, <1>2, <1>3, <1>6, <2>1, <2>2, <2>3 DEF Agrees
  <1> QED
    BY <1>2, <1>3, <1>7, <1>8, <1>9, LocalMade DEF TenantInv

(* A call that goes on. *)
LEMMA StayMoves ==
  ASSUME TenantInv, NEW o \in Underway, Local(o), UNCHANGED call, stage'[o] \notin {"new", "done", "failed"},
         o \in Holding' => held'[o] \in Files
  PROVE  /\ Underway' = Underway
         /\ \A q \in Underway' : call'[q] \in Calls
         /\ \A q \in Holding' : held'[q] \in Files
  <1>1. o \in Ops
    BY DEF Underway
  <1>2. Underway' = Underway
    BY <1>1 DEF Underway, Local
  <1> QED
    BY <1>1, <1>2 DEF TenantInv, TenantTypeOK, Local, Underway, Holding

LEMMA StayAlone ==
  ASSUME TenantInv, NEW o \in Underway, Underway' = Underway, UNCHANGED <<shared, overlapped, clean>>,
         o \notin shared => /\ stage'[o] = "rename" => tmp' = held'[o]
                            /\ stage'[o] \in {"passwords", "acl"} => file' = held'[o]
  PROVE  Alone'
  <1>1. ~clean
    BY NotClean
  <1>2. \A q \in Underway \ shared : q = o
    BY DEF TenantInv, Alone
  <1> QED
    BY <1>1, <1>2 DEF TenantInv, Alone

LEMMA StaySerial ==
  ASSUME TenantInv, NEW o \in Underway, Underway' = Underway, UNCHANGED <<call, told, overlapped>>,
         ~overlapped =>
            /\ Agrees(file)'
            /\ o \in Holding' => Agrees(held[o])'
            /\ stage'[o] = "acl" =>
                  /\ call[o].kind = "rotateApp" => passwd'[call[o].t][held'[o][call[o].t].login] = o
                  /\ call[o].kind = "rotateDevice" => passwd'[call[o].t][call[o].d] = o
  PROVE  Serial'
  <1> SUFFICES ASSUME ~overlapped
               PROVE  Serial'
    BY DEF Serial
  <1>1. Underway' = {o}
    BY Solo
  <1>2. Holding' \subseteq {o}
    BY <1>1 DEF Holding, Underway
  <1>3. \A s \in ScopesOf(call[o]) : told[call[o].t][s] = "nothing"
    BY DEF TenantInv, Serial
  <1> QED
    BY <1>1, <1>2, <1>3 DEF Serial

LEMMA UnderwayFacts ==
  ASSUME TenantInv, NEW o \in Underway
  PROVE  /\ o \in Ops /\ call[o] \in Calls /\ call[o].t \in Tenants
         /\ ~overlapped => /\ Agrees(file)
                           /\ \A s \in ScopesOf(call[o]) : told[call[o].t][s] = "nothing"
                           /\ o \in Holding => Agrees(held[o])
  <1>1. o \in Ops /\ call[o] \in Calls
    BY DEF TenantInv, TenantTypeOK, Underway
  <1> QED
    BY <1>1, CallFacts DEF TenantInv, Serial

LEMMA ReadInv ==
  ASSUME TenantInv, NEW o \in Ops, Read(o)
  PROVE  TenantInv'
  <1> DEFINE c == call[o]
             h == [file EXCEPT ![c.t] = Changed(@, c, o)]
  <1>1. stage[o] = "read" /\ o \in Underway /\ UNCHANGED <<file, tmp, passwd, acl, told, shared, overlapped, clean>>
    BY DEF Read, Underway
  <1>2. CASE End(o, "failed")
    BY <1>1, <1>2, LeaveInv
  <1>3. CASE /\ held' = [held EXCEPT ![o] = h]
             /\ todo' = [todo EXCEPT ![o] = Deleted(file[c.t], c)]
             /\ stage' = [stage EXCEPT ![o] = "write"]
             /\ UNCHANGED call
    <2>1. c \in Calls /\ c.t \in Tenants /\ file[c.t] \in Definitions /\ file \in Files
      BY <1>1, UnderwayFacts DEF TenantInv, TenantTypeOK, Files
    <2>2. h \in Files /\ h[c.t] = Changed(file[c.t], c, o)
      BY <2>1, ChangedFacts DEF Files
    <2>3. ~overlapped => Agree(h, passwd, acl, told)
      <3> SUFFICES ASSUME ~overlapped
                   PROVE  Agree(h, passwd, acl, told)
        OBVIOUS
      <3>1. Agree(file, passwd, acl, told) /\ \A s \in ScopesOf(c) : told[c.t][s] = "nothing"
        BY <1>1, UnderwayFacts DEF Agrees
      <3> QED
        BY <2>1, <3>1, AgreeChanged
    <2>4. /\ Deleted(file[c.t], c) \in SUBSET Principals
          /\ \A p \in Deleted(file[c.t], c) : IF p \in Devices THEN p \in ScopesOf(c) ELSE "app" \in ScopesOf(c)
      <3>1. CASE c.kind = "revokeApp"
        <4>1. Deleted(file[c.t], c) =
                {p \in Principals :
                    \/ p = file[c.t].login
                    \/ c.devices /\ p \in Devices /\ file[c.t].devs[p] = "active"}
          BY <3>1 DEF Deleted
        <4>2. file[c.t].login \notin Devices
          BY <2>1, NameFacts, TenantAssumption DEF Definitions
        <4> QED
          BY <2>1, <3>1, <4>1, <4>2, ScopeFacts, CallFacts
      <3>2. CASE c.kind = "revokeDevice"
        <4>1. Deleted(file[c.t], c) \subseteq {c.d}
          BY <3>2 DEF Deleted
        <4> QED
          BY <2>1, <3>2, <4>1, ScopeFacts, CallFacts, NameFacts
      <3>3. CASE c.kind \in {"save", "rotateApp", "rotateDevice"}
        BY <3>3 DEF Deleted
      <3> QED
        BY <2>1, <3>1, <3>2, <3>3, CallFacts
    <2> DEFINE D == Deleted(file[c.t], c)
    <2>5. /\ Made(o)'
          <=> LET x == h[c.t]
              IN  /\ c.kind = "save" => x.base = o
                  /\ c.kind = "rotateApp" => x.key = o /\ ~x.off /\ x.login \in Logins
                  /\ c.kind = "revokeApp" => x.key = None /\ (c.devices => \A d \in Devices : x.devs[d] # "active")
                  /\ c.kind = "rotateDevice" => x.devs[c.d] = "active"
                  /\ c.kind = "revokeDevice" => x.devs[c.d] # "active"
                  /\ \A p \in D : IF p \in Devices THEN p \in ScopesOf(c) ELSE "app" \in ScopesOf(c)
      <3> HIDE DEF h, D
      <3>1. held'[o] = h /\ todo'[o] = D
        BY <1>3 DEF TenantInv, TenantTypeOK, D
      <3> QED
        BY <1>3, <3>1 DEF Made
    <2>6. Made(o)'
      <3> HIDE DEF h
      <3> QED
        BY <2>1, <2>2, <2>4, <2>5, ChangedFacts
    <2> HIDE DEF h, D
    <2>7. held'[o] = h /\ stage'[o] = "write"
      BY <1>3 DEF TenantInv, TenantTypeOK
    <2>8. Local(o)
      BY <1>3, <2>4 DEF Local, TenantInv, TenantTypeOK, Stages
    <2>9. /\ Underway' = Underway
          /\ \A q \in Underway' : call'[q] \in Calls
          /\ \A q \in Holding' : held'[q] \in Files
      BY <1>1, <1>3, <2>2, <2>7, <2>8, StayMoves
    <2>10. TenantTypeOK'
      BY <1>1, <2>8, <2>9 DEF TenantInv, TenantTypeOK, Local
    <2>11. Alone'
      BY <1>1, <2>7, <2>9, StayAlone
    <2>12. Serial'
      BY <1>1, <1>3, <2>3, <2>7, <2>9, StaySerial, UnderwayFacts DEF Agrees
    <2> QED
      BY <2>6, <2>8, <2>10, <2>11, <2>12, LocalMade DEF TenantInv
  <1> QED
    BY <1>2, <1>3 DEF Read

LEMMA WriteInv ==
  ASSUME TenantInv, NEW o \in Ops, Write(o)
  PROVE  TenantInv'
  <1>1. /\ stage[o] = "write" /\ o \in Underway /\ o \in Holding /\ tmp' = held[o]
        /\ UNCHANGED <<file, passwd, acl, call, held, todo, told, shared, overlapped, clean>>
    BY DEF Write, Underway, Holding
  <1>2. Local(o) /\ stage'[o] = "rename"
    BY <1>1 DEF Write, Local, TenantInv, TenantTypeOK, Stages
  <1>3. /\ Underway' = Underway
        /\ \A q \in Underway' : call'[q] \in Calls
        /\ \A q \in Holding' : held'[q] \in Files
    BY <1>1, <1>2, StayMoves DEF TenantInv, TenantTypeOK
  <1>4. TenantTypeOK'
    BY <1>1, <1>2, <1>3 DEF TenantInv, TenantTypeOK, Local
  <1>5. Alone'
    BY <1>1, <1>2, <1>3, StayAlone
  <1>6. Serial'
    BY <1>1, <1>2, <1>3, StaySerial, UnderwayFacts DEF Agrees
  <1>7. Made(o)'
    BY <1>1 DEF TenantInv, Made
  <1> QED
    BY <1>2, <1>4, <1>5, <1>6, <1>7, LocalMade DEF TenantInv

LEMMA RenameInv ==
  ASSUME TenantInv, NEW o \in Ops, Rename(o)
  PROVE  TenantInv'
  <1>1. /\ stage[o] = "rename" /\ o \in Underway /\ o \in Holding
        /\ UNCHANGED <<passwd, acl, shared, overlapped, clean>>
    BY DEF Rename, Underway, Holding
  <1> DEFINE c == call[o]
  <1>2. c \in Calls /\ c.t \in Tenants /\ held[o] \in Files /\ Made(o)
    BY <1>1, UnderwayFacts DEF TenantInv, TenantTypeOK
  <1>3. CASE End(o, "failed") /\ UNCHANGED <<file, tmp, told>>
    BY <1>1, <1>3, LeaveInv
  <1>4. CASE /\ tmp # <<>> /\ file' = tmp /\ tmp' = <<>>
             /\ IF c.kind = "save"
                THEN End(o, "done") /\ Answered(o)
                ELSE stage' = [stage EXCEPT ![o] = "passwords"] /\ UNCHANGED <<call, held, todo, told>>
    <2>1. file' \in Files
      BY <1>4 DEF TenantInv, TenantTypeOK
    <2>2. ~overlapped => Agree(file', passwd, acl, told) /\ file' = held[o]
      <3>1. ~overlapped => tmp = held[o]
        BY <1>1, Solo
      <3> QED
        BY <1>1, <1>4, <3>1, UnderwayFacts DEF Agrees
    <2>3. CASE c.kind = "save"
      <3>1. End(o, "done") /\ Answered(o)
        BY <1>4, <2>3
      <3>2. told' = [told EXCEPT ![c.t] =
                       [s \in Scopes |-> IF s \notin ScopesOf(c) \/ @[s] = "contested" THEN @[s]
                                         ELSE IF c.kind \in {"revokeApp", "revokeDevice"} THEN "revoked"
                                         ELSE o]]
        BY <3>1 DEF Answered
      <3>3. told' = [told EXCEPT ![c.t]["base"] = IF @ = "contested" THEN @ ELSE o]
        <4>1. ScopesOf(c) = {"base"} /\ "base" \in Scopes
          BY <1>2, <2>3, ScopeFacts DEF Scopes
        <4>2. told \in Answers
          BY DEF TenantInv, TenantTypeOK
        <4> QED
          BY <1>2, <2>3, <3>2, <4>1, <4>2 DEF Answers
      <3>4. told' \in Answers
        BY <1>1, <3>3, UnderwayFacts DEF TenantInv, TenantTypeOK, Answers, Scopes
      <3>5. ~overlapped => Agrees(file)'
        <4> SUFFICES ASSUME ~overlapped
                     PROVE  Agree(file', passwd, acl, told')
          BY <1>1 DEF Agrees
        <4>1. file'[c.t].base = o
          BY <2>2, <2>3, <1>2 DEF Made
        <4>2. \A t \in Tenants : /\ told'[t]["app"] = told[t]["app"]
                                 /\ \A d \in Devices : told'[t][d] = told[t][d]
                                 /\ told'[t]["base"] \in Ops =>
                                       \/ t = c.t /\ told'[t]["base"] = o
                                       \/ told'[t]["base"] = told[t]["base"]
          BY <1>2, <3>3, NameFacts DEF TenantInv, TenantTypeOK, Answers, Scopes
        <4> QED
          BY <2>2, <4>1, <4>2 DEF Agree
      <3>6. TenantTypeOK'
        BY <1>1, <1>4, <2>1, <3>1, <3>4, EndMoves DEF TenantInv, TenantTypeOK, Local
      <3>7. Alone'
        BY <1>1, <3>1, NotClean, EndAlone
      <3>8. Serial'
        BY <1>1, <3>1, <3>5, EndSerial
      <3> QED
        BY <3>1, <3>6, <3>7, <3>8, EndMoves DEF TenantInv
    <2>4. CASE c.kind # "save"
      <3>1. stage' = [stage EXCEPT ![o] = "passwords"] /\ UNCHANGED <<call, held, todo, told>>
        BY <1>4, <2>4
      <3>2. Local(o) /\ stage'[o] = "passwords"
        BY <3>1 DEF Local, TenantInv, TenantTypeOK, Stages
      <3>3. /\ Underway' = Underway
            /\ \A q \in Underway' : call'[q] \in Calls
            /\ \A q \in Holding' : held'[q] \in Files
        BY <1>1, <1>2, <3>1, <3>2, StayMoves
      <3>4. TenantTypeOK'
        BY <1>1, <1>4, <2>1, <3>1, <3>2, <3>3 DEF TenantInv, TenantTypeOK, Local
      <3>5. Alone'
        <4>1. o \notin shared => file' = held'[o]
          BY <1>1, <1>4, <3>1 DEF TenantInv, Alone
        <4> QED
          BY <1>1, <3>2, <3>3, <4>1, StayAlone
      <3>6. Serial'
        BY <1>1, <2>2, <3>1, <3>2, <3>3, StaySerial DEF Agrees
      <3>7. Made(o)'
        BY <1>2, <3>1 DEF Made
      <3> QED
        BY <3>2, <3>4, <3>5, <3>6, <3>7, LocalMade DEF TenantInv
    <2> QED
      BY <2>3, <2>4
  <1> QED
    BY <1>3, <1>4 DEF Rename

(* The password of a principal changes. *)
LEMMA PasswordInv ==
  ASSUME TenantInv, NEW o \in Ops, stage[o] = "passwords", NEW p \in Principals, NEW v \in Ops \cup {None},
         passwd' = [passwd EXCEPT ![call[o].t][p] = v],
         IF p \in Devices THEN p \in ScopesOf(call[o]) ELSE "app" \in ScopesOf(call[o]),
         stage'[o] \in {"passwords", "acl"}, Local(o), held'[o] = held[o], todo'[o] \subseteq todo[o],
         UNCHANGED <<file, tmp, acl, call, told, shared, overlapped, clean>>,
         stage'[o] = "acl" =>
            /\ call[o].kind = "rotateApp" => p = held[o][call[o].t].login /\ v = o
            /\ call[o].kind = "rotateDevice" => p = call[o].d /\ v = o
  PROVE  TenantInv'
  <1> DEFINE c == call[o]
  <1>1. o \in Underway /\ o \in Holding /\ o \in Holding'
    BY DEF Underway, Holding
  <1>2. c \in Calls /\ c.t \in Tenants /\ held[o] \in Files /\ Made(o)
    BY <1>1, UnderwayFacts DEF TenantInv, TenantTypeOK
  <1>3. /\ Underway' = Underway
        /\ \A q \in Underway' : call'[q] \in Calls
        /\ \A q \in Holding' : held'[q] \in Files
    BY <1>1, <1>2, StayMoves
  <1>4. passwd \in [Tenants -> [Principals -> Ops \cup {None}]]
    BY DEF TenantInv, TenantTypeOK
  <1>5. passwd' \in [Tenants -> [Principals -> Ops \cup {None}]] /\ passwd'[c.t][p] = v
    BY <1>2, <1>4
  <1>6. TenantTypeOK'
    BY <1>3, <1>5 DEF TenantInv, TenantTypeOK, Local
  <1>7. Alone'
    BY <1>1, <1>3, StayAlone DEF TenantInv, Alone
  <1>8. \A f : ~overlapped /\ Agree(f, passwd, acl, told) => Agree(f, passwd', acl, told)
    <2> SUFFICES ASSUME NEW f, ~overlapped, Agree(f, passwd, acl, told)
                 PROVE  Agree(f, passwd', acl, told)
      OBVIOUS
    <2>1. IF p \in Devices THEN told[c.t][p] = "nothing" ELSE told[c.t]["app"] = "nothing"
      BY <1>1, UnderwayFacts
    <2> QED
      BY <1>2, <1>4, <2>1, AgreePassword
  <1>9. Serial'
    <2>1. ~overlapped => Agree(file, passwd', acl, told) /\ Agree(held[o], passwd', acl, told)
      BY <1>1, <1>8, UnderwayFacts DEF Agrees
    <2>2. ~overlapped => Agrees(file)' /\ Agrees(held[o])'
      BY <2>1 DEF Agrees
    <2>3. stage'[o] = "acl" =>
             /\ c.kind = "rotateApp" => passwd'[c.t][held'[o][c.t].login] = o
             /\ c.kind = "rotateDevice" => passwd'[c.t][c.d] = o
      BY <1>5
    <2> QED
      BY <1>1, <1>3, <2>2, <2>3, StaySerial
  <1>10. Made(o)'
    BY <1>2 DEF Made
  <1> QED
    BY <1>6, <1>7, <1>9, <1>10, LocalMade DEF TenantInv

LEMMA UpsertInv ==
  ASSUME TenantInv, NEW o \in Ops, Upsert(o)
  PROVE  TenantInv'
  <1> DEFINE c == call[o]
             p == IF c.kind = "rotateApp" THEN held[o][c.t].login ELSE c.d
  <1>1. /\ stage[o] = "passwords" /\ c.kind \in {"rotateApp", "rotateDevice"}
        /\ passwd' = [passwd EXCEPT ![c.t][p] = o] /\ stage' = [stage EXCEPT ![o] = "acl"]
        /\ UNCHANGED <<file, tmp, acl, call, held, todo, told, shared, overlapped, clean>>
    BY DEF Upsert
  <1>2. o \in Underway /\ o \in Holding
    BY <1>1 DEF Underway, Holding
  <1>3. c \in Calls /\ Made(o)
    BY <1>2, UnderwayFacts DEF TenantInv
  <1>4. p \in Principals /\ IF p \in Devices THEN p \in ScopesOf(c) ELSE "app" \in ScopesOf(c)
    <2>1. CASE c.kind = "rotateApp"
      BY <1>3, <2>1, ScopeFacts, NameFacts DEF Made
    <2>2. CASE c.kind = "rotateDevice"
      BY <1>3, <2>2, ScopeFacts, CallFacts, NameFacts
    <2> QED
      BY <1>1, <2>1, <2>2
  <1>5. Local(o) /\ stage'[o] = "acl"
    BY <1>1 DEF Local, TenantInv, TenantTypeOK, Stages
  <1>6. /\ c.kind = "rotateApp" => p = held[o][c.t].login
        /\ c.kind = "rotateDevice" => p = c.d
    OBVIOUS
  <1> HIDE DEF p
  <1> QED
    BY <1>1, <1>4, <1>5, <1>6, PasswordInv

LEMMA DeleteInv ==
  ASSUME TenantInv, NEW o \in Ops, Delete(o)
  PROVE  TenantInv'
  <1>1. PICK p \in todo[o] :
           /\ passwd' = [passwd EXCEPT ![call[o].t][p] = None]
           /\ todo' = [todo EXCEPT ![o] = @ \ {p}]
    BY DEF Delete
  <1>2. stage[o] = "passwords" /\ UNCHANGED <<file, tmp, acl, stage, call, held, told, shared, overlapped, clean>>
    BY DEF Delete
  <1>3. p \in Principals /\ Local(o) /\ todo'[o] \subseteq todo[o]
    BY <1>1, <1>2 DEF Local, TenantInv, TenantTypeOK
  <1>4. IF p \in Devices THEN p \in ScopesOf(call[o]) ELSE "app" \in ScopesOf(call[o])
    BY <1>2 DEF TenantInv, Holding, Made
  <1> QED
    BY <1>1, <1>2, <1>3, <1>4, PasswordInv

LEMMA DeletedAllInv ==
  ASSUME TenantInv, NEW o \in Ops, DeletedAll(o)
  PROVE  TenantInv'
  <1>1. /\ stage[o] = "passwords" /\ o \in Underway /\ o \in Holding
        /\ call[o].kind \in {"revokeApp", "revokeDevice"}
        /\ UNCHANGED <<file, tmp, passwd, acl, call, held, todo, told, shared, overlapped, clean>>
    BY DEF DeletedAll, Underway, Holding
  <1>2. Local(o) /\ stage'[o] = "acl"
    BY <1>1 DEF DeletedAll, Local, TenantInv, TenantTypeOK, Stages
  <1>3. /\ Underway' = Underway
        /\ \A q \in Underway' : call'[q] \in Calls
        /\ \A q \in Holding' : held'[q] \in Files
    BY <1>1, <1>2, StayMoves DEF TenantInv, TenantTypeOK
  <1>4. TenantTypeOK'
    BY <1>1, <1>2, <1>3 DEF TenantInv, TenantTypeOK, Local
  <1>5. Alone'
    BY <1>1, <1>2, <1>3, StayAlone DEF TenantInv, Alone
  <1>6. Serial'
    BY <1>1, <1>2, <1>3, StaySerial, UnderwayFacts DEF Agrees
  <1>7. Made(o)'
    BY <1>1 DEF TenantInv, Made
  <1> QED
    BY <1>2, <1>4, <1>5, <1>6, <1>7, LocalMade DEF TenantInv

LEMMA RewriteAclInv ==
  ASSUME TenantInv, NEW o \in Ops, RewriteAcl(o)
  PROVE  TenantInv'
  <1> DEFINE c == call[o]
             f == held[o]
  <1>1. /\ stage[o] = "acl" /\ o \in Underway /\ o \in Holding /\ acl' = Entries(f) /\ End(o, "done") /\ Answered(o)
        /\ clean' = (o \notin shared) /\ UNCHANGED <<file, tmp, passwd, shared, overlapped>>
    BY DEF RewriteAcl, Underway, Holding
  <1>2. c \in Calls /\ c.t \in Tenants /\ f \in Files /\ Made(o)
    BY <1>1, UnderwayFacts DEF TenantInv, TenantTypeOK
  <1>3. told' = [told EXCEPT ![c.t] =
                    [s \in Scopes |-> IF s \notin ScopesOf(c) \/ @[s] = "contested" THEN @[s]
                                      ELSE IF c.kind \in {"revokeApp", "revokeDevice"} THEN "revoked"
                                      ELSE o]]
    BY <1>1 DEF Answered
  <1>4. told \in Answers
    BY DEF TenantInv, TenantTypeOK
  <1>5. /\ told' \in Answers /\ \A t \in Tenants \ {c.t} : told'[t] = told[t]
        /\ \A s \in Scopes :
              /\ s \notin ScopesOf(c) => told'[c.t][s] = told[c.t][s]
              /\ s \in ScopesOf(c) =>
                    \/ told'[c.t][s] = "contested"
                    \/ told'[c.t][s] = IF c.kind \in {"revokeApp", "revokeDevice"} THEN "revoked" ELSE o
    BY <1>2, <1>3, <1>4 DEF Answers
  <1>6. ~overlapped => Agrees(file)'
    <2> SUFFICES ASSUME ~overlapped
                 PROVE  Agree(f, passwd, Entries(f), told')
      BY <1>1, Solo DEF Agrees
    <2>1. Agree(f, passwd, Entries(f), told)
      BY <1>1, <1>2, UnderwayFacts, AgreeAcl DEF Agrees
    <2>2. /\ c.kind = "rotateApp" => passwd[c.t][f[c.t].login] = o
          /\ c.kind = "rotateDevice" => passwd[c.t][c.d] = o
      BY <1>1 DEF TenantInv, Serial
    <2>3. /\ c.kind = "save" => f[c.t].base = o
          /\ c.kind = "rotateApp" => f[c.t].key = o /\ ~f[c.t].off /\ f[c.t].login \in Logins
          /\ c.kind = "revokeApp" =>
                f[c.t].key = None /\ (c.devices => \A d \in Devices : f[c.t].devs[d] # "active")
          /\ c.kind = "rotateDevice" => f[c.t].devs[c.d] = "active"
          /\ c.kind = "revokeDevice" => f[c.t].devs[c.d] # "active"
      BY <1>2 DEF Made
    <2> HIDE DEF c, f
    <2> QED
      BY <1>2, <1>5, <2>1, <2>2, <2>3, AgreeAnswered
  <1>7. TenantTypeOK'
    BY <1>1, <1>2, <1>5, EndMoves, EntriesFacts DEF TenantInv, TenantTypeOK, Local
  <1>8. Alone'
    <2>1. o \notin shared => file = f /\ Underway = {o}
      BY <1>1 DEF TenantInv, Alone
    <2> QED
      BY <1>1, <2>1, EndAlone
  <1>9. Serial'
    BY <1>1, <1>6, EndSerial
  <1> QED
    BY <1>1, <1>7, <1>8, <1>9, EndMoves DEF TenantInv
-------------------------------------------------------------------------------
THEOREM TenantInitInv == TenantInit => TenantInv
  <1> SUFFICES ASSUME TenantInit
               PROVE  TenantInv
    OBVIOUS
  <1>1. Underway = {} /\ Holding = {}
    BY DEF TenantInit, Underway, Holding
  <1>2. file \in Files
    <2>1. Unknown \in Definitions
      BY DEF Unknown, Definitions
    <2>2. [Unknown EXCEPT !.base = Issued] \in Definitions
      BY DEF Unknown, Definitions
    <2> QED
      BY <2>1, <2>2 DEF TenantInit, Files
  <1>3. told \in Answers /\ \A t \in Tenants, s \in Scopes : told[t][s] = "nothing"
    BY DEF TenantInit, Answers
  <1>4. TenantTypeOK
    BY <1>1, <1>2, <1>3 DEF TenantInit, TenantTypeOK, Stages
  <1>5. Agrees(file)
    BY <1>3, NameFacts DEF Agrees, Agree, Scopes
  <1> QED
    BY <1>1, <1>4, <1>5 DEF TenantInv, TenantInit, Alone, Serial

THEOREM TenantStepInv == TenantInv /\ [TenantNext]_tenantVars => TenantInv'
  <1> SUFFICES ASSUME TenantInv, [TenantNext]_tenantVars
               PROVE  TenantInv'
    OBVIOUS
  <1>1. CASE UNCHANGED tenantVars
    BY <1>1 DEF tenantVars, TenantInv, TenantTypeOK, Underway, Holding, Alone, Serial, Agrees, Made
  <1> QED
    BY <1>1, BeginInv, ReadInv, WriteInv, RenameInv, UpsertInv, DeleteInv, DeletedAllInv, RewriteAclInv, FailInv
       DEF TenantNext

THEOREM TenantInvariance == TenantSpec => []TenantInv
  BY TenantInitInv, TenantStepInv, PTL DEF TenantSpec

(* An administration that makes one call after the other, any of which may *)
(* fail half way, finds in the API keys and at the broker what the latest  *)
(* answers said.                                                           *)
THEOREM SerialCredentials == TenantSpec => []SerialAsAnswered
  <1>1. TenantInv => SerialAsAnswered
    <2> SUFFICES ASSUME TenantInv, ~overlapped, NEW t \in Tenants, Agree(file, passwd, acl, told)
                 PROVE  /\ told[t]["base"] \in Ops => file[t].base = told[t]["base"]
                        /\ told[t]["app"] \in Ops => file[t].key = told[t]["app"]
                        /\ told[t]["app"] = "revoked" => file[t].key = None
                        /\ told[t]["app"] \in Ops =>
                              \A p \in Logins, o \in Ops :
                                  Admits(t, p, o) <=> o = told[t]["app"] /\ p = file[t].login
                        /\ told[t]["app"] = "revoked" => \A p \in Logins, o \in Ops : ~Admits(t, p, o)
                        /\ \A d \in Devices :
                              /\ told[t][d] \in Ops => \A o \in Ops : Admits(t, d, o) <=> o = told[t][d]
                              /\ told[t][d] = "revoked" => \A o \in Ops : ~Admits(t, d, o)
      BY DEF SerialAsAnswered, KeysAsAnswered, BrokerAsAnswered, TenantInv, Serial, Agrees
    <2> QED
      BY NameFacts DEF Agree, Admits
  <1> QED
    BY <1>1, TenantInvariance, PTL

(* However calls overlapped or failed before, one that runs by itself and  *)
(* succeeds leaves an ACL that agrees with the tenant file.                *)
THEOREM AclIsHealed == TenantSpec => []AclHeals
  <1>1. TenantInv => AclHeals
    BY DEF TenantInv, Alone, AclHeals
  <1> QED
    BY <1>1, TenantInvariance, PTL

===============================================================================
