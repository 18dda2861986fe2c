--------------------------- MODULE SponsoredExecutor ---------------------------
(***************************************************************************)
(* SponsoredTransactionExecutor.execute: a mutation is offered to one gas  *)
(* station after the other.  Every station signs a transaction of its own  *)
(* (its own gas coins), so two submissions of one operation are two        *)
(* mutations.  A station is left for the next one only on errors that the  *)
(* code takes to come before the submission.                               *)
(***************************************************************************)
EXTENDS Naturals

CONSTANTS
    Operations,        \* calls of execute, from any number of requests
    StationCount       \* the configured gas stations, in order

ASSUME ExecutorAssumption == StationCount \in Nat \ {0}

VARIABLES
    station,           \* the station each call is at
    progress,          \* "reserving", "executing", "confirming" or "done"
    fate,              \* what became of the transaction sent to each station
    outcome,           \* how each call ended
    garbled            \* history: stations whose 200 to execute_tx had no digest

executorVars == <<station, progress, fate, outcome, garbled>>

Stations == 1..StationCount

(* "unsent" until execute_tx is posted, then what the chain made of it. *)
Fates == {"unsent", "never", "committed", "aborted"}

Outcomes == {"none", "success", "transactionFailed", "submissionUnknown",
             "confirmationUnknown", "unavailable"}

ExecutorInit ==
    /\ station = [o \in Operations |-> 1]
    /\ progress = [o \in Operations |-> "reserving"]
    /\ fate = [o \in Operations |-> [s \in Stations |-> "unsent"]]
    /\ outcome = [o \in Operations |-> "none"]
    /\ garbled = [o \in Operations |-> {}]

(* Faulty variants (names ending in Fault) change one definition the way a *)
(* plausible bug would; no specification uses them.                        *)
-------------------------------------------------------------------------------
(* An error of isDefinitiveOrAmbiguousSubmission ends the loop. *)
Conclude(o, result) ==
    /\ progress' = [progress EXCEPT ![o] = "done"]
    /\ outcome' = [outcome EXCEPT ![o] = result]
    /\ UNCHANGED station

FailOverFault(o) ==
    /\ progress' = [progress EXCEPT ![o] = "reserving"]
    /\ UNCHANGED <<station, outcome>>

(* Any other error is logged and the next station is tried; after the last *)
(* one the call ends with OBJECTID_GAS_STATION_UNAVAILABLE.                *)
FailOver(o) ==
    \/ /\ station[o] < StationCount
       /\ station' = [station EXCEPT ![o] = @ + 1]
       /\ progress' = [progress EXCEPT ![o] = "reserving"]
       /\ UNCHANGED outcome
    \/ /\ station[o] = StationCount
       /\ Conclude(o, "unavailable")

(* reserve_gas succeeds; the transaction is built and signed. *)
Reserve(o) ==
    /\ progress[o] = "reserving"
    /\ progress' = [progress EXCEPT ![o] = "executing"]
    /\ UNCHANGED <<station, fate, outcome, garbled>>

(* reserve_gas, the check of the reservation, the build or the signature   *)
(* fails.                                                                  *)
ReserveFails(o) ==
    /\ progress[o] = "reserving"
    /\ FailOver(o)
    /\ UNCHANGED <<fate, garbled>>

(* execute_tx answers 4xx: the station did not submit. *)
ExecuteRejected(o) ==
    /\ progress[o] = "executing"
    /\ fate' = [fate EXCEPT ![o][station[o]] = "never"]
    /\ FailOver(o)
    /\ UNCHANGED garbled

ExecuteUnknownFault(o, result) ==
    /\ progress[o] = "executing"
    /\ fate' = [fate EXCEPT ![o][station[o]] = result]
    /\ FailOver(o)
    /\ UNCHANGED garbled

(* execute_tx times out, breaks or answers 5xx: the transaction may have   *)
(* been submitted.                                                         *)
ExecuteUnknown(o, result) ==
    /\ progress[o] = "executing"
    /\ fate' = [fate EXCEPT ![o][station[o]] = result]
    /\ Conclude(o, "submissionUnknown")
    /\ UNCHANGED garbled

(* execute_tx answers 200 with a digest. *)
ExecuteAnswers(o, result) ==
    /\ progress[o] = "executing"
    /\ result # "never"
    /\ fate' = [fate EXCEPT ![o][station[o]] = result]
    /\ progress' = [progress EXCEPT ![o] = "confirming"]
    /\ UNCHANGED <<station, outcome, garbled>>

(* execute_tx answers 200 with a body that is empty, is not JSON or names  *)
(* no digest: the error is not one of isDefinitiveOrAmbiguousSubmission.   *)
ExecuteGarbled(o, result) ==
    /\ progress[o] = "executing"
    /\ fate' = [fate EXCEPT ![o][station[o]] = result]
    /\ garbled' = [garbled EXCEPT ![o] = @ \cup {station[o]}]
    /\ FailOver(o)

ConfirmFault(o) ==
    /\ progress[o] = "confirming"
    /\ Conclude(o, "success")
    /\ UNCHANGED <<fate, garbled>>

(* waitForTransaction returns the effects. *)
Confirm(o) ==
    /\ progress[o] = "confirming"
    /\ Conclude(o, IF fate[o][station[o]] = "committed" THEN "success" ELSE "transactionFailed")
    /\ UNCHANGED <<fate, garbled>>

(* waitForTransaction times out or fails. *)
ConfirmFails(o) ==
    /\ progress[o] = "confirming"
    /\ Conclude(o, "confirmationUnknown")
    /\ UNCHANGED <<fate, garbled>>

Step(o) ==
    \/ Reserve(o)
    \/ ReserveFails(o)
    \/ ExecuteRejected(o)
    \/ \E result \in {"never", "committed", "aborted"} :
          \/ ExecuteUnknown(o, result)
          \/ ExecuteAnswers(o, result)
          \/ ExecuteGarbled(o, result)
    \/ Confirm(o)
    \/ ConfirmFails(o)

ExecutorNext == \E o \in Operations : Step(o)

(* fetch and waitForTransaction carry timeouts, so every await ends. *)
ExecutorSpec == ExecutorInit /\ [][ExecutorNext]_executorVars /\ \A o \in Operations : WF_executorVars(Step(o))

-------------------------------------------------------------------------------
ExecutorTypeOK ==
    /\ station \in [Operations -> Stations]
    /\ progress \in [Operations -> {"reserving", "executing", "confirming", "done"}]
    /\ fate \in [Operations -> [Stations -> Fates]]
    /\ outcome \in [Operations -> Outcomes]
    /\ garbled \in [Operations -> SUBSET Stations]

(* One call of execute commits at most one transaction, whichever stations *)
(* fail and however they fail; only a station that answered 200 without a  *)
(* digest may have committed another one.                                  *)
AtMostOneCommit ==
    \A o \in Operations : \A s, t \in Stations \ garbled[o] :
        fate[o][s] = "committed" /\ fate[o][t] = "committed" => s = t

(* What a call answers is true.  Success: the transaction of the station   *)
(* it ended at was committed.  A definite failure (every station refused,  *)
(* or the transaction aborted): nothing was committed, so a caller may try *)
(* again; stations that answered 200 without a digest excepted.            *)
AnswerIsTrue ==
    \A o \in Operations :
        /\ outcome[o] = "success" => fate[o][station[o]] = "committed"
        /\ outcome[o] \in {"transactionFailed", "unavailable"} =>
              \A s \in Stations \ garbled[o] : fate[o][s] # "committed"

(* Every call of execute ends. *)
Terminates == \A o \in Operations : <>(progress[o] = "done")

===============================================================================
