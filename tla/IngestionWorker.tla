---------------------------- MODULE IngestionWorker ----------------------------
(***************************************************************************)
(* The ingestion pipeline of one server process: connector messages become *)
(* jobs of an in-memory queue, one worker submits them to the ObjectID     *)
(* SDK, classifies failures, asks for the fate of ambiguous submissions    *)
(* and retries with a delay.  Awaits that resume without I/O (dequeue and  *)
(* enqueue of the memory queue) are part of the step they occur in.        *)
(***************************************************************************)
EXTENDS Naturals, SequencesExt

CONSTANTS
    Jobs,             \* connector messages in "state" mode
    Keys,             \* idempotency keys (twin, source, millisecond)
    NoKey,            \* not a key: the message did not arrive yet
    MaxAttempts       \* options.maxAttempts

ASSUME IngestionAssumption ==
    /\ NoKey \notin Keys
    /\ MaxAttempts \in Nat \ {0}

VARIABLES
    canVerify,        \* the SDK can look up a mutation by its reference
    server,           \* "up", "stopping" or "down"
    queue,            \* MemoryQueue.items
    current,          \* the item the worker holds
    phase,            \* "idle" (processing is false), "executing" or "checking"
    failed,           \* failedJobs
    key,              \* idempotencyKey of every job that was created
    landed,           \* how often the job's mutation was committed on chain
    flying,           \* submissions of the job that may still be committed
    timedOut,         \* history: jobs with a submission that timed out
    overtaken         \* history: jobs whose status check came before the commit

vars == <<canVerify, server, queue, current, phase, failed, key, landed, flying,
          timedOut, overtaken>>

history == <<timedOut, overtaken>>

NoItem == [attempts |-> 0]

(* Faulty variants (names ending in Fault) change one definition the way a *)
(* plausible bug would; no specification uses them.                        *)
-------------------------------------------------------------------------------
(* mapObjectIdError.  "rejected" stands for Move aborts, gas, credit,      *)
(* authorization; "refused" for ECONNREFUSED, ENOTFOUND and "temporarily"; *)
(* "reset" for ECONNRESET, 502 and 503; "other" for every message that     *)
(* matches no pattern.                                                     *)
FaultClasses == {"rejected", "refused", "timeout", "reset", "other"}

Retryable(fault) == fault \in {"refused", "timeout", "reset"}

SubmissionUnknownFault(fault) == fault \in {}

SubmissionUnknown(fault) == fault = "reset"

(* After these the transaction may have been committed all the same. *)
Ambiguous(fault) == fault \in {"timeout", "reset", "other"}

(* findMutationByIdempotencyKey: some mutation carries the reference. *)
Committed(k) == \E j \in Jobs : key[j] = k /\ landed[j] > 0

-------------------------------------------------------------------------------
Init ==
    /\ canVerify \in BOOLEAN
    /\ server = "up"
    /\ queue = <<>>
    /\ current = NoItem
    /\ phase = "idle"
    /\ failed = {}
    /\ key = [j \in Jobs |-> NoKey]
    /\ landed = [j \in Jobs |-> 0]
    /\ flying = [j \in Jobs |-> 0]
    /\ timedOut = {}
    /\ overtaken = {}

(* ingestMqttMessage, createJob and enqueue.  Two messages of one source   *)
(* in the same millisecond carry the same key.  A handler that was running *)
(* when the subscriptions were closed still enqueues.                      *)
Enqueue(j, k) ==
    /\ server # "down"
    /\ key[j] = NoKey
    /\ key' = [key EXCEPT ![j] = k]
    /\ queue' = Append(queue, [job |-> j, attempts |-> 0, delayed |-> FALSE])
    /\ UNCHANGED <<canVerify, server, current, phase, failed, landed, flying, history>>

(* processNext, called by the poll timer or by drain: the first item whose *)
(* delay is over leaves the queue and is submitted.                        *)
Dequeue ==
    /\ server # "down"
    /\ phase = "idle"
    /\ \E i \in DOMAIN queue :
          /\ ~queue[i].delayed
          /\ \A h \in 1..(i - 1) : queue[h].delayed
          /\ current' = queue[i]
          /\ queue' = RemoveAt(queue, i)
    /\ phase' = "executing"
    /\ UNCHANGED <<canVerify, server, failed, key, landed, flying, history>>

(* Date.now() passes availableAt. *)
DelayElapses(i) ==
    /\ server # "down"
    /\ queue[i].delayed
    /\ queue' = [queue EXCEPT ![i].delayed = FALSE]
    /\ UNCHANGED <<canVerify, server, current, phase, failed, key, landed, flying, history>>

(* finally: processing = false *)
Finish ==
    /\ current' = NoItem
    /\ phase' = "idle"

(* execute resolves. *)
Succeed ==
    /\ server # "down"
    /\ phase = "executing"
    /\ landed' = [landed EXCEPT ![current.job] = @ + 1]
    /\ Finish
    /\ UNCHANGED <<canVerify, server, queue, failed, key, flying, history>>

RetryItemFault == [current EXCEPT !.delayed = TRUE]

RetryItem == [current EXCEPT !.attempts = @ + 1, !.delayed = TRUE]

GivesUp(fault) == ~Retryable(fault) \/ current.attempts + 1 >= MaxAttempts

(* handleFailure *)
HandleFailure(fault) ==
    \/ /\ \/ GivesUp(fault)
          \/ SubmissionUnknown(fault) /\ ~canVerify
       /\ failed' = failed \cup {current.job}
       /\ Finish
       /\ UNCHANGED queue
    \/ /\ ~GivesUp(fault)
       /\ SubmissionUnknown(fault)
       /\ canVerify
       /\ phase' = "checking"
       /\ UNCHANGED <<queue, current, failed>>
    \/ /\ ~GivesUp(fault)
       /\ ~SubmissionUnknown(fault)
       /\ queue' = Append(queue, RetryItem)
       /\ Finish
       /\ UNCHANGED failed

(* execute rejects. *)
Fail(fault) ==
    /\ server # "down"
    /\ phase = "executing"
    /\ \/ UNCHANGED <<landed, flying>>
       \/ /\ Ambiguous(fault)
          /\ landed' = [landed EXCEPT ![current.job] = @ + 1]
          /\ UNCHANGED flying
       \/ /\ Ambiguous(fault)
          /\ flying' = [flying EXCEPT ![current.job] = @ + 1]
          /\ UNCHANGED landed
    /\ HandleFailure(fault)
    /\ timedOut' = IF fault = "timeout" THEN timedOut \cup {current.job} ELSE timedOut
    /\ UNCHANGED <<canVerify, server, key, overtaken>>

CheckAnswersFault ==
    /\ server # "down"
    /\ phase = "checking"
    /\ queue' = IF Committed(key[current.job]) THEN Append(queue, RetryItem) ELSE queue
    /\ Finish
    /\ UNCHANGED <<canVerify, server, failed, key, landed, flying, history>>

(* The status check answers: a committed job is dropped, another retried. *)
CheckAnswers ==
    /\ server # "down"
    /\ phase = "checking"
    /\ queue' = IF Committed(key[current.job]) THEN queue ELSE Append(queue, RetryItem)
    /\ overtaken' = IF flying[current.job] > 0 THEN overtaken \cup {current.job} ELSE overtaken
    /\ Finish
    /\ UNCHANGED <<canVerify, server, failed, key, landed, flying, timedOut>>

(* The status check rejects: nothing catches the rejection of processNext, *)
(* so the process exits.                                                   *)
CheckThrows ==
    /\ server # "down"
    /\ phase = "checking"
    /\ server' = "down"
    /\ UNCHANGED <<canVerify, queue, current, phase, failed, key, landed, flying, history>>

(* A submission whose answer was lost is committed later. *)
Land(j) ==
    /\ flying[j] > 0
    /\ flying' = [flying EXCEPT ![j] = @ - 1]
    /\ landed' = [landed EXCEPT ![j] = @ + 1]
    /\ UNCHANGED <<canVerify, server, queue, current, phase, failed, key, history>>

(* SIGTERM: the poll timer is cleared and drain takes over. *)
Stop ==
    /\ server = "up"
    /\ server' = "stopping"
    /\ UNCHANGED <<canVerify, queue, current, phase, failed, key, landed, flying, history>>

(* drain found the queue empty, or its deadline passed; a submission that  *)
(* is under way may still be committed.                                    *)
Exit ==
    /\ server = "stopping"
    /\ server' = "down"
    /\ flying' = IF phase = "executing" THEN [flying EXCEPT ![current.job] = @ + 1] ELSE flying
    /\ UNCHANGED <<canVerify, queue, current, phase, failed, key, landed, history>>

Next ==
    \/ \E j \in Jobs, k \in Keys : Enqueue(j, k)
    \/ Dequeue
    \/ \E i \in DOMAIN queue : DelayElapses(i)
    \/ Succeed
    \/ \E fault \in FaultClasses : Fail(fault)
    \/ CheckAnswers
    \/ CheckThrows
    \/ \E j \in Jobs : Land(j)
    \/ Stop
    \/ Exit

(* The poll timer keeps firing, delays elapse and every SDK call ends. *)
Fairness ==
    /\ WF_vars(Dequeue)
    /\ WF_vars(\E i \in DOMAIN queue : DelayElapses(i))
    /\ WF_vars(Succeed \/ \E fault \in FaultClasses : Fail(fault))
    /\ WF_vars(CheckAnswers \/ CheckThrows)

Spec == Init /\ [][Next]_vars /\ Fairness

-------------------------------------------------------------------------------
(* A connector message changes the twin at most once, however often the    *)
(* worker retries, unless a submission timed out, which is retried without *)
(* a status check, or a lost one was committed only after the check had    *)
(* denied it.                                                              *)
AtMostOnce == \A j \in Jobs \ (timedOut \cup overtaken) : landed[j] + flying[j] <= 1

Waiting(j) == \E i \in DOMAIN queue : queue[i].job = j

(* While the server runs, a job that is neither queued nor in the worker's *)
(* hands was reported in failedJobs or its reference is on chain.          *)
NoSilentLoss ==
    server # "down" =>
        \A j \in Jobs : key[j] # NoKey =>
            \/ Waiting(j)
            \/ current # NoItem /\ current.job = j
            \/ j \in failed
            \/ Committed(key[j])

(* Every job is eventually committed or reported as failed, unless the     *)
(* server goes down: retries end, and no failure leaves the worker stuck.  *)
Settles ==
    \A j \in Jobs :
        key[j] # NoKey ~> (j \in failed \/ Committed(key[j]) \/ server = "down")

===============================================================================
