------------------------------- MODULE DataProofs ------------------------------
(***************************************************************************)
(* Proofs about what becomes of data that is taken in: IngestionWorker,    *)
(* for any number of jobs, keys and attempts; RetainedData, for any        *)
(* samples, registrations, periods and bounds; ThreadVerifier, for any     *)
(* threads, requests and pages.                                            *)
(***************************************************************************)
EXTENDS IngestionWorker, RetainedData, ThreadVerifier, FiniteSetTheorems, WellFoundedInduction, TLAPS

(* The ingestion queue and its worker. *)
Items == [job : Jobs, attempts : Nat, delayed : BOOLEAN]

TypeOK ==
    /\ canVerify \in BOOLEAN
    /\ server \in {"up", "stopping", "down"}
    /\ queue \in Seq(Items)
    /\ phase \in {"idle", "executing", "checking"}
    /\ IF phase = "idle" THEN current = NoItem ELSE current \in Items
    /\ failed \subseteq Jobs
    /\ key \in [Jobs -> Keys \cup {NoKey}]
    /\ landed \in [Jobs -> Nat]
    /\ flying \in [Jobs -> Nat]
    /\ timedOut \subseteq Jobs
    /\ overtaken \subseteq Jobs

(* A job is created once and then in one place: at one position of the     *)
(* queue, or with the worker, or settled.                                  *)
Working(j) == phase # "idle" /\ current.job = j

OnePlace ==
    /\ \A i \in 1..Len(queue) : key[queue[i].job] # NoKey /\ ~Working(queue[i].job)
    /\ \A i, h \in 1..Len(queue) : queue[i].job = queue[h].job => i = h
    /\ phase # "idle" => key[current.job] # NoKey

(* While another submission of a job is possible none has succeeded or     *)
(* may still do so, unless one timed out or overtook the check.            *)
Pending(j) == server # "down" /\ (Waiting(j) \/ (phase = "executing" /\ current.job = j))

Unsubmitted ==
    \A j \in Jobs \ (timedOut \cup overtaken) :
        /\ landed[j] + flying[j] <= 1
        /\ key[j] = NoKey \/ Pending(j) => landed[j] + flying[j] = 0

(* Where a created job can be while the server runs. *)
Accounted ==
    server # "down" =>
        \A j \in Jobs : key[j] # NoKey => Waiting(j) \/ Working(j) \/ j \in failed \/ Committed(key[j])

IndInv == TypeOK /\ OnePlace /\ Unsubmitted /\ Accounted

-------------------------------------------------------------------------------
(* Behind the first of two joined sequences comes the second.              *)
LEMMA JoinedBehind ==
  ASSUME NEW S, NEW front \in Seq(S), NEW back \in Seq(S), NEW h \in 1..Len(back)
  PROVE  (front \o back)[Len(front) + h] = back[h]
  OBVIOUS

(* RemoveAt drops one element and keeps the order of the others. *)
LEMMA RemoveAtKeeps ==
  ASSUME NEW S, NEW s \in Seq(S), NEW i \in 1..Len(s)
  PROVE  /\ RemoveAt(s, i) \in Seq(S)
         /\ Len(RemoveAt(s, i)) = Len(s) - 1
         /\ \A h \in 1..(Len(s) - 1) : RemoveAt(s, i)[h] = IF h < i THEN s[h] ELSE s[h + 1]
  <1> DEFINE front == SubSeq(s, 1, i - 1)
             back == SubSeq(s, i + 1, Len(s))
  <1>1. front \in Seq(S) /\ Len(front) = i - 1 /\ \A h \in 1..(i - 1) : front[h] = s[h]
    OBVIOUS
  <1>2. back \in Seq(S) /\ Len(back) = Len(s) - i /\ \A h \in 1..(Len(s) - i) : back[h] = s[i + h]
    OBVIOUS
  <1>3. RemoveAt(s, i) = front \o back
    BY DEF RemoveAt
  <1> HIDE DEF front, back
  <1>4. front \o back \in Seq(S) /\ Len(front \o back) = Len(s) - 1
    BY <1>1, <1>2
  <1>5. ASSUME NEW h \in 1..(Len(s) - 1)
        PROVE  (front \o back)[h] = IF h < i THEN s[h] ELSE s[h + 1]
    <2>1. CASE h < i
      BY <1>1, <1>2, <2>1
    <2>2. CASE ~(h < i)
      <3>1. h - (i - 1) \in 1..(Len(s) - i) /\ i + (h - (i - 1)) = h + 1
        BY <2>2
      <3>2. h = Len(front) + (h - (i - 1)) /\ h - (i - 1) \in 1..Len(back)
        BY <1>1, <1>2, <3>1
      <3>3. (front \o back)[h] = back[h - (i - 1)]
        BY <1>1, <1>2, <3>2, JoinedBehind
      <3> QED
        BY <1>2, <2>2, <3>1, <3>3
    <2> QED
      BY <2>1, <2>2
  <1> QED
    BY <1>3, <1>4, <1>5

(* A created item is not the placeholder. *)
LEMMA ItemIsSomething == \A item \in Items : item # NoItem
  <1> SUFFICES ASSUME NEW item \in Items, item = NoItem PROVE FALSE
    OBVIOUS
  <1>1. DOMAIN item = {"job", "attempts", "delayed"} /\ DOMAIN item = {"attempts"}
    BY DEF Items, NoItem
  <1> QED
    BY <1>1

LEMMA CountersAreNat ==
  ASSUME TypeOK
  PROVE  \A j \in Jobs : landed[j] \in Nat /\ flying[j] \in Nat
  BY DEF TypeOK

LEMMA JobsInQueue ==
  ASSUME TypeOK
  PROVE  \A i \in 1..Len(queue) : queue[i] \in Items /\ queue[i].job \in Jobs
  <1>1. \A i \in 1..Len(queue) : queue[i] \in Items
    BY DEF TypeOK
  <1> QED
    BY <1>1 DEF Items

(* What a step does to the queue: a new last item, or one item less. *)
LEMMA Appended ==
  ASSUME TypeOK, NEW item \in Items, queue' = Append(queue, item)
  PROVE  /\ queue' \in Seq(Items)
         /\ Len(queue') = Len(queue) + 1
         /\ queue'[Len(queue) + 1] = item
         /\ \A i \in 1..Len(queue) : queue'[i] = queue[i]
         /\ \A j \in Jobs : Waiting(j)' <=> Waiting(j) \/ item.job = j
  <1>1. /\ queue' \in Seq(Items)
        /\ Len(queue') = Len(queue) + 1
        /\ queue'[Len(queue) + 1] = item
        /\ \A i \in 1..Len(queue) : queue'[i] = queue[i]
    BY DEF TypeOK
  <1>2. DOMAIN queue = 1..Len(queue) /\ DOMAIN queue' = 1..(Len(queue) + 1) /\ Len(queue) \in Nat
    BY <1>1 DEF TypeOK
  <1>3. ASSUME NEW j \in Jobs
        PROVE  Waiting(j)' <=> Waiting(j) \/ item.job = j
    BY <1>1, <1>2 DEF Waiting
  <1> QED
    BY <1>1, <1>3

LEMMA EnqueueInv ==
  ASSUME IndInv, NEW j \in Jobs, NEW k \in Keys, Enqueue(j, k)
  PROVE  IndInv'
  <1> USE IngestionAssumption DEF IndInv
  <1> DEFINE item == [job |-> j, attempts |-> 0, delayed |-> FALSE]
  <1>1. item \in Items /\ item.job = j
    BY DEF Items
  <1> HIDE DEF item
  <1>2. queue' = Append(queue, item)
    BY DEF Enqueue, item
  <1>3. /\ queue' \in Seq(Items) /\ Len(queue') = Len(queue) + 1
        /\ queue'[Len(queue) + 1] = item /\ \A i \in 1..Len(queue) : queue'[i] = queue[i]
        /\ \A x \in Jobs : Waiting(x)' <=> Waiting(x) \/ x = j
    BY <1>1, <1>2, Appended
  <1>4. TypeOK'
    BY <1>3 DEF Enqueue, TypeOK, history
  <1>5. OnePlace'
    <2>1. /\ \A i \in 1..Len(queue) : queue'[i].job = queue[i].job /\ queue[i].job # j
          /\ queue'[Len(queue) + 1].job = j
          /\ current.job # j \/ phase = "idle"
      BY <1>1, <1>3 DEF Enqueue, OnePlace
    <2>2. \A i \in 1..Len(queue') : i \in 1..Len(queue) \/ i = Len(queue) + 1
      BY <1>3 DEF TypeOK
    <2>3. /\ key'[j] # NoKey
          /\ \A x \in Jobs : key[x] # NoKey => key'[x] # NoKey
      BY DEF Enqueue, TypeOK
    <2>4. \A i \in 1..Len(queue') : key'[queue'[i].job] # NoKey /\ (phase' # "idle" => current'.job # queue'[i].job)
      BY <2>1, <2>2, <2>3, JobsInQueue DEF Enqueue, OnePlace, Working
    <2>5. \A i, h \in 1..Len(queue') : queue'[i].job = queue'[h].job => i = h
      BY <2>1, <2>2 DEF OnePlace
    <2>6. phase' # "idle" => key'[current'.job] # NoKey
      BY <2>3 DEF Enqueue, OnePlace, TypeOK, Items
    <2> QED
      BY <2>4, <2>5, <2>6 DEF OnePlace, Working
  <1>6. Unsubmitted'
    BY <1>3 DEF Enqueue, Unsubmitted, Pending, history, TypeOK
  <1>7. Accounted'
    BY <1>3 DEF Enqueue, Accounted, Working, Committed, TypeOK
  <1> QED
    BY <1>4, <1>5, <1>6, <1>7

LEMMA DequeueInv ==
  ASSUME IndInv, Dequeue
  PROVE  IndInv'
  <1> USE DEF IndInv
  <1>1. PICK i \in 1..Len(queue) : current' = queue[i] /\ queue' = RemoveAt(queue, i)
    BY DEF Dequeue, TypeOK
  <1>2. /\ queue' \in Seq(Items) /\ Len(queue') = Len(queue) - 1
        /\ \A h \in 1..(Len(queue) - 1) : queue'[h] = IF h < i THEN queue[h] ELSE queue[h + 1]
    BY <1>1, RemoveAtKeeps DEF TypeOK
  <1>3. TypeOK'
    BY <1>1, <1>2 DEF Dequeue, TypeOK, history
  <1>4. ASSUME NEW x \in Jobs
        PROVE  Waiting(x)' <=> Waiting(x) /\ x # queue[i].job
    <2>1. DOMAIN queue = 1..Len(queue) /\ DOMAIN queue' = 1..(Len(queue) - 1) /\ Len(queue) \in Nat
      BY <1>2 DEF TypeOK
    <2>2. ASSUME Waiting(x)'
          PROVE  Waiting(x) /\ x # queue[i].job
      <3>1. PICK h \in 1..(Len(queue) - 1) : queue'[h].job = x
        BY <2>1, <2>2 DEF Waiting
      <3>2. PICK g \in 1..Len(queue) : g # i /\ queue[g].job = x
        BY <1>2, <2>1, <3>1
      <3> QED
        BY <2>1, <3>2 DEF Waiting, OnePlace
    <2>3. ASSUME Waiting(x), x # queue[i].job
          PROVE  Waiting(x)'
      <3>1. PICK h \in 1..Len(queue) : queue[h].job = x
        BY <2>1, <2>3 DEF Waiting
      <3>2. CASE h < i
        BY <1>2, <2>1, <3>1, <3>2 DEF Waiting
      <3>3. CASE h > i
        <4>1. h - 1 \in 1..(Len(queue) - 1) /\ queue'[h - 1] = queue[h]
          BY <1>2, <2>1, <3>3
        <4> QED
          BY <2>1, <3>1, <4>1 DEF Waiting
      <3> QED
        BY <2>1, <2>3, <3>1, <3>2, <3>3
    <2> QED
      BY <2>2, <2>3
  <1>5. OnePlace'
    <2>1. \A h \in 1..(Len(queue) - 1) :
              \E g \in 1..Len(queue) : g # i /\ queue'[h] = queue[g] /\ g = IF h < i THEN h ELSE h + 1
      <3> SUFFICES ASSUME NEW h \in 1..(Len(queue) - 1)
                   PROVE  \E g \in 1..Len(queue) :
                             g # i /\ queue'[h] = queue[g] /\ g = IF h < i THEN h ELSE h + 1
        OBVIOUS
      <3>1. CASE h < i
        <4>1. h \in 1..Len(queue) /\ h # i /\ queue'[h] = queue[h]
          BY <1>2, <3>1
        <4> QED
          BY <3>1, <4>1
      <3>2. CASE ~(h < i)
        <4>1. h + 1 \in 1..Len(queue) /\ h + 1 # i /\ queue'[h] = queue[h + 1]
          BY <1>2, <3>2
        <4> QED
          BY <3>2, <4>1
      <3> QED
        BY <3>1, <3>2
    <2>2. \A h \in 1..Len(queue') : key'[queue'[h].job] # NoKey /\ (phase' # "idle" => current'.job # queue'[h].job)
      BY <1>1, <1>2, <2>1 DEF Dequeue, OnePlace
    <2>3. ASSUME NEW h \in 1..Len(queue'), NEW m \in 1..Len(queue'), queue'[h].job = queue'[m].job
          PROVE  h = m
      <3>1. PICK g \in 1..Len(queue) : queue'[h] = queue[g] /\ g = IF h < i THEN h ELSE h + 1
        BY <1>2, <2>1
      <3>2. PICK f \in 1..Len(queue) : queue'[m] = queue[f] /\ f = IF m < i THEN m ELSE m + 1
        BY <1>2, <2>1
      <3>3. g = f
        BY <2>3, <3>1, <3>2 DEF OnePlace
      <3> QED
        BY <1>2, <3>1, <3>2, <3>3 DEF TypeOK
    <2>4. key'[current'.job] # NoKey
      BY <1>1 DEF Dequeue, OnePlace
    <2> QED
      BY <2>2, <2>3, <2>4 DEF OnePlace, Working
  <1>6. Unsubmitted'
    <2>1. Waiting(queue[i].job) /\ current'.job = queue[i].job
      BY <1>1 DEF Waiting, TypeOK
    <2>2. /\ UNCHANGED <<key, landed, flying, timedOut, overtaken, server>>
          /\ phase' = "executing"
      BY DEF Dequeue, history
    <2>3. \A x \in Jobs : Pending(x)' => Pending(x)
      BY <1>4, <2>1, <2>2 DEF Pending
    <2> HIDE DEF IndInv
    <2>4. Unsubmitted
      BY DEF IndInv
    <2> QED
      BY <2>2, <2>3, <2>4 DEF Unsubmitted
  <1>7. Accounted'
    BY <1>1, <1>4 DEF Dequeue, Accounted, Working, Committed, TypeOK
  <1> QED
    BY <1>3, <1>5, <1>6, <1>7

LEMMA DelayElapsesInv ==
  ASSUME IndInv, NEW i \in DOMAIN queue, DelayElapses(i)
  PROVE  IndInv'
  <1> USE DEF IndInv
  <1>1. /\ queue' \in Seq(Items) /\ Len(queue') = Len(queue)
        /\ \A h \in 1..Len(queue) : queue'[h].job = queue[h].job
    <2> DEFINE item == [queue[i] EXCEPT !.delayed = FALSE]
    <2>1. item \in Items /\ item.job = queue[i].job
      <3>1. queue[i] \in Items
        BY DEF TypeOK
      <3> QED
        BY <3>1 DEF Items
    <2>2. queue' = [queue EXCEPT ![i] = item]
      BY DEF DelayElapses
    <2> HIDE DEF item
    <2> QED
      BY <2>1, <2>2 DEF TypeOK
  <1>2. \A x \in Jobs : Waiting(x)' <=> Waiting(x)
    <2>1. DOMAIN queue = 1..Len(queue) /\ DOMAIN queue' = 1..Len(queue)
      BY <1>1 DEF TypeOK
    <2> QED
      BY <1>1, <2>1 DEF Waiting
  <1>3. TypeOK'
    BY <1>1 DEF DelayElapses, TypeOK, history
  <1>4. OnePlace'
    BY <1>1 DEF DelayElapses, OnePlace, Working
  <1>5. Unsubmitted'
    BY <1>2 DEF DelayElapses, Unsubmitted, Pending, history
  <1>6. Accounted'
    BY <1>2 DEF DelayElapses, Accounted, Working, Committed
  <1> QED
    BY <1>3, <1>4, <1>5, <1>6

-------------------------------------------------------------------------------
(* execute *)

(* The item in the worker's hands is of a created job that is not queued. *)
LEMMA CurrentFacts ==
  ASSUME IndInv, phase # "idle"
  PROVE  /\ current \in Items /\ current.job \in Jobs /\ Working(current.job) /\ ~Waiting(current.job)
         /\ key[current.job] # NoKey
  <1>1. current \in Items
    BY DEF IndInv, TypeOK
  <1>2. current.job \in Jobs
    BY <1>1 DEF Items
  <1>3. Working(current.job) /\ key[current.job] # NoKey
    BY DEF Working, IndInv, OnePlace
  <1>4. \A i \in 1..Len(queue) : ~Working(queue[i].job)
    BY DEF IndInv, OnePlace
  <1>5. DOMAIN queue = 1..Len(queue)
    BY DEF IndInv, TypeOK
  <1>6. ~Waiting(current.job)
    BY <1>3, <1>4, <1>5 DEF Waiting
  <1> QED
    BY <1>1, <1>2, <1>3, <1>6

(* It goes back to the end of the queue. *)
LEMMA RetryMoves ==
  ASSUME IndInv, phase # "idle", queue' = Append(queue, RetryItem)
  PROVE  /\ queue' \in Seq(Items) /\ Len(queue') = Len(queue) + 1
         /\ queue'[Len(queue) + 1].job = current.job /\ \A i \in 1..Len(queue) : queue'[i] = queue[i]
         /\ \A x \in Jobs : Waiting(x)' <=> Waiting(x) \/ x = current.job
  <1>1. RetryItem \in Items /\ RetryItem.job = current.job
    <2>1. current \in [job : Jobs, attempts : Nat, delayed : BOOLEAN]
      BY DEF IndInv, TypeOK, Items
    <2> QED
      <3> DEFINE counted == [current EXCEPT !.attempts = @ + 1]
      <3>1. counted \in Items /\ counted.job = current.job
        BY <2>1 DEF Items
      <3>2. RetryItem = [counted EXCEPT !.delayed = TRUE]
        BY <2>1 DEF RetryItem
      <3> HIDE DEF counted
      <3> QED
        BY <3>1, <3>2 DEF Items
  <1> QED
    BY <1>1, Appended DEF IndInv

LEMMA SucceedInv ==
  ASSUME IndInv, Succeed
  PROVE  IndInv'
  <1> USE DEF IndInv
  <1>1. /\ current \in Items /\ current.job \in Jobs /\ Working(current.job) /\ ~Waiting(current.job)
        /\ key[current.job] # NoKey
    BY CurrentFacts DEF Succeed
  <1>2. /\ landed'[current.job] = landed[current.job] + 1
        /\ \A x \in Jobs : x # current.job => landed'[x] = landed[x]
        /\ landed' \in [Jobs -> Nat]
    BY <1>1 DEF Succeed, TypeOK
  <1>3. TypeOK'
    BY <1>2 DEF Succeed, Finish, TypeOK, history
  <1>4. OnePlace'
    BY DEF Succeed, Finish, OnePlace, Working
  <1>5. /\ UNCHANGED <<server, queue, failed, key, flying, timedOut, overtaken>>
        /\ phase = "executing" /\ phase' = "idle" /\ server # "down"
    BY DEF Succeed, Finish, history
  <1>6. \A x \in Jobs : Waiting(x)' <=> Waiting(x)
    BY <1>5 DEF Waiting
  <1>7. Unsubmitted'
    <2>1. \A x \in Jobs : Pending(x)' => Pending(x) /\ x # current.job
      BY <1>1, <1>5, <1>6 DEF Pending
    <2>2. Pending(current.job)
      BY <1>5 DEF Pending
    <2>3. Unsubmitted
      OBVIOUS
    <2> HIDE DEF IndInv
    <2>4. ASSUME NEW x \in Jobs \ (timedOut' \cup overtaken')
          PROVE  /\ landed'[x] + flying'[x] <= 1
                 /\ key'[x] = NoKey \/ Pending(x)' => landed'[x] + flying'[x] = 0
      <3>1. x \in Jobs \ (timedOut \cup overtaken)
        BY <1>5
      <3>2. CASE x = current.job
        <4>1. landed[x] + flying[x] = 0 /\ key[x] # NoKey /\ ~Pending(x)'
          BY <1>1, <2>1, <2>2, <2>3, <3>1, <3>2 DEF Unsubmitted
        <4>2. landed[x] \in Nat /\ flying[x] \in Nat
          BY CountersAreNat DEF IndInv
        <4> QED
          BY <1>2, <1>5, <3>2, <4>1, <4>2
      <3>3. CASE x # current.job
        BY <1>2, <1>5, <2>1, <2>3, <3>1, <3>3 DEF Unsubmitted
      <3> QED
        BY <3>2, <3>3
    <2> QED
      BY <2>4 DEF Unsubmitted
  <1>8. Accounted'
    <2>1. \A x \in Jobs : Committed(key[x]) => Committed(key[x])'
      <3>1. \A x \in Jobs : landed[x] > 0 => landed'[x] > 0
        BY <1>2, CountersAreNat
      <3> QED
        BY <1>5, <3>1 DEF Committed
    <2>2. \A x \in Jobs : x = current.job => Committed(key[x])'
      <3>1. landed'[current.job] > 0
        BY <1>1, <1>2, CountersAreNat
      <3> QED
        BY <1>1, <1>5, <3>1 DEF Committed
    <2>3. Accounted
      OBVIOUS
    <2> HIDE DEF IndInv
    <2> QED
      BY <1>5, <1>6, <2>1, <2>2, <2>3 DEF Accounted, Working
  <1> QED
    BY <1>3, <1>4, <1>7, <1>8

LEMMA FailInv ==
  ASSUME IndInv, NEW fault \in FaultClasses, Fail(fault)
  PROVE  IndInv'
  <1> USE DEF IndInv
  <1>1. /\ current \in Items /\ current.job \in Jobs /\ Working(current.job) /\ ~Waiting(current.job)
        /\ key[current.job] # NoKey /\ phase = "executing" /\ server # "down"
    BY CurrentFacts DEF Fail
  <1>2. /\ landed' \in [Jobs -> Nat] /\ flying' \in [Jobs -> Nat]
        /\ \A x \in Jobs : x # current.job => landed'[x] = landed[x] /\ flying'[x] = flying[x]
        /\ \A x \in Jobs : landed[x] <= landed'[x]
        /\ landed'[current.job] + flying'[current.job] <= landed[current.job] + flying[current.job] + 1
        /\ fault = "refused" =>
              landed'[current.job] + flying'[current.job] = landed[current.job] + flying[current.job]
    <2>1. CASE UNCHANGED <<landed, flying>>
      BY <1>1, <2>1 DEF TypeOK
    <2>2. CASE Ambiguous(fault) /\ landed' = [landed EXCEPT ![current.job] = @ + 1] /\ UNCHANGED flying
      BY <1>1, <2>2 DEF TypeOK, Ambiguous
    <2>3. CASE Ambiguous(fault) /\ flying' = [flying EXCEPT ![current.job] = @ + 1] /\ UNCHANGED landed
      BY <1>1, <2>3 DEF TypeOK, Ambiguous
    <2> QED
      BY <2>1, <2>2, <2>3 DEF Fail
  <1>3. \A x \in Jobs : Committed(key[x]) => Committed(key[x])'
    BY <1>2, CountersAreNat DEF Fail, Committed
  <1>4. /\ UNCHANGED <<canVerify, server, key, overtaken>>
        /\ timedOut' = IF fault = "timeout" THEN timedOut \cup {current.job} ELSE timedOut
    BY DEF Fail
  <1>5. CASE failed' = failed \cup {current.job} /\ Finish /\ UNCHANGED queue
    <2>1. TypeOK'
      BY <1>1, <1>2, <1>4, <1>5 DEF TypeOK, Finish
    <2>2. OnePlace'
      BY <1>4, <1>5 DEF OnePlace, Working, Finish
    <2>3. Unsubmitted'
      BY <1>1, <1>2, <1>4, <1>5 DEF Unsubmitted, Pending, Waiting, Finish, TypeOK
    <2>4. Accounted'
      BY <1>1, <1>3, <1>4, <1>5 DEF Accounted, Working, Waiting, Finish
    <2> QED
      BY <2>1, <2>2, <2>3, <2>4
  <1>6. CASE phase' = "checking" /\ UNCHANGED <<queue, current, failed>>
    <2>1. TypeOK'
      BY <1>1, <1>2, <1>4, <1>6 DEF TypeOK
    <2>2. OnePlace'
      BY <1>1, <1>4, <1>6 DEF OnePlace, Working
    <2>3. Unsubmitted'
      BY <1>1, <1>2, <1>4, <1>6 DEF Unsubmitted, Pending, Waiting, TypeOK
    <2>4. Accounted'
      BY <1>1, <1>3, <1>4, <1>6 DEF Accounted, Working, Waiting
    <2> QED
      BY <2>1, <2>2, <2>3, <2>4
  <1>7. CASE ~GivesUp(fault) /\ ~SubmissionUnknown(fault) /\ queue' = Append(queue, RetryItem) /\ Finish
             /\ UNCHANGED failed
    <2>1. /\ queue' \in Seq(Items) /\ Len(queue') = Len(queue) + 1
          /\ queue'[Len(queue) + 1].job = current.job /\ \A i \in 1..Len(queue) : queue'[i] = queue[i]
          /\ \A x \in Jobs : Waiting(x)' <=> Waiting(x) \/ x = current.job
      BY <1>1, <1>7, RetryMoves
    <2>2. fault \in {"refused", "timeout"}
      BY <1>7 DEF GivesUp, Retryable, SubmissionUnknown
    <2>3. TypeOK'
      BY <1>1, <1>2, <1>4, <1>7, <2>1 DEF TypeOK, Finish
    <2>4. OnePlace'
      <3>1. \A i \in 1..Len(queue') : i \in 1..Len(queue) \/ i = Len(queue) + 1
        BY <2>1 DEF TypeOK
      <3>2. \A i \in 1..Len(queue) : queue'[i].job = queue[i].job /\ queue[i].job # current.job
        BY <1>1, <2>1 DEF OnePlace, Working
      <3>3. phase' = "idle" /\ key' = key
        BY <1>4, <1>7 DEF Finish
      <3> QED
        BY <1>1, <2>1, <3>1, <3>2, <3>3 DEF OnePlace, Working
    <2>5. Unsubmitted'
      BY <1>1, <1>2, <1>4, <1>7, <2>1, <2>2 DEF Unsubmitted, Pending, Finish, TypeOK
    <2>6. Accounted'
      BY <1>1, <1>3, <1>4, <1>7, <2>1 DEF Accounted, Working, Finish
    <2> QED
      BY <2>3, <2>4, <2>5, <2>6
  <1> QED
    BY <1>5, <1>6, <1>7 DEF Fail, HandleFailure

LEMMA CheckAnswersInv ==
  ASSUME IndInv, CheckAnswers
  PROVE  IndInv'
  <1> USE DEF IndInv
  <1>1. /\ current \in Items /\ current.job \in Jobs /\ Working(current.job) /\ ~Waiting(current.job)
        /\ key[current.job] # NoKey /\ phase = "checking" /\ server # "down"
    BY CurrentFacts DEF CheckAnswers
  <1>2. /\ UNCHANGED <<canVerify, server, failed, key, landed, flying, timedOut>> /\ Finish
        /\ overtaken' = IF flying[current.job] > 0 THEN overtaken \cup {current.job} ELSE overtaken
    BY DEF CheckAnswers
  <1>3. CASE Committed(key[current.job]) /\ queue' = queue
    <2>1. TypeOK'
      BY <1>1, <1>2, <1>3 DEF TypeOK, Finish
    <2>2. OnePlace'
      BY <1>2, <1>3 DEF OnePlace, Working, Finish
    <2>3. Unsubmitted'
      BY <1>2, <1>3 DEF Unsubmitted, Pending, Waiting, Finish, TypeOK
    <2>4. Accounted'
      BY <1>1, <1>2, <1>3 DEF Accounted, Working, Waiting, Committed, Finish
    <2> QED
      BY <2>1, <2>2, <2>3, <2>4
  <1>4. CASE ~Committed(key[current.job]) /\ queue' = Append(queue, RetryItem)
    <2>1. /\ queue' \in Seq(Items) /\ Len(queue') = Len(queue) + 1
          /\ queue'[Len(queue) + 1].job = current.job /\ \A i \in 1..Len(queue) : queue'[i] = queue[i]
          /\ \A x \in Jobs : Waiting(x)' <=> Waiting(x) \/ x = current.job
      BY <1>1, <1>4, RetryMoves
    <2>2. landed[current.job] = 0
      BY <1>1, <1>4, CountersAreNat DEF Committed
    <2>3. TypeOK'
      BY <1>1, <1>2, <2>1 DEF TypeOK, Finish
    <2>4. OnePlace'
      <3>1. \A i \in 1..Len(queue') : i \in 1..Len(queue) \/ i = Len(queue) + 1
        BY <2>1 DEF TypeOK
      <3>2. \A i \in 1..Len(queue) : queue'[i].job = queue[i].job /\ queue[i].job # current.job
        BY <1>1, <2>1 DEF OnePlace, Working
      <3>3. phase' = "idle" /\ key' = key
        BY <1>2 DEF Finish
      <3> QED
        BY <1>1, <2>1, <3>1, <3>2, <3>3 DEF OnePlace, Working
    <2>5. Unsubmitted'
      BY <1>1, <1>2, <2>1, <2>2 DEF Unsubmitted, Pending, Finish, TypeOK
    <2>6. Accounted'
      BY <1>1, <1>2, <2>1 DEF Accounted, Working, Committed, Finish
    <2> QED
      BY <2>3, <2>4, <2>5, <2>6
  <1> QED
    BY <1>3, <1>4 DEF CheckAnswers

-------------------------------------------------------------------------------
(* The SDK commits late, the process stops or exits. *)
LEMMA LandInv ==
  ASSUME IndInv, NEW j \in Jobs, Land(j)
  PROVE  IndInv'
  <1> USE DEF IndInv
  <1>1. /\ landed' \in [Jobs -> Nat] /\ flying' \in [Jobs -> Nat]
        /\ \A x \in Jobs : landed'[x] + flying'[x] = landed[x] + flying[x] /\ landed[x] <= landed'[x]
        /\ UNCHANGED <<canVerify, server, queue, current, phase, failed, key, timedOut, overtaken>>
    <2>1. /\ landed' = [landed EXCEPT ![j] = landed[j] + 1] /\ landed[j] \in Nat
          /\ flying' = [flying EXCEPT ![j] = flying[j] - 1] /\ flying[j] \in Nat /\ flying[j] > 0
      BY CountersAreNat DEF Land
    <2>2. landed' \in [Jobs -> Nat] /\ flying' \in [Jobs -> Nat]
      BY <2>1 DEF TypeOK
    <2>3. \A x \in Jobs : landed'[x] + flying'[x] = landed[x] + flying[x] /\ landed[x] <= landed'[x]
      BY <2>1, CountersAreNat DEF TypeOK
    <2> QED
      BY <2>2, <2>3 DEF Land, history
  <1>2. TypeOK' /\ OnePlace'
    BY <1>1 DEF TypeOK, OnePlace, Working
  <1>3. Unsubmitted'
    BY <1>1 DEF Unsubmitted, Pending, Waiting
  <1>4. Accounted'
    <2>1. \A x \in Jobs : Committed(key[x]) => Committed(key[x])'
      <3>1. \A x \in Jobs : landed[x] > 0 => landed'[x] > 0
        <4>1. \A x \in Jobs : landed[x] \in Nat /\ landed'[x] \in Nat
          BY <1>1, CountersAreNat
        <4> QED
          BY <1>1, <4>1
      <3> QED
        BY <1>1, <3>1 DEF Committed
    <2> QED
      BY <1>1, <2>1 DEF Accounted, Working, Waiting
  <1> QED
    BY <1>2, <1>3, <1>4

LEMMA ExitInv ==
  ASSUME IndInv, Exit
  PROVE  IndInv'
  <1> USE DEF IndInv
  <1>1. server # "down" /\ server' = "down"
    BY DEF Exit
  <1>2. /\ phase = "executing" => current.job \in Jobs
        /\ flying' \in [Jobs -> Nat]
        /\ \A x \in Jobs : flying'[x] = IF phase = "executing" /\ x = current.job THEN flying[x] + 1 ELSE flying[x]
    BY DEF Exit, TypeOK, Items
  <1>3. TypeOK' /\ OnePlace'
    BY <1>1, <1>2 DEF Exit, TypeOK, OnePlace, Working, history
  <1>4. Unsubmitted'
    BY <1>1, <1>2 DEF Exit, Unsubmitted, Pending, OnePlace, TypeOK, history
  <1>5. Accounted'
    BY <1>1 DEF Accounted
  <1> QED
    BY <1>3, <1>4, <1>5

LEMMA InitInv == Init => IndInv
  BY DEF Init, IndInv, TypeOK, OnePlace, Unsubmitted, Accounted, Pending, Waiting, Working, NoItem

LEMMA StepInv == IndInv /\ [Next]_vars => IndInv'
  <1> SUFFICES ASSUME IndInv, [Next]_vars PROVE IndInv'
    OBVIOUS
  <1>1. ASSUME UNCHANGED vars \/ CheckThrows \/ Stop
        PROVE  IndInv'
    <2>1. /\ UNCHANGED <<canVerify, queue, current, phase, failed, key, landed, flying, timedOut, overtaken>>
          /\ server' \in {"up", "stopping", "down"} /\ (server = "down" => server' = "down")
      BY <1>1 DEF vars, history, CheckThrows, Stop, IndInv, TypeOK
    <2>2. TypeOK' /\ OnePlace'
      BY <2>1 DEF IndInv, TypeOK, OnePlace, Working
    <2>3. Unsubmitted' /\ Accounted'
      BY <2>1 DEF IndInv, Unsubmitted, Accounted, Pending, Waiting, Working, Committed
    <2> QED
      BY <2>2, <2>3 DEF IndInv
  <1>2. ASSUME NEW j \in Jobs, Land(j) \/ \E k \in Keys : Enqueue(j, k)
        PROVE  IndInv'
    BY <1>2, EnqueueInv, LandInv
  <1>3. ASSUME Dequeue \/ \E i \in DOMAIN queue : DelayElapses(i)
        PROVE  IndInv'
    BY <1>3, DequeueInv, DelayElapsesInv
  <1>4. ASSUME Succeed \/ CheckAnswers \/ Exit \/ \E fault \in FaultClasses : Fail(fault)
        PROVE  IndInv'
    BY <1>4, SucceedInv, FailInv, CheckAnswersInv, ExitInv
  <1> QED
    BY <1>1, <1>2, <1>3, <1>4 DEF Next

(* The worker and its queue keep every job in one place. *)
THEOREM Invariance == Spec => []IndInv
  BY InitInv, StepInv, PTL DEF Spec

(* processNext commits the mutation of a message at most once through all  *)
(* its retries, but for the two cases the history variables name.          *)
THEOREM CommittedOnce == Spec => []AtMostOnce
  <1>1. IndInv => AtMostOnce
    BY DEF IndInv, Unsubmitted, AtMostOnce
  <1> QED
    BY <1>1, Invariance, PTL

(* handleFailure and the status check drop no job without a report or a    *)
(* reference on chain.                                                     *)
THEOREM NothingLost == Spec => []NoSilentLoss
  <1>1. IndInv => NoSilentLoss
    BY ItemIsSomething DEF IndInv, TypeOK, Accounted, Working, NoSilentLoss
  <1> QED
    BY <1>1, Invariance, PTL

-------------------------------------------------------------------------------
(* Windows, files, retention and evidence. *)
Wins == {w \in Seq(Samples) : w # <<>>}
Names == {Doc} \cup {Window(w) : w \in Wins} \cup {Export(ws) : ws \in SUBSET Wins}
Entry == [at : Nat, whole : BOOLEAN]
Busy == {"reading", "stored", "done"}
Registrations == [pc : {"new", "writing", "stored", "done"}, at : Nat, sound : BOOLEAN]

RetainedTypeOK ==
    /\ clock \in Nat
    /\ window \in Seq(Samples)
    /\ flushing \subseteq [w : Wins, pc : {"open", "writing"}]
    /\ DOMAIN store \subseteq Names /\ store \in [DOMAIN store -> Entry]
    /\ reg \in [Calls -> Registrations]
    /\ sweep \in [pc : {"idle", "sweeping"}, todo : SUBSET [o : Names, at : Nat], n : Nat]
    /\ sweep.pc = "idle" => sweep.todo = {}
    /\ snap \in [pc : {"idle", "failed"} \cup Busy, sel : (Samples \X Samples) \cup {None},
                 todo : SUBSET Wins, got : SUBSET Wins, base : SUBSET Wins]
    /\ snap.pc \in Busy =>
          snap.sel \in Samples \X Samples /\ snap.todo \subseteq snap.base /\ snap.got \subseteq snap.base
    /\ kept \subseteq Nat

(* A sample that was accepted has its places and no two of them share one. *)
Flushed == {f.w : f \in flushing} \cup Windows

Places ==
    /\ \A w \in {window} \cup Flushed : ToSet(w) \subseteq taken
    /\ \A w \in Flushed : ToSet(window) \cap ToSet(w) = {}
    /\ \A v, w \in Flushed : v = w \/ ToSet(v) \cap ToSet(w) = {}
    /\ \A s \in taken : s \in lost \cup swept \/ \E w \in {window} \cup Flushed : s \in ToSet(w)
    /\ \A f \in flushing : f.pc = "writing" => Window(f.w) \in DOMAIN store \/ ToSet(f.w) \subseteq swept

(* While the period of a registration runs the document is there, no older *)
(* than the registration, and so does the sweep that is running list it:   *)
(* from the moment its file is touched, if nothing stood against it then.  *)
Running(t) == clock < t + Days

Held(t) ==
    /\ Doc \in DOMAIN store /\ t <= store[Doc].at
    /\ \A x \in sweep.todo : x.o = Doc => t <= x.at

Documented ==
    /\ \A t \in kept : t <= clock /\ (Running(t) => Held(t) /\ store[Doc].whole)
    /\ \A c \in Calls :
          /\ reg[c].at <= clock
          /\ reg[c].sound /\ Running(reg[c].at) => Held(reg[c].at) /\ (reg[c].pc = "stored" => store[Doc].whole)

(* A snapshot has every window it has read that overlaps its interval, and *)
(* is the only dataset on the chain when it is done.                       *)
Gathered ==
    /\ datasets = IF snap.pc = "done" THEN {Dataset(snap.got)} ELSE {}
    /\ snap.pc \in Busy => \A w \in snap.base \ snap.todo : Overlaps(w, snap.sel) => w \in snap.got
    /\ snap.pc \in {"stored", "done"} => snap.todo = {}

RetainedInv == RetainedTypeOK /\ Places /\ Documented /\ Gathered
-------------------------------------------------------------------------------
LEMMA NamesDiffer ==
  /\ \A w : Window(w)[1] = "dataset" /\ Window(w)[2] = w /\ Window(w) # Doc
  /\ \A ws : Export(ws)[1] # "dataset" /\ Export(ws) # Doc
  /\ \A w, ws : Window(w) # Export(ws)
  /\ Doc[1] # "dataset"
  <1>1. Doc[1] = "document" /\ Len(Doc) = 1
    BY DEF Doc
  <1>2. ASSUME NEW w PROVE Window(w)[1] = "dataset" /\ Window(w)[2] = w
    BY DEF Window
  <1>3. ASSUME NEW ws PROVE Export(ws)[1] = "evidence"
    BY DEF Export
  <1>4. "document" # "dataset" /\ "evidence" # "dataset" /\ "evidence" # "document"
    OBVIOUS
  <1> QED
    BY <1>1, <1>2, <1>3, <1>4

LEMMA NameFacts ==
  /\ Doc \in Names
  /\ \A w \in Wins : Window(w) \in Names
  /\ \A ws \in SUBSET Wins : Export(ws) \in Names
  /\ \A o \in Names : o[1] = "dataset" => o[2] \in Wins /\ o = Window(o[2])
  BY NamesDiffer DEF Names

(* The windows that are stored are those whose file is there. *)
LEMMA StoredWindows ==
  ASSUME DOMAIN store \subseteq Names
  PROVE  Windows = {w \in Wins : Window(w) \in DOMAIN store}
  BY NamesDiffer, NameFacts DEF Windows

LEMMA StoredWindowsNext ==
  ASSUME (DOMAIN store)' \subseteq Names
  PROVE  Windows' = {w \in Wins : Window(w) \in DOMAIN (store')}
  BY NamesDiffer, NameFacts DEF Windows

(* What becomes of the files. *)
LEMMA PutFacts ==
  ASSUME RetainedTypeOK, NEW o \in Names, NEW s, s = Put(o, FALSE) \/ s = Put(o, TRUE)
  PROVE  /\ DOMAIN s = DOMAIN store \cup {o} /\ s \in [DOMAIN s -> Entry]
         /\ s[o].at = clock
         /\ \A x \in DOMAIN store \ {o} : s[x] = store[x]
  <1>1. ASSUME NEW whole \in BOOLEAN,
               s = [x \in DOMAIN store \cup {o} |-> IF x = o THEN [at |-> clock, whole |-> whole] ELSE store[x]]
        PROVE  /\ DOMAIN s = DOMAIN store \cup {o} /\ s \in [DOMAIN s -> Entry]
               /\ s[o].at = clock
               /\ \A x \in DOMAIN store \ {o} : s[x] = store[x]
    BY <1>1 DEF RetainedTypeOK, Entry
  <1>2. CASE s = Put(o, FALSE)
    BY <1>1, <1>2 DEF Put
  <1>3. CASE s = Put(o, TRUE)
    BY <1>1, <1>3 DEF Put
  <1> QED
    BY <1>2, <1>3

LEMMA TouchFacts ==
  ASSUME RetainedTypeOK, NEW o \in DOMAIN store
  PROVE  LET s == Touch(o) IN
         /\ DOMAIN s = DOMAIN store /\ s \in [DOMAIN s -> Entry]
         /\ s[o] = [at |-> clock, whole |-> store[o].whole]
         /\ \A x \in DOMAIN store \ {o} : s[x] = store[x]
  BY DEF Touch, RetainedTypeOK, Entry

LEMMA WithoutFacts ==
  ASSUME RetainedTypeOK, NEW o
  PROVE  LET s == Without(o) IN
         /\ DOMAIN s = DOMAIN store \ {o} /\ s \in [DOMAIN s -> Entry]
         /\ \A x \in DOMAIN s : s[x] = store[x]
  BY DEF Without, RetainedTypeOK

(* The bytes of a file whose name is still there arrive. *)
Filled(o) == IF o \in DOMAIN store THEN [store EXCEPT ![o].whole = TRUE] ELSE store

LEMMA FilledFacts ==
  ASSUME RetainedTypeOK, NEW o
  PROVE  LET s == Filled(o) IN
         /\ DOMAIN s = DOMAIN store /\ s \in [DOMAIN s -> Entry]
         /\ o \in DOMAIN store => s[o] = [at |-> store[o].at, whole |-> TRUE]
         /\ \A x \in DOMAIN store \ {o} : s[x] = store[x]
  BY DEF Filled, RetainedTypeOK, Entry

LEMMA AppendSet ==
  ASSUME NEW w \in Seq(Samples), NEW s \in Samples
  PROVE  /\ Append(w, s) \in Wins
         /\ ToSet(Append(w, s)) = ToSet(w) \cup {s}
  <1>1. Append(w, s) \in Seq(Samples) /\ Len(Append(w, s)) = Len(w) + 1 /\ Append(w, s)[Len(w) + 1] = s
    OBVIOUS
  <1>2. \A i \in 1..Len(w) : Append(w, s)[i] = w[i]
    OBVIOUS
  <1>3. DOMAIN w = 1..Len(w) /\ DOMAIN Append(w, s) = 1..(Len(w) + 1) /\ Len(w) \in Nat
    BY <1>1
  <1> QED
    BY <1>1, <1>2, <1>3 DEF ToSet, Wins
-------------------------------------------------------------------------------
LEMMA RetainedInitInv == DataInit => RetainedInv
  <1> SUFFICES ASSUME DataInit PROVE RetainedInv
    OBVIOUS
  <1>1. DOMAIN store = {} /\ store \in [DOMAIN store -> Entry]
    BY DEF DataInit
  <1>2. RetainedTypeOK
    BY <1>1, RetentionAssumption DEF DataInit, RetainedTypeOK, Registrations, New, Unswept, Unasked, Busy
  <1>3. ToSet(window) = {} /\ Windows = {}
    BY <1>1 DEF DataInit, ToSet, Windows
  <1>4. Places
    BY <1>3 DEF DataInit, Places, Flushed
  <1>5. Documented
    BY <1>1 DEF DataInit, Documented, New
  <1>6. Gathered
    BY DEF DataInit, Gathered, Unasked, Busy
  <1> QED
    BY <1>2, <1>4, <1>5, <1>6 DEF RetainedInv

LEMMA SoundIsBoolean ==
  ASSUME RetainedTypeOK
  PROVE  Sound \in BOOLEAN
  BY DEF Sound, RetainedTypeOK, Entry

LEMMA TypeKept ==
  ASSUME RetainedTypeOK, DataNext
  PROVE  RetainedTypeOK'
  <1> USE DEF Busy
  <1>0. DOMAIN store \subseteq Names /\ store \in [DOMAIN store -> Entry]
    BY DEF RetainedTypeOK
  <1>1. ASSUME NEW s \in Samples, Ingest(s) PROVE RetainedTypeOK'
    BY <1>1 DEF Ingest, RetainedTypeOK
  <1>2. ASSUME TakeWindow PROVE window' \in Seq(Samples) /\ flushing' \subseteq [w : Wins, pc : {"open", "writing"}]
    BY <1>2 DEF TakeWindow, Wins, RetainedTypeOK
  <1>3. CASE Flush
    BY <1>2, <1>3 DEF Flush, RetainedTypeOK
  <1>4. ASSUME NEW f \in flushing, CreateFile(f) PROVE RetainedTypeOK'
    <2>1. Window(f.w) \in Names /\ f \in [w : Wins, pc : {"open", "writing"}]
      BY NameFacts DEF RetainedTypeOK
    <2>2. DOMAIN store' \subseteq Names /\ store' \in [DOMAIN store' -> Entry]
      <3>1. store' = Put(Window(f.w), FALSE)
        BY <1>4 DEF CreateFile
      <3>2. /\ DOMAIN store' = DOMAIN store \cup {Window(f.w)}
            /\ store' \in [DOMAIN store' -> Entry]
        BY <2>1, <3>1, PutFacts
      <3> QED
        BY <1>0, <2>1, <3>2
    <2> QED
      BY <1>4, <2>1, <2>2 DEF CreateFile, RetainedTypeOK
  <1>5. ASSUME NEW f \in flushing, FinishFile(f) PROVE RetainedTypeOK'
    <2>1. store' = Filled(Window(f.w))
      BY <1>5 DEF FinishFile, Filled
    <2>2. DOMAIN store' \subseteq Names /\ store' \in [DOMAIN store' -> Entry]
      BY <1>0, <2>1, FilledFacts
    <2> QED
      BY <1>5, <2>2 DEF FinishFile, RetainedTypeOK
  <1>6. ASSUME NEW f \in flushing, FlushFails(f) PROVE RetainedTypeOK'
    BY <1>6 DEF FlushFails, RetainedTypeOK
  <1>7. ASSUME NEW c \in Calls, Register(c) PROVE RetainedTypeOK'
    <2>1. DOMAIN store' \subseteq Names /\ store' \in [DOMAIN store' -> Entry]
      <3>1. CASE Doc \in DOMAIN store /\ store' = Touch(Doc)
        BY <1>0, <3>1, TouchFacts
      <3>2. CASE store' = Put(Doc, FALSE)
        <4>1. DOMAIN store' = DOMAIN store \cup {Doc} /\ store' \in [DOMAIN store' -> Entry]
          BY <3>2, NameFacts, PutFacts
        <4> QED
          BY <1>0, <4>1, NameFacts
      <3> QED
        BY <1>7, <3>1, <3>2 DEF Register
    <2>2. reg' \in [Calls -> Registrations]
      <3>1. \E r \in Registrations : reg' = [reg EXCEPT ![c] = r]
        BY <1>7, SoundIsBoolean DEF Register, Registrations, RetainedTypeOK
      <3> QED
        BY <3>1 DEF RetainedTypeOK
    <2>3. UNCHANGED <<clock, window, flushing, sweep, snap, kept>>
      BY <1>7 DEF Register
    <2> QED
      BY <2>1, <2>2, <2>3 DEF RetainedTypeOK
  <1>8. ASSUME NEW c \in Calls, Written(c) PROVE RetainedTypeOK'
    <2>1. store' = Filled(Doc)
      BY <1>8 DEF Written, Filled
    <2>2. DOMAIN store' \subseteq Names /\ store' \in [DOMAIN store' -> Entry]
      BY <1>0, <2>1, FilledFacts
    <2> QED
      BY <1>8, <2>2 DEF Written, Registrations, RetainedTypeOK
  <1>9. ASSUME NEW c \in Calls, Registered(c) PROVE RetainedTypeOK'
    <2>1. Done \in Registrations
      BY DEF Done, New, Registrations
    <2>2. kept' \subseteq Nat
      BY <1>9 DEF Registered, Registrations, RetainedTypeOK
    <2>3. reg' \in [Calls -> Registrations]
      BY <1>9, <2>1 DEF Registered, WriteFails, RetainedTypeOK
    <2> QED
      BY <1>9, <2>2, <2>3 DEF Registered, RetainedTypeOK
  <1>22. ASSUME NEW c \in Calls, WriteFails(c) PROVE RetainedTypeOK'
    <2>1. Done \in Registrations
      BY DEF Done, New, Registrations
    <2>2. reg' \in [Calls -> Registrations]
      BY <1>22, <2>1 DEF WriteFails, RetainedTypeOK
    <2> QED
      BY <1>22, <2>2 DEF WriteFails, RetainedTypeOK
  <1>10. CASE List
    <2>1. sweep'.todo \subseteq [o : Names, at : Nat] /\ sweep'.pc = "sweeping"
      BY <1>10 DEF List, Entry, RetainedTypeOK
    <2> QED
      BY <1>10, <2>1 DEF List, RetainedTypeOK
  <1>11. CASE Unresolved \/ EndSweep
    BY <1>11 DEF Unresolved, EndSweep, Unswept, RetainedTypeOK
  <1>12. ASSUME NEW x \in sweep.todo, Sweep(x) PROVE RetainedTypeOK'
    <2>1. DOMAIN store' \subseteq Names /\ store' \in [DOMAIN store' -> Entry]
      <3>1. CASE store' = Without(x.o)
        BY <1>0, <3>1, WithoutFacts
      <3>2. CASE store' = store
        BY <1>0, <3>2
      <3> QED
        BY <1>12, <3>1, <3>2 DEF Sweep
    <2>2. /\ sweep'.pc = "sweeping"
          /\ sweep' \in [pc : {"idle", "sweeping"}, todo : SUBSET [o : Names, at : Nat], n : Nat]
      <3>1. /\ sweep.pc = "sweeping"
            /\ \E n \in {sweep.n, sweep.n + 1} : sweep' = [sweep EXCEPT !.todo = @ \ {x}, !.n = n]
        <4>1. sweep \in [pc : {"idle", "sweeping"}, todo : SUBSET [o : Names, at : Nat], n : Nat]
          BY DEF RetainedTypeOK
        <4>2. CASE sweep' = [sweep EXCEPT !.todo = @ \ {x}]
          <5>1. sweep' = [sweep EXCEPT !.todo = @ \ {x}, !.n = sweep.n]
            BY <4>1, <4>2
          <5> QED
            BY <1>12, <5>1 DEF Sweep
        <4>3. CASE sweep' = [sweep EXCEPT !.todo = @ \ {x}, !.n = @ + 1]
          BY <1>12, <4>3 DEF Sweep
        <4> QED
          BY <1>12, <4>2, <4>3 DEF Sweep
      <3>2. PICK n \in Nat : sweep' = [sweep EXCEPT !.todo = @ \ {x}, !.n = n]
        <4>1. sweep.n \in Nat /\ sweep.n + 1 \in Nat
          BY DEF RetainedTypeOK
        <4> QED
          BY <3>1, <4>1
      <3>3. sweep.todo \ {x} \in SUBSET [o : Names, at : Nat]
        BY DEF RetainedTypeOK
      <3> QED
        BY <3>1, <3>2, <3>3 DEF RetainedTypeOK
    <2>3. UNCHANGED <<clock, window, flushing, reg, snap, kept>>
      BY <1>12 DEF Sweep
    <2> QED
      BY <2>1, <2>2, <2>3 DEF RetainedTypeOK
  <1>13. ASSUME NEW sel \in Samples \X Samples, ListWindows(sel) PROVE RetainedTypeOK'
    BY <1>13, StoredWindows DEF ListWindows, RetainedTypeOK
  <1>14. ASSUME NEW w \in snap.todo, ReadWindow(w) PROVE RetainedTypeOK'
    <2>1. CASE snap' = [Unasked EXCEPT !.pc = "failed"]
      BY <1>14, <2>1 DEF ReadWindow, Unasked, RetainedTypeOK
    <2>2. CASE snap' = [snap EXCEPT !.todo = @ \ {w}, !.got = IF Overlaps(w, snap.sel) THEN @ \cup {w} ELSE @]
      <3>1. snap.pc = "reading" /\ UNCHANGED <<clock, window, flushing, store, reg, sweep, kept>>
        BY <1>14 DEF ReadWindow
      <3>2. w \in snap.base /\ snap.todo \subseteq snap.base /\ snap.got \subseteq snap.base
        BY <3>1 DEF RetainedTypeOK
      <3>3. /\ snap'.pc = snap.pc /\ snap'.sel = snap.sel /\ snap'.base = snap.base
            /\ snap'.todo \subseteq snap.base /\ snap'.got \subseteq snap.base
        BY <2>2, <3>2 DEF RetainedTypeOK
      <3>4. snap' \in [pc : {"idle", "failed"} \cup Busy, sel : (Samples \X Samples) \cup {None},
                       todo : SUBSET Wins, got : SUBSET Wins, base : SUBSET Wins]
        BY <2>2, <3>2 DEF RetainedTypeOK
      <3> QED
        BY <3>1, <3>3, <3>4 DEF RetainedTypeOK
    <2> QED
      BY <1>14, <2>1, <2>2 DEF ReadWindow, RetainedTypeOK
  <1>15. CASE StoreExport
    <2>1. CASE snap.got = {}
      BY <1>15, <2>1 DEF StoreExport, Unasked, RetainedTypeOK
    <2>2. CASE snap.got # {}
      <3>1. Export(snap.got) \in Names
        BY <1>15, NameFacts DEF StoreExport, RetainedTypeOK
      <3>2. DOMAIN store' \subseteq Names /\ store' \in [DOMAIN store' -> Entry]
        <4>1. CASE Export(snap.got) \in DOMAIN store /\ store' = Touch(Export(snap.got))
          BY <1>0, <4>1, TouchFacts
        <4>2. CASE store' = Put(Export(snap.got), TRUE)
          <5>1. DOMAIN store' = DOMAIN store \cup {Export(snap.got)} /\ store' \in [DOMAIN store' -> Entry]
            BY <3>1, <4>2, PutFacts
          <5> QED
            BY <1>0, <3>1, <5>1
        <4> QED
          BY <1>15, <2>2, <4>1, <4>2 DEF StoreExport
      <3> QED
        BY <1>15, <2>2, <3>2 DEF StoreExport, RetainedTypeOK
    <2> QED
      BY <2>1, <2>2
  <1>16. CASE Anchor
    BY <1>16 DEF Anchor, Unasked, RetainedTypeOK
  <1>17. CASE Index
    BY <1>17 DEF Index, RetainedTypeOK
  <1>18. CASE Tick
    BY <1>18 DEF Tick, RetainedTypeOK
  <1>19. CASE Shutdown
    BY <1>2, <1>19 DEF Shutdown, RetainedTypeOK
  <1>20. CASE ProcessEnds
    <2>1. window' = <<>> /\ flushing' = {} /\ UNCHANGED <<clock, store, kept>> /\ sweep' = Unswept
      BY <1>20 DEF ProcessEnds
    <2>2. reg' \in [Calls -> Registrations]
      BY <1>20 DEF ProcessEnds, Done, New, Registrations, RetainedTypeOK
    <2>3. snap' = snap \/ snap' = [Unasked EXCEPT !.pc = "failed"]
      BY <1>20 DEF ProcessEnds
    <2>4. /\ snap' \in [pc : {"idle", "failed"} \cup Busy, sel : (Samples \X Samples) \cup {None},
                        todo : SUBSET Wins, got : SUBSET Wins, base : SUBSET Wins]
          /\ snap'.pc \in Busy =>
                /\ snap'.sel \in Samples \X Samples
                /\ snap'.todo \subseteq snap'.base /\ snap'.got \subseteq snap'.base
      BY <2>3 DEF Unasked, RetainedTypeOK
    <2>5. /\ sweep' \in [pc : {"idle", "sweeping"}, todo : SUBSET [o : Names, at : Nat], n : Nat]
          /\ sweep'.todo = {}
      BY <2>1 DEF Unswept
    <2> QED
      BY <2>1, <2>2, <2>4, <2>5 DEF RetainedTypeOK
  <1>21. CASE Restart
    BY <1>21 DEF Restart, RetainedTypeOK
  <1> QED
    BY <1>1, <1>3, <1>4, <1>5, <1>6, <1>7, <1>8, <1>9, <1>10, <1>11, <1>12, <1>13, <1>14, <1>15, <1>16,
       <1>17, <1>18, <1>19, <1>20, <1>21, <1>22 DEF DataNext
-------------------------------------------------------------------------------
(* Windows leave their place only with an explanation. *)
LEMMA PlacesShrink ==
  ASSUME Places, UNCHANGED <<window, taken>>, lost \subseteq lost', swept \subseteq swept',
         Flushed' \subseteq Flushed,
         \A w \in Flushed \ Flushed' : ToSet(w) \subseteq lost' \cup swept',
         \A f \in flushing' : f.pc = "writing" => Window(f.w) \in DOMAIN store' \/ ToSet(f.w) \subseteq swept'
  PROVE  Places'
  BY DEF Places

(* The steps that touch neither windows nor samples. *)
LEMMA PlacesSame ==
  ASSUME RetainedTypeOK, RetainedTypeOK', Places, UNCHANGED <<window, flushing, taken, lost, swept>>,
         \A w \in Wins : Window(w) \in DOMAIN store' <=> Window(w) \in DOMAIN store
  PROVE  Places'
  <1>1. Windows' = Windows
    BY StoredWindows, StoredWindowsNext DEF RetainedTypeOK
  <1>2. Flushed' = Flushed
    BY <1>1 DEF Flushed
  <1>3. \A f \in flushing : f.w \in Wins
    BY DEF RetainedTypeOK
  <1>4. \A f \in flushing' : f.pc = "writing" => Window(f.w) \in DOMAIN store' \/ ToSet(f.w) \subseteq swept'
    BY <1>3 DEF Places
  <1> QED
    BY <1>2, <1>4, PlacesShrink

LEMMA PlacesIngest ==
  ASSUME RetainedTypeOK, Places, NEW s \in Samples, Ingest(s)
  PROVE  Places'
  <1>1. /\ s \notin taken /\ window' = Append(window, s) /\ taken' = taken \cup {s}
        /\ UNCHANGED <<flushing, store, lost, swept>>
    BY DEF Ingest
  <1>2. Flushed' = Flushed
    BY <1>1 DEF Flushed, Windows
  <1>3. ToSet(window') = ToSet(window) \cup {s}
    BY <1>1, AppendSet DEF RetainedTypeOK
  <1>4. \A w \in Flushed : ToSet(w) \subseteq taken /\ s \notin ToSet(w)
    BY <1>1 DEF Places
  <1>5. \A w \in Flushed : ToSet(window') \cap ToSet(w) = {}
    BY <1>3, <1>4 DEF Places
  <1>6. \A t \in taken' : t \in lost \cup swept \/ t \in ToSet(window') \/ \E w \in Flushed : t \in ToSet(w)
    BY <1>1, <1>3 DEF Places
  <1>7. ToSet(window') \subseteq taken' /\ \A w \in Flushed : ToSet(w) \subseteq taken'
    BY <1>1, <1>3, <1>4 DEF Places
  <1>8. \A f \in flushing : f.pc = "writing" => Window(f.w) \in DOMAIN store \/ ToSet(f.w) \subseteq swept
    BY DEF Places
  <1>9. \A v, w \in Flushed : v = w \/ ToSet(v) \cap ToSet(w) = {}
    BY DEF Places
  <1> QED
    BY <1>1, <1>2, <1>5, <1>6, <1>7, <1>8, <1>9 DEF Places

LEMMA PlacesTake ==
  ASSUME RetainedTypeOK, Places, TakeWindow, UNCHANGED <<store, taken, lost, swept>>
  PROVE  Places'
  <1>1. window' = <<>> /\ flushing' = flushing \cup {[w |-> window, pc |-> "open"]}
    BY DEF TakeWindow
  <1>2. Flushed' = Flushed \cup {window}
    <2>1. Windows' = Windows
      BY DEF Windows
    <2>2. [w |-> window, pc |-> "open"].w = window
      OBVIOUS
    <2>3. {f.w : f \in flushing'} = {f.w : f \in flushing} \cup {window}
      BY <1>1, <2>2
    <2> QED
      BY <2>1, <2>3 DEF Flushed
  <1>3. ToSet(window') = {}
    BY <1>1 DEF ToSet
  <1>4. \A f \in flushing' : f.pc = "writing" => f \in flushing
    BY <1>1
  <1> QED
    BY <1>2, <1>3, <1>4 DEF Places

LEMMA PlacesCreate ==
  ASSUME RetainedTypeOK, RetainedTypeOK', Places, NEW f \in flushing, CreateFile(f)
  PROVE  Places'
  <1>1. f \in [w : Wins, pc : {"open", "writing"}]
    BY DEF RetainedTypeOK
  <1>2. store' = Put(Window(f.w), FALSE) /\ UNCHANGED <<window, taken, lost, swept>>
    BY DEF CreateFile
  <1>3. DOMAIN store' = DOMAIN store \cup {Window(f.w)}
    BY <1>1, <1>2, NameFacts, PutFacts
  <1>4. flushing' = (flushing \ {f}) \cup {[f EXCEPT !.pc = "writing"]}
    BY DEF CreateFile
  <1>5. [f EXCEPT !.pc = "writing"].w = f.w
    BY <1>1
  <1>6. Windows' = Windows \cup {f.w}
    BY <1>1, <1>3, NamesDiffer, StoredWindows, StoredWindowsNext DEF RetainedTypeOK
  <1>7. Flushed' = Flushed
    BY <1>4, <1>5, <1>6 DEF Flushed
  <1>8. \A g \in flushing' : g.pc = "writing" => Window(g.w) \in DOMAIN store' \/ ToSet(g.w) \subseteq swept'
    BY <1>2, <1>3, <1>4, <1>5 DEF Places
  <1> QED
    BY <1>2, <1>7, <1>8, PlacesShrink

LEMMA PlacesFinish ==
  ASSUME RetainedTypeOK, RetainedTypeOK', Places, NEW f \in flushing, FinishFile(f)
  PROVE  Places'
  <1>1. f.w \in Wins /\ f.pc = "writing" /\ flushing' = flushing \ {f}
    BY DEF RetainedTypeOK, FinishFile
  <1>2. DOMAIN store' = DOMAIN store
    <2>1. store' = Filled(Window(f.w))
      BY DEF FinishFile, Filled
    <2> QED
      BY <2>1, FilledFacts
  <1>3. UNCHANGED <<window, taken, lost, swept>>
    BY DEF FinishFile
  <1>4. Windows' = Windows
    BY <1>2, StoredWindows, StoredWindowsNext DEF RetainedTypeOK
  <1>5. f.w \in Windows \/ ToSet(f.w) \subseteq swept
    BY <1>1, StoredWindows DEF Places, RetainedTypeOK
  <1>6. Flushed' \subseteq Flushed /\ \A w \in Flushed \ Flushed' : w = f.w /\ w \notin Windows
    BY <1>1, <1>4 DEF Flushed
  <1>7. \A g \in flushing' : g.pc = "writing" => Window(g.w) \in DOMAIN store' \/ ToSet(g.w) \subseteq swept'
    BY <1>1, <1>2, <1>3 DEF Places
  <1> QED
    BY <1>3, <1>5, <1>6, <1>7, PlacesShrink

LEMMA PlacesFail ==
  ASSUME RetainedTypeOK, RetainedTypeOK', Places, NEW f \in flushing, FlushFails(f)
  PROVE  Places'
  <1>1. /\ flushing' = flushing \ {f} /\ lost' = lost \cup ToSet(f.w)
        /\ UNCHANGED <<window, store, taken, swept>>
    BY DEF FlushFails
  <1>2. Flushed' \subseteq Flushed /\ \A w \in Flushed \ Flushed' : w = f.w
    BY <1>1 DEF Flushed, Windows
  <1>3. \A g \in flushing' : g.pc = "writing" => Window(g.w) \in DOMAIN store' \/ ToSet(g.w) \subseteq swept'
    BY <1>1 DEF Places
  <1> QED
    BY <1>1, <1>2, <1>3, PlacesShrink

LEMMA PlacesSweep ==
  ASSUME RetainedTypeOK, RetainedTypeOK', Places, NEW x \in sweep.todo, Sweep(x)
  PROVE  Places'
  <1>1. UNCHANGED <<window, flushing, taken, lost>>
    BY DEF Sweep
  <1>2. CASE UNCHANGED <<store, swept>>
    BY <1>1, <1>2, PlacesSame
  <1>3. CASE store' = Without(x.o) /\ x.o[1] # "dataset" /\ swept' = swept
    <2>1. DOMAIN store' = DOMAIN store \ {x.o}
      BY <1>3, WithoutFacts
    <2>2. \A w \in Wins : Window(w) # x.o
      BY <1>3, NamesDiffer
    <2> QED
      BY <1>1, <1>3, <2>1, <2>2, PlacesSame
  <1>4. CASE store' = Without(x.o) /\ x.o[1] = "dataset" /\ swept' = swept \cup ToSet(x.o[2])
    <2>1. DOMAIN store' = DOMAIN store \ {x.o}
      BY <1>4, WithoutFacts
    <2>2. x.o[2] \in Wins /\ x.o = Window(x.o[2])
      BY <1>4, NameFacts DEF RetainedTypeOK
    <2>3. Windows' = Windows \ {x.o[2]}
      BY <2>1, <2>2, NamesDiffer, StoredWindows, StoredWindowsNext DEF RetainedTypeOK
    <2>4. Flushed' \subseteq Flushed /\ \A w \in Flushed \ Flushed' : w = x.o[2]
      BY <1>1, <2>3 DEF Flushed
    <2>5. \A g \in flushing' : g.pc = "writing" => Window(g.w) \in DOMAIN store' \/ ToSet(g.w) \subseteq swept'
      <3> SUFFICES ASSUME NEW g \in flushing, g.pc = "writing"
                   PROVE  Window(g.w) \in DOMAIN store' \/ ToSet(g.w) \subseteq swept'
        BY <1>1
      <3>1. CASE Window(g.w) = x.o
        <4>1. g.w = x.o[2]
          BY <3>1, NamesDiffer
        <4> QED
          BY <1>4, <4>1
      <3>2. CASE Window(g.w) # x.o
        BY <1>4, <2>1, <3>2 DEF Places
      <3> QED
        BY <3>1, <3>2
    <2>6. swept \subseteq swept' /\ ToSet(x.o[2]) \subseteq swept'
      BY <1>4
    <2> QED
      BY <1>1, <2>4, <2>5, <2>6, PlacesShrink
  <1> QED
    BY <1>2, <1>3, <1>4 DEF Sweep

LEMMA PlacesEnd ==
  ASSUME RetainedTypeOK, Places, ProcessEnds
  PROVE  Places'
  <1>1. /\ window' = <<>> /\ flushing' = {} /\ UNCHANGED <<store, taken, swept>>
        /\ lost' = lost \cup ToSet(window) \cup UNION {ToSet(f.w) : f \in flushing}
    BY DEF ProcessEnds
  <1>2. Flushed' = Windows /\ Windows \subseteq Flushed
    BY <1>1 DEF Flushed, Windows
  <1>3. ToSet(window') = {}
    BY <1>1 DEF ToSet
  <1>4. \A w \in {window} \cup (Flushed \ Windows) : ToSet(w) \subseteq lost'
    BY <1>1 DEF Flushed
  <1> QED
    BY <1>1, <1>2, <1>3, <1>4 DEF Places

LEMMA PlacesKept ==
  ASSUME RetainedTypeOK, RetainedTypeOK', Places, DataNext
  PROVE  Places'
  <1>1. ASSUME NEW s \in Samples, Ingest(s) PROVE Places'
    BY <1>1, PlacesIngest
  <1>2. CASE Flush
    BY <1>2, PlacesTake DEF Flush
  <1>3. ASSUME NEW f \in flushing, CreateFile(f) \/ FinishFile(f) \/ FlushFails(f) PROVE Places'
    BY <1>3, PlacesCreate, PlacesFinish, PlacesFail
  <1>4. ASSUME NEW c \in Calls, Register(c) PROVE Places'
    <2>1. CASE Doc \in DOMAIN store /\ store' = Touch(Doc)
      <3>1. DOMAIN store' = DOMAIN store
        BY <2>1, TouchFacts
      <3> QED
        BY <1>4, <3>1, PlacesSame DEF Register
    <2>2. CASE store' = Put(Doc, FALSE)
      <3>1. DOMAIN store' = DOMAIN store \cup {Doc}
        BY <2>2, NameFacts, PutFacts
      <3> QED
        BY <1>4, <3>1, NamesDiffer, PlacesSame DEF Register
    <2> QED
      BY <1>4, <2>1, <2>2 DEF Register
  <1>5. ASSUME NEW c \in Calls, Written(c) PROVE Places'
    <2>1. store' = Filled(Doc)
      BY <1>5 DEF Written, Filled
    <2>2. DOMAIN store' = DOMAIN store
      BY <2>1, FilledFacts
    <2> QED
      BY <1>5, <2>2, PlacesSame DEF Written
  <1>6. ASSUME NEW c \in Calls, Registered(c) \/ WriteFails(c) PROVE Places'
    BY <1>6, PlacesSame DEF Registered, WriteFails
  <1>7. CASE List \/ Unresolved \/ EndSweep
    BY <1>7, PlacesSame DEF List, Unresolved, EndSweep
  <1>8. ASSUME NEW x \in sweep.todo, Sweep(x) PROVE Places'
    BY <1>8, PlacesSweep
  <1>9. ASSUME NEW sel \in Samples \X Samples, ListWindows(sel) PROVE Places'
    BY <1>9, PlacesSame DEF ListWindows
  <1>10. ASSUME NEW w \in snap.todo, ReadWindow(w) PROVE Places'
    BY <1>10, PlacesSame DEF ReadWindow
  <1>11. CASE StoreExport
    <2>1. UNCHANGED <<window, flushing, taken, lost, swept>>
      BY <1>11 DEF StoreExport
    <2>2. CASE UNCHANGED store
      BY <2>1, <2>2, PlacesSame
    <2>3. CASE Export(snap.got) \in DOMAIN store /\ store' = Touch(Export(snap.got))
      <3>1. DOMAIN store' = DOMAIN store
        BY <2>3, TouchFacts
      <3> QED
        BY <2>1, <3>1, PlacesSame
    <2>4. CASE store' = Put(Export(snap.got), TRUE)
      <3>1. Export(snap.got) \in Names
        BY <1>11, NameFacts DEF StoreExport, RetainedTypeOK
      <3>2. DOMAIN store' = DOMAIN store \cup {Export(snap.got)}
        BY <2>4, <3>1, PutFacts
      <3> QED
        BY <2>1, <3>2, NamesDiffer, PlacesSame
    <2> QED
      BY <1>11, <2>2, <2>3, <2>4 DEF StoreExport
  <1>12. CASE Anchor \/ Index \/ Tick \/ Restart
    BY <1>12, PlacesSame DEF Anchor, Index, Tick, Restart
  <1>13. CASE Shutdown
    BY <1>13, PlacesTake, PlacesSame DEF Shutdown
  <1>14. CASE ProcessEnds
    BY <1>14, PlacesEnd
  <1> QED
    BY <1>1, <1>2, <1>3, <1>4, <1>5, <1>6, <1>7, <1>8, <1>9, <1>10, <1>11, <1>12, <1>13, <1>14 DEF DataNext
-------------------------------------------------------------------------------
(* The steps that leave the document as it is. *)
LEMMA DocumentSame ==
  ASSUME RetainedTypeOK, Documented, UNCHANGED <<clock, reg, kept>>,
         Doc \in DOMAIN store' <=> Doc \in DOMAIN store,
         Doc \in DOMAIN store => store'[Doc] = store[Doc],
         sweep'.todo \subseteq sweep.todo
  PROVE  Documented'
  BY DEF Documented, Running, Held

(* A file of another name. *)
LEMMA DocumentOther ==
  ASSUME RetainedTypeOK, NEW o \in Names, o # Doc,
         \/ store' = Put(o, FALSE) \/ store' = Put(o, TRUE)
         \/ o \in DOMAIN store /\ store' = Touch(o)
         \/ store' = Filled(o) \/ store' = Without(o)
  PROVE  /\ Doc \in DOMAIN store' <=> Doc \in DOMAIN store
         /\ Doc \in DOMAIN store => store'[Doc] = store[Doc]
  <1>1. CASE store' = Put(o, FALSE) \/ store' = Put(o, TRUE)
    <2>1. DOMAIN store' = DOMAIN store \cup {o} /\ \A x \in DOMAIN store \ {o} : store'[x] = store[x]
      BY <1>1, PutFacts
    <2> QED
      BY <2>1
  <1>2. CASE o \in DOMAIN store /\ store' = Touch(o)
    BY <1>2, TouchFacts
  <1>3. CASE store' = Filled(o)
    BY <1>3, FilledFacts
  <1>4. CASE store' = Without(o)
    BY <1>4, WithoutFacts
  <1> QED
    BY <1>1, <1>2, <1>3, <1>4

LEMMA DocumentRegister ==
  ASSUME RetainedTypeOK, Documented, NEW c \in Calls, Register(c)
  PROVE  Documented'
  <1>1. /\ UNCHANGED <<clock, sweep, kept>>
        /\ reg'[c] = [pc |-> IF Doc \in DOMAIN store THEN "stored" ELSE "writing", at |-> clock, sound |-> Sound]
        /\ \A d \in Calls \ {c} : reg'[d] = reg[d]
    BY DEF Register, RetainedTypeOK
  <1>2. clock \in Nat /\ kept \subseteq Nat /\ \A d \in Calls : reg[d].at \in Nat
    BY DEF RetainedTypeOK, Registrations
  <1>3. /\ Doc \in DOMAIN store' /\ store'[Doc].at = clock
        /\ Doc \in DOMAIN store => store'[Doc].whole = store[Doc].whole
    <2>1. CASE Doc \in DOMAIN store /\ store' = Touch(Doc)
      <3>1. Doc \in DOMAIN store' /\ store'[Doc] = [at |-> clock, whole |-> store[Doc].whole]
        BY <2>1, TouchFacts
      <3> QED
        BY <3>1
    <2>2. CASE Doc \notin DOMAIN store /\ store' = Put(Doc, FALSE)
      <3>1. Doc \in Names /\ store' = Put(Doc, FALSE)
        BY <2>2, NameFacts
      <3>2. Doc \in DOMAIN store' /\ store'[Doc].at = clock
        BY <3>1, PutFacts
      <3> QED
        BY <2>2, <3>2
    <2> QED
      BY <2>1, <2>2 DEF Register
  <1>4. \A t \in kept : t <= clock /\ (Running(t)' => Held(t)' /\ store'[Doc].whole)
    BY <1>1, <1>2, <1>3 DEF Documented, Running, Held
  <1>5. ASSUME NEW d \in Calls, d # c
        PROVE  /\ reg'[d].at <= clock
               /\ reg'[d].sound /\ Running(reg[d].at)' =>
                      Held(reg[d].at)' /\ (reg'[d].pc = "stored" => store'[Doc].whole)
    BY <1>1, <1>2, <1>3, <1>5 DEF Documented, Running, Held
  <1>6. /\ reg'[c].at = clock
        /\ reg'[c].sound => Held(clock)' /\ (reg'[c].pc = "stored" => store'[Doc].whole)
    <2>1. Sound => (\A x \in sweep'.todo : x.o # Doc) /\ (Doc \in DOMAIN store => store'[Doc].whole)
      BY <1>1, <1>3 DEF Sound, Listed
    <2>2. Sound => Held(clock)'
      BY <1>1, <1>2, <1>3, <2>1 DEF Held
    <2>3. reg'[c].pc = "stored" => Doc \in DOMAIN store
      BY <1>1
    <2> QED
      BY <1>1, <2>1, <2>2, <2>3
  <1> QED
    BY <1>1, <1>2, <1>4, <1>5, <1>6 DEF Documented, Running, Held

LEMMA DocumentWritten ==
  ASSUME RetainedTypeOK, Documented, NEW c \in Calls, Written(c)
  PROVE  Documented'
  <1>1. store' = Filled(Doc) /\ UNCHANGED <<clock, sweep, kept>> /\ reg' = [reg EXCEPT ![c].pc = "stored"]
    BY DEF Written, Filled
  <1>2. \A d \in Calls : reg'[d].at = reg[d].at /\ reg'[d].sound = reg[d].sound /\ (d # c => reg'[d] = reg[d])
    BY <1>1 DEF RetainedTypeOK, Registrations
  <1>3. /\ DOMAIN store' = DOMAIN store
        /\ Doc \in DOMAIN store => store'[Doc] = [at |-> store[Doc].at, whole |-> TRUE]
    BY <1>1, FilledFacts
  <1>4. \A t : (Running(t)' <=> Running(t)) /\ (Held(t) => Held(t)' /\ store'[Doc].whole)
    BY <1>1, <1>3 DEF Running, Held
  <1> QED
    BY <1>1, <1>2, <1>4 DEF Documented

(* What is answered was held since its file was touched. *)
LEMMA DocumentRegistered ==
  ASSUME RetainedTypeOK, Documented, NEW c \in Calls, Registered(c) \/ WriteFails(c)
  PROVE  Documented'
  <1>1. /\ UNCHANGED <<clock, store, sweep>> /\ reg'[c] = Done
        /\ \A d \in Calls \ {c} : reg'[d] = reg[d]
    BY DEF Registered, WriteFails, RetainedTypeOK
  <1>2. \A t \in kept' : t \in kept \/ (t = reg[c].at /\ reg[c].sound /\ reg[c].pc = "stored")
    BY DEF Registered, WriteFails
  <1>3. ~Done.sound /\ Done.at = 0
    BY DEF Done, New
  <1>4. clock \in Nat
    BY DEF RetainedTypeOK
  <1> QED
    BY <1>1, <1>2, <1>3, <1>4 DEF Documented, Running, Held

LEMMA DocumentList ==
  ASSUME RetainedTypeOK, Documented, List
  PROVE  Documented'
  <1>1. UNCHANGED <<clock, store, reg, kept>>
    BY DEF List
  <1>2. sweep'.todo = {[o |-> o, at |-> store[o].at] : o \in DOMAIN store}
    BY DEF List
  <1>3. \A x \in sweep'.todo : x.o = Doc => x.at = store[Doc].at
    BY <1>2
  <1>4. \A t : (Running(t)' <=> Running(t)) /\ (Held(t) => Held(t)')
    BY <1>1, <1>3 DEF Running, Held
  <1> QED
    BY <1>1, <1>4 DEF Documented

(* What is due for deletion is not held for a period that still runs. *)
LEMMA DocumentSweep ==
  ASSUME RetainedTypeOK, Documented, NEW x \in sweep.todo, Sweep(x)
  PROVE  Documented'
  <1>1. UNCHANGED <<clock, reg, kept>> /\ x.o \in Names /\ x.at \in Nat
    BY DEF Sweep, RetainedTypeOK
  <1>2. sweep'.todo = sweep.todo \ {x}
    <2>1. sweep \in [pc : {"idle", "sweeping"}, todo : SUBSET [o : Names, at : Nat], n : Nat]
      BY DEF RetainedTypeOK
    <2>2. CASE sweep' = [sweep EXCEPT !.todo = @ \ {x}]
      BY <2>1, <2>2
    <2>3. CASE sweep' = [sweep EXCEPT !.todo = @ \ {x}, !.n = @ + 1]
      BY <2>1, <2>3
    <2> QED
      BY <2>2, <2>3 DEF Sweep
  <1>3. CASE store' = store
    BY <1>1, <1>2, <1>3, DocumentSame
  <1>4. CASE store' = Without(x.o) /\ x.o # Doc
    BY <1>1, <1>2, <1>4, DocumentOther, DocumentSame
  <1>5. CASE store' = Without(x.o) /\ x.o = Doc /\ Expired(x)
    <2>1. \A t \in Nat : Held(t) => ~Running(t)
      BY <1>1, <1>5, RetentionAssumption DEF Held, Running, Expired, RetainedTypeOK
    <2>2. \A t : Running(t)' <=> Running(t)
      BY <1>1 DEF Running
    <2>3. kept \subseteq Nat /\ \A c \in Calls : reg[c].at \in Nat
      BY DEF RetainedTypeOK, Registrations
    <2> QED
      BY <1>1, <2>1, <2>2, <2>3 DEF Documented
  <1> QED
    BY <1>3, <1>4, <1>5 DEF Sweep

LEMMA DocumentTick ==
  ASSUME RetainedTypeOK, Documented, Tick
  PROVE  Documented'
  <1>1. clock' = clock + 1 /\ clock \in Nat /\ UNCHANGED <<store, reg, sweep, kept>>
    BY DEF Tick, RetainedTypeOK
  <1>2. kept \subseteq Nat /\ \A c \in Calls : reg[c].at \in Nat
    BY DEF RetainedTypeOK, Registrations
  <1>3. \A t \in Nat : (Running(t)' => Running(t)) /\ (Held(t) => Held(t)')
    BY <1>1, RetentionAssumption DEF Running, Held
  <1> QED
    BY <1>1, <1>2, <1>3 DEF Documented

LEMMA DocumentEnd ==
  ASSUME RetainedTypeOK, Documented, ProcessEnds
  PROVE  Documented'
  <1>1. /\ UNCHANGED <<clock, store, kept>> /\ sweep'.todo = {}
        /\ \A c \in Calls : reg'[c] = IF reg[c].pc = "new" THEN reg[c] ELSE Done
    BY DEF ProcessEnds, Unswept
  <1>2. ~Done.sound /\ Done.at = 0 /\ clock \in Nat
    BY DEF Done, New, RetainedTypeOK
  <1>3. \A t : (Running(t)' <=> Running(t)) /\ (Held(t) => Held(t)')
    BY <1>1 DEF Running, Held
  <1> QED
    BY <1>1, <1>2, <1>3 DEF Documented

LEMMA DocumentKept ==
  ASSUME RetainedTypeOK, Documented, DataNext
  PROVE  Documented'
  <1>1. ASSUME NEW s \in Samples, Ingest(s) PROVE Documented'
    BY <1>1, DocumentSame DEF Ingest
  <1>2. CASE Flush \/ Shutdown
    BY <1>2, DocumentSame DEF Flush, Shutdown, TakeWindow
  <1>3. ASSUME NEW f \in flushing, CreateFile(f) \/ FinishFile(f) \/ FlushFails(f) PROVE Documented'
    <2>1. UNCHANGED <<clock, reg, kept, sweep>>
      BY <1>3 DEF CreateFile, FinishFile, FlushFails
    <2>2. Window(f.w) \in Names /\ Window(f.w) # Doc
      BY NameFacts, NamesDiffer DEF RetainedTypeOK
    <2>3. store' = Put(Window(f.w), FALSE) \/ store' = Filled(Window(f.w)) \/ store' = store
      BY <1>3 DEF CreateFile, FinishFile, FlushFails, Filled
    <2>4. CASE store' = store
      BY <2>1, <2>4, DocumentSame
    <2>5. CASE store' = Put(Window(f.w), FALSE) \/ store' = Filled(Window(f.w))
      BY <2>1, <2>2, <2>5, DocumentOther, DocumentSame
    <2> QED
      BY <2>3, <2>4, <2>5
  <1>4. ASSUME NEW c \in Calls, Register(c) \/ Written(c) \/ Registered(c) \/ WriteFails(c) PROVE Documented'
    BY <1>4, DocumentRegister, DocumentWritten, DocumentRegistered
  <1>5. CASE List
    BY <1>5, DocumentList
  <1>6. CASE Unresolved \/ EndSweep
    BY <1>6, DocumentSame DEF Unresolved, EndSweep, Unswept
  <1>7. ASSUME NEW x \in sweep.todo, Sweep(x) PROVE Documented'
    BY <1>7, DocumentSweep
  <1>8. ASSUME NEW sel \in Samples \X Samples, ListWindows(sel) PROVE Documented'
    BY <1>8, DocumentSame DEF ListWindows
  <1>9. ASSUME NEW w \in snap.todo, ReadWindow(w) PROVE Documented'
    BY <1>9, DocumentSame DEF ReadWindow
  <1>10. CASE StoreExport
    <2>1. UNCHANGED <<clock, reg, kept, sweep>> /\ snap.pc = "reading"
      BY <1>10 DEF StoreExport
    <2>2. Export(snap.got) \in Names /\ Export(snap.got) # Doc
      BY NameFacts, NamesDiffer DEF RetainedTypeOK
    <2>3. CASE store' = store
      BY <2>1, <2>3, DocumentSame
    <2>4. CASE \/ Export(snap.got) \in DOMAIN store /\ store' = Touch(Export(snap.got))
               \/ store' = Put(Export(snap.got), TRUE)
      BY <2>1, <2>2, <2>4, DocumentOther, DocumentSame
    <2> QED
      BY <1>10, <2>3, <2>4 DEF StoreExport
  <1>11. CASE Anchor \/ Index \/ Restart
    BY <1>11, DocumentSame DEF Anchor, Index, Restart
  <1>12. CASE Tick
    BY <1>12, DocumentTick
  <1>13. CASE ProcessEnds
    BY <1>13, DocumentEnd
  <1> QED
    BY <1>1, <1>2, <1>3, <1>4, <1>5, <1>6, <1>7, <1>8, <1>9, <1>10, <1>11, <1>12, <1>13 DEF DataNext
-------------------------------------------------------------------------------
LEMMA GatheredKept ==
  ASSUME RetainedTypeOK, Gathered, DataNext
  PROVE  Gathered'
  <1> DEFINE Refused == [Unasked EXCEPT !.pc = "failed"]
  <1>0. snap \in [pc : {"idle", "failed"} \cup Busy, sel : (Samples \X Samples) \cup {None},
                  todo : SUBSET Wins, got : SUBSET Wins, base : SUBSET Wins]
    BY DEF RetainedTypeOK
  <1>1. Refused.pc = "failed"
    BY DEF Unasked
  <1>2. ASSUME UNCHANGED <<snap, datasets>> PROVE Gathered'
    BY <1>2 DEF Gathered
  <1>3. ASSUME snap' = Refused, datasets' = {} PROVE Gathered'
    BY <1>1, <1>3 DEF Gathered, Busy
  <1>4. ASSUME NEW sel \in Samples \X Samples, ListWindows(sel) PROVE Gathered'
    BY <1>4 DEF ListWindows, Gathered, Busy
  <1>5. ASSUME NEW w \in snap.todo, ReadWindow(w) PROVE Gathered'
    <2>1. snap.pc = "reading" /\ datasets' = {}
      BY <1>5 DEF ReadWindow, Gathered
    <2>2. CASE snap' = Refused
      BY <1>3, <2>1, <2>2
    <2>3. CASE snap' = [snap EXCEPT !.todo = @ \ {w}, !.got = IF Overlaps(w, snap.sel) THEN @ \cup {w} ELSE @]
      <3>1. /\ snap'.pc = "reading" /\ snap'.sel = snap.sel /\ snap'.base = snap.base
            /\ snap'.todo = snap.todo \ {w}
            /\ snap'.got = IF Overlaps(w, snap.sel) THEN snap.got \cup {w} ELSE snap.got
        BY <1>0, <2>1, <2>3
      <3>2. \A v \in snap'.base \ snap'.todo : v = w \/ v \in snap.base \ snap.todo
        BY <3>1
      <3>3. \A v \in snap.base \ snap.todo : Overlaps(v, snap.sel) => v \in snap.got
        BY <2>1 DEF Gathered, Busy
      <3> QED
        BY <2>1, <3>1, <3>2, <3>3 DEF Gathered
    <2> QED
      BY <1>5, <2>2, <2>3 DEF ReadWindow
  <1>6. CASE StoreExport
    <2>1. snap.pc = "reading" /\ snap.todo = {} /\ datasets' = {}
      BY <1>6 DEF StoreExport, Gathered
    <2>2. CASE snap' = Refused
      BY <1>3, <2>1, <2>2
    <2>3. CASE snap' = [snap EXCEPT !.pc = "stored"]
      <3>1. /\ snap'.pc = "stored" /\ snap'.sel = snap.sel /\ snap'.base = snap.base
            /\ snap'.todo = snap.todo /\ snap'.got = snap.got
        BY <1>0, <2>3
      <3> QED
        BY <2>1, <3>1 DEF Gathered, Busy
    <2> QED
      BY <1>6, <2>2, <2>3 DEF StoreExport
  <1>7. CASE Anchor
    <2>1. snap.pc = "stored" /\ datasets = {}
      BY <1>7 DEF Anchor, Gathered
    <2>2. CASE snap' = Refused /\ UNCHANGED datasets
      BY <1>3, <2>1, <2>2
    <2>3. CASE datasets' = datasets \cup {Dataset(snap.got)} /\ snap' = [snap EXCEPT !.pc = "done"]
      <3>1. /\ snap'.pc = "done" /\ snap'.sel = snap.sel /\ snap'.base = snap.base
            /\ snap'.todo = snap.todo /\ snap'.got = snap.got
        BY <1>0, <2>3
      <3>2. datasets' = {Dataset(snap'.got)}
        BY <2>1, <2>3, <3>1
      <3> QED
        BY <2>1, <3>1, <3>2 DEF Gathered, Busy
    <2> QED
      BY <1>7, <2>2, <2>3 DEF Anchor
  <1>8. CASE ProcessEnds
    <2>1. datasets' = datasets
      BY <1>8 DEF ProcessEnds
    <2>2. CASE snap' = snap
      BY <1>2, <2>1, <2>2
    <2>3. CASE snap' = Refused /\ snap.pc # "done"
      BY <1>3, <2>1, <2>3 DEF Gathered
    <2> QED
      BY <1>8, <2>2, <2>3 DEF ProcessEnds
  <1>9. ASSUME NEW s \in Samples, Ingest(s) PROVE Gathered'
    BY <1>2, <1>9 DEF Ingest
  <1>10. ASSUME NEW f \in flushing, CreateFile(f) \/ FinishFile(f) \/ FlushFails(f) PROVE Gathered'
    BY <1>2, <1>10 DEF CreateFile, FinishFile, FlushFails
  <1>11. ASSUME NEW c \in Calls, Register(c) \/ Written(c) \/ Registered(c) \/ WriteFails(c) PROVE Gathered'
    BY <1>2, <1>11 DEF Register, Written, Registered, WriteFails
  <1>12. ASSUME NEW x \in sweep.todo, Sweep(x) PROVE Gathered'
    BY <1>2, <1>12 DEF Sweep
  <1>13. CASE Flush \/ Shutdown \/ List \/ Unresolved \/ EndSweep
    BY <1>2, <1>13 DEF Flush, Shutdown, List, Unresolved, EndSweep
  <1>14. CASE Index \/ Tick \/ Restart
    BY <1>2, <1>14 DEF Index, Tick, Restart
  <1> QED
    BY <1>4, <1>5, <1>6, <1>7, <1>8, <1>9, <1>10, <1>11, <1>12, <1>13, <1>14 DEF DataNext

LEMMA RetainedStepInv == RetainedInv /\ [DataNext]_dataVars => RetainedInv'
  <1> SUFFICES ASSUME RetainedInv, [DataNext]_dataVars PROVE RetainedInv'
    OBVIOUS
  <1>1. CASE DataNext
    BY <1>1, TypeKept, PlacesKept, DocumentKept, GatheredKept DEF RetainedInv
  <1>2. CASE UNCHANGED dataVars
    <2>1. RetainedTypeOK' /\ Documented' /\ Gathered'
      BY <1>2 DEF RetainedInv, RetainedTypeOK, Documented, Running, Held, Gathered, dataVars
    <2>2. Places'
      BY <1>2 DEF RetainedInv, Places, Flushed, Windows, dataVars
    <2> QED
      BY <2>1, <2>2 DEF RetainedInv
  <1> QED
    BY <1>1, <1>2

LEMMA RetainedInvariance == DataSpec => []RetainedInv
  BY RetainedInitInv, RetainedStepInv, PTL DEF DataSpec

(* However windows are flushed, swept and cut short by a stop, a sample    *)
(* that was accepted is in one window only, or deleted by retention, or    *)
(* its loss is explained.                                                  *)
THEOREM SamplesAccounted == DataSpec => []NoSampleSlips
  <1>1. RetainedInv => NoSampleSlips
    <2> SUFFICES ASSUME Places PROVE NoSampleSlips
      BY DEF RetainedInv
    <2> DEFINE places == {ToSet(window)} \cup {ToSet(f.w) : f \in flushing} \cup {ToSet(w) : w \in Windows}
    <2>1. \A p \in places : \E w \in {window} \cup Flushed : p = ToSet(w)
      BY DEF Flushed
    <2>2. \A w \in {window} \cup Flushed : ToSet(w) \in places
      BY DEF Flushed
    <2> HIDE DEF places
    <2>3. taken \subseteq (UNION places) \cup lost \cup swept
      <3>1. ASSUME NEW s \in taken, s \notin lost \cup swept PROVE s \in UNION places
        <4>1. PICK w \in {window} \cup Flushed : s \in ToSet(w)
          BY <3>1 DEF Places
        <4> QED
          BY <2>2, <4>1
      <3> QED
        BY <3>1
    <2>4. \A v, w \in {window} \cup Flushed : v = w \/ ToSet(v) \cap ToSet(w) = {}
      BY DEF Places
    <2>5. \A p, q \in places : p = q \/ p \cap q = {}
      BY <2>1, <2>4
    <2> QED
      BY <2>3, <2>5 DEF NoSampleSlips, places
  <1> QED
    BY <1>1, RetainedInvariance, PTL

(* A document whose registration was answered outlives the sweeps of its   *)
(* retention period, those that start before the answer included, whatever *)
(* else is stored, registered again and deleted meanwhile, unless a sweep  *)
(* had listed its file, or the file was torn, when it was touched.         *)
THEOREM DocumentRetained == DataSpec => []RegisteredIsRetained
  <1>1. RetainedInv => RegisteredIsRetained
    BY DEF RetainedInv, Documented, Running, Held, RegisteredIsRetained
  <1> QED
    BY <1>1, RetainedInvariance, PTL

(* Whatever manifest and file are presented, evidence that is found        *)
(* CONFORMANT holds every ordered window of its interval.                  *)
THEOREM EvidenceComplete == DataSpec => []ConformantIsComplete
  <1>1. RetainedInv => ConformantIsComplete
    <2> SUFFICES ASSUME RetainedInv, snap.pc = "done", NEW d \in datasets
                 PROVE  /\ \A files \in SUBSET snap.base, h \in {d.hash, None} :
                              Valid([context |-> TRUE, id |-> d, hash |-> h, uri |-> d.uri, from |-> d.from,
                                     to |-> d.to, file |-> Export(files)])
                              => Asked \subseteq files
                        /\ \A b \in Bundle(d) : Valid(b)
      BY DEF ConformantIsComplete
    <2>1. d = Dataset(snap.got) /\ snap.todo = {} /\ snap.base \subseteq Wins /\ snap.sel \in Samples \X Samples
      BY DEF RetainedInv, RetainedTypeOK, Gathered, Busy
    <2>2. d.hash = Export(snap.got) /\ d.uri = Export(snap.got)
      BY <2>1 DEF Dataset
    <2>3. Asked \subseteq snap.got
      <3> SUFFICES ASSUME NEW w \in snap.base, Ordered(w), NEW s \in ToSet(w), s \in snap.sel[1]..snap.sel[2]
                   PROVE  w \in snap.got
        BY DEF Asked
      <3>1. w \in Seq(Samples) /\ w # <<>>
        BY <2>1 DEF Wins
      <3>2. PICK i \in DOMAIN w : s = w[i]
        BY DEF ToSet
      <3>3. DOMAIN w = 1..Len(w) /\ Len(w) \in Nat /\ i \in 1..Len(w)
        BY <3>1, <3>2
      <3>4. /\ w[1] \in Nat /\ w[Len(w)] \in Nat /\ s \in Nat
            /\ w[1] <= s /\ s <= w[Len(w)]
        <4>1. 1 \in DOMAIN w /\ Len(w) \in DOMAIN w
          BY <3>3
        <4>2. \A j \in DOMAIN w : w[j] \in Nat
          <5>1. \A j \in 1..Len(w) : w[j] \in Samples
            BY <3>1
          <5> QED
            BY <3>3, <5>1, RetentionAssumption
        <4>3. (1 = i \/ w[1] <= w[i]) /\ (i = Len(w) \/ w[i] <= w[Len(w)])
          BY <3>3, <4>1 DEF Ordered
        <4> QED
          BY <3>2, <4>1, <4>2, <4>3
      <3>5. snap.sel[1] \in Nat /\ snap.sel[2] \in Nat
        BY <2>1, RetentionAssumption
      <3>6. Overlaps(w, snap.sel)
        <4>1. snap.sel[1] <= s /\ s <= snap.sel[2]
          OBVIOUS
        <4>2. w[Len(w)] >= snap.sel[1] /\ w[1] <= snap.sel[2]
          BY <3>4, <3>5, <4>1
        <4> QED
          BY <4>2 DEF Overlaps, From, To
      <3> QED
        BY <2>1, <3>6 DEF RetainedInv, Gathered, Busy
    <2>4. ASSUME NEW files \in SUBSET snap.base, NEW h,
                 Valid([context |-> TRUE, id |-> d, hash |-> h, uri |-> d.uri, from |-> d.from,
                        to |-> d.to, file |-> Export(files)])
          PROVE  Asked \subseteq files
      <3>1. h = d.hash /\ Export(files) = h
        BY <2>4 DEF Valid, Checks
      <3>2. files = snap.got
        BY <2>2, <3>1 DEF Export
      <3> QED
        BY <2>3, <3>2
    <2>5. ASSUME NEW b \in Bundle(d) PROVE Valid(b)
      <3>1. /\ Anchored(d)
            /\ b = [context |-> TRUE, id |-> d, hash |-> d.hash, uri |-> d.uri, from |-> d.from, to |-> d.to,
                    file |-> d.uri]
        BY <2>5 DEF Bundle
      <3> QED
        BY <2>2, <3>1 DEF Valid, ContextChecks, Checks
    <2> QED
      BY <2>4, <2>5
  <1> QED
    BY <1>1, RetainedInvariance, PTL

-------------------------------------------------------------------------------
(* The verification of a digital thread.  The rank of an event is its      *)
(* place in the filtered list.                                             *)
Rank(i) == Cardinality(Matching(i))

ThreadTypeOK ==
    /\ options \in Queries
    /\ thread \in Seq(Event)
    /\ cursor \in Nat
    /\ view \in 0..Len(thread)
    /\ page \in Seq(Event)
    /\ more \in BOOLEAN
    /\ partial \in BOOLEAN
    /\ delivered \in Seq(Event)
    /\ gaps \in BOOLEAN
    /\ errors \in BOOLEAN
    /\ duplicates \in SUBSET Nat
    /\ missing \in SUBSET Nat
    /\ stage \in {"fetching", "checking", "done", "failed"}
    /\ verdict \in {"none", "true", "false", "null"}
    /\ stage # "done" => verdict = "none"

InOrder(events) == \A i, j \in DOMAIN events :
    i <= j => events[i].revisionAfter <= events[j].revisionAfter

(* The events that were checked and those of the page are consecutive      *)
(* members of the filtered list, whatever lists the pages were cut from.   *)
At(k, event) == \E j \in DOMAIN thread :
    Matches(thread[j]) /\ Rank(j) = k /\ event = thread[j]

Consecutive ==
    /\ InOrder(thread)
    /\ cursor = options.cursor + Len(delivered) + Len(page)
    /\ \A i \in DOMAIN delivered : At(options.cursor + i, delivered[i])
    /\ \A i \in DOMAIN page : At(options.cursor + Len(delivered) + i, page[i])
    /\ stage = "checking" /\ ~more => cursor = Rank(view)
    /\ stage = "fetching" => page = <<>>

(* What was recorded so far: without a gap or an error the events are      *)
(* continuous; what is missing lies between two events that were checked;  *)
(* a healthy thread leaves no trace.                                       *)
Unbroken == ~gaps /\ ~errors =>
    \A i \in DOMAIN delivered :
        /\ delivered[i].sound
        /\ delivered[i].revisionBefore = FirstRevision + i - 2
        /\ delivered[i].revisionAfter = FirstRevision + i - 1

Regularly == \A i \in DOMAIN delivered :
    delivered[i].revisionAfter = delivered[i].revisionBefore + 1

Between == stage # "done" /\ Regularly =>
    /\ missing \cap Revisions = {}
    /\ \A r \in missing : delivered # <<>> /\ FirstRevision <= r /\ r < LastRevision
    /\ delivered # <<>> => FirstRevision..LastRevision \subseteq missing \cup Revisions

Traceless == stage # "done" /\ Askable /\ Healthy /\ options.cursor = 0 =>
    /\ ~gaps
    /\ duplicates = {}
    /\ missing = {}

ThreadInv ==
    /\ ThreadTypeOK
    /\ Consecutive
    /\ Unbroken
    /\ Between
    /\ Traceless
    /\ ValidMeansContinuous
    /\ AlarmIsTrue

-------------------------------------------------------------------------------
(* Every non-empty set of natural numbers has a least element.             *)
LEMMA LeastNatural ==
    ASSUME NEW T \in SUBSET Nat, T # {}
    PROVE  \E x \in T : \A y \in T : x <= y
<1> DEFINE Less == {ss \in Nat \X Nat : ss[1] < ss[2]}
<1>1. IsWellFoundedOn(Less, Nat)
  BY NatLessThanWellFounded DEF OpToRel
<1>2. PICK x \in T : \A y \in T : ~(<<y, x>> \in Less)
  <2> HIDE DEF Less
  <2> QED BY <1>1, WFMin
<1>3. \A y \in T : x <= y
  <2> SUFFICES ASSUME NEW y \in T PROVE x <= y
    OBVIOUS
  <2>1. x \in Nat /\ y \in Nat
    OBVIOUS
  <2>2. <<y, x>> \in Nat \X Nat /\ <<y, x>>[1] = y /\ <<y, x>>[2] = x
    BY <2>1
  <2>3. ~(y < x)
    BY <1>2, <2>2
  <2> QED BY <2>1, <2>3
<1> QED BY <1>3

(* The types of what a request may give, and the first revision it asks    *)
(* for.                                                                    *)
LEMMA OptionsTyped ==
    ASSUME options \in Queries
    PROVE  /\ options.cursor \in Nat
           /\ options.from \in Nat \cup {NoBound}
           /\ options.to \in Nat \cup {NoBound}
           /\ NoBound \notin Int
           /\ FirstRevision \in Nat
  BY VerifierAssumption DEF FirstRevision

(* The rank grows by one with every event that passes the filter, and not  *)
(* with others.                                                            *)
LEMMA RankTyped ==
    ASSUME NEW i \in Nat
    PROVE  IsFiniteSet(Matching(i)) /\ Rank(i) \in Nat
<1>1. IsFiniteSet(1..i)
  BY FS_Interval
<1>2. Matching(i) \in SUBSET (1..i)
  BY DEF Matching
<1>3. IsFiniteSet(Matching(i))
  BY <1>1, <1>2, FS_Subset
<1> QED BY <1>3, FS_CardinalityType DEF Rank

LEMMA RankZero == Rank(0) = 0
<1>1. Matching(0) = {}
  BY DEF Matching
<1> QED BY <1>1, FS_EmptySet DEF Rank

LEMMA RankStep ==
    ASSUME NEW i \in Nat, i > 0
    PROVE  Rank(i) = Rank(i - 1) + (IF Matches(thread[i]) THEN 1 ELSE 0)
<1>1. i - 1 \in Nat
  OBVIOUS
<1>2. IsFiniteSet(Matching(i - 1)) /\ Rank(i - 1) \in Nat
  BY <1>1, RankTyped
<1>3. CASE Matches(thread[i])
  <2>1. Matching(i) = Matching(i - 1) \cup {i} /\ i \notin Matching(i - 1)
    BY <1>3 DEF Matching
  <2> QED BY <1>2, <1>3, <2>1, FS_AddElement DEF Rank
<1>4. CASE ~Matches(thread[i])
  <2>1. Matching(i) = Matching(i - 1)
    BY <1>4 DEF Matching
  <2> QED BY <1>2, <1>4, <2>1 DEF Rank
<1> QED BY <1>3, <1>4

LEMMA RankGrows ==
    ASSUME NEW i \in Nat, NEW j \in Nat, i <= j
    PROVE  /\ Rank(i) <= Rank(j)
           /\ i < j /\ Matches(thread[j]) => Rank(i) < Rank(j)
<1>1. IsFiniteSet(Matching(j)) /\ Rank(i) \in Nat /\ Rank(j) \in Nat
  BY RankTyped
<1>2. Matching(i) \in SUBSET Matching(j)
  BY DEF Matching
<1>3. /\ Rank(i) <= Rank(j)
      /\ Rank(i) = Rank(j) => Matching(i) = Matching(j)
  BY <1>1, <1>2, FS_Subset DEF Rank
<1>4. i < j /\ Matches(thread[j]) => j \in Matching(j) /\ j \notin Matching(i)
  BY DEF Matching
<1> QED BY <1>1, <1>3, <1>4

(* Every place of the filtered list is taken: the least prefix with that   *)
(* many matches ends in the match.                                         *)
LEMMA RankReached ==
    ASSUME NEW n \in Nat, NEW k \in 1..Rank(n)
    PROVE  \E i \in Matching(n) : Rank(i) = k
<1> DEFINE T == {i \in 0..n : k <= Rank(i)}
<1>1. n \in T /\ T \in SUBSET Nat
  BY RankTyped
<1>2. PICK i \in T : \A y \in T : i <= y
  <2> HIDE DEF T
  <2> QED BY <1>1, LeastNatural
<1>3. i \in Nat /\ i <= n /\ k <= Rank(i) /\ Rank(i) \in Nat
  BY <1>2, RankTyped
<1>4. i > 0
  BY <1>3, RankZero
<1>5. i - 1 \in 0..n /\ i - 1 \notin T
  BY <1>2, <1>3, <1>4
<1>6. Rank(i - 1) < k /\ Rank(i - 1) \in Nat
  <2>1. Rank(i - 1) \in Nat
    BY <1>5, RankTyped
  <2> QED BY <1>5, <2>1
<1> HIDE DEF T
<1>7. Rank(i) = Rank(i - 1) + (IF Matches(thread[i]) THEN 1 ELSE 0)
  BY <1>3, <1>4, RankStep
<1>8. Matches(thread[i]) /\ Rank(i) = k
  BY <1>3, <1>6, <1>7
<1>9. i \in Matching(n)
  BY <1>3, <1>4, <1>8 DEF Matching
<1> QED BY <1>8, <1>9

(* The filtered list has an event for every rank.                          *)
LEMMA FilteredByRank ==
    ASSUME thread \in Seq(Event), NEW n \in 0..Len(thread)
    PROVE  /\ Filtered(n) \in Seq(Event)
           /\ Len(Filtered(n)) = Rank(n)
           /\ Rank(n) \in Nat
           /\ \A k \in 1..Rank(n) : At(k, Filtered(n)[k])
<1>1. Rank(n) \in Nat
  BY RankTyped
<1>2. \A k \in 1..Rank(n) : At(k, Filtered(n)[k]) /\ Filtered(n)[k] \in Event
  <2> SUFFICES ASSUME NEW k \in 1..Rank(n)
               PROVE  At(k, Filtered(n)[k]) /\ Filtered(n)[k] \in Event
    OBVIOUS
  <2> DEFINE place == CHOOSE i \in Matching(n) : Rank(i) = k
  <2>1. place \in Matching(n) /\ Rank(place) = k
    BY RankReached
  <2>2. Filtered(n)[k] = thread[place]
    BY DEF Filtered, Rank
  <2>3. place \in DOMAIN thread /\ Matches(thread[place]) /\ thread[place] \in Event
    BY <2>1 DEF Matching
  <2> HIDE DEF place
  <2> QED BY <2>1, <2>2, <2>3 DEF At
<1>3. Filtered(n) = [k \in 1..Rank(n) |-> Filtered(n)[k]]
  BY DEF Filtered, Rank
<1>4. Filtered(n) \in [1..Rank(n) -> Event]
  BY <1>2, <1>3
<1> QED BY <1>1, <1>2, <1>4

(* A higher rank is a later event, hence of no lower revision.             *)
LEMMA AtOrdered ==
    ASSUME thread \in Seq(Event), InOrder(thread),
           NEW k \in Int, NEW l \in Int, k <= l,
           NEW e, NEW f, At(k, e), At(l, f)
    PROVE  e.revisionAfter <= f.revisionAfter
<1>1. PICK i \in DOMAIN thread : Matches(thread[i]) /\ Rank(i) = k /\ e = thread[i]
  BY DEF At
<1>2. PICK j \in DOMAIN thread : Matches(thread[j]) /\ Rank(j) = l /\ f = thread[j]
  BY DEF At
<1>3. i \in Nat /\ j \in Nat /\ Rank(i) \in Nat /\ Rank(j) \in Nat
  <2>1. i \in Nat /\ j \in Nat
    OBVIOUS
  <2> QED BY <2>1, RankTyped
<1>4. ~(j < i)
  BY <1>1, <1>2, <1>3, RankGrows
<1> QED BY <1>1, <1>2, <1>3, <1>4 DEF InOrder

(* In a healthy thread the rank determines the revision.                   *)
LEMMA HealthyRank ==
    ASSUME thread \in Seq(Event), options \in Queries, Askable, Healthy,
           NEW n \in 0..Len(thread), options.to # NoBound => n <= options.to
    PROVE  /\ FirstRevision \in Nat \ {0}
           /\ Rank(n) = IF FirstRevision > n THEN 0 ELSE n - FirstRevision + 1
<1>1. /\ FirstRevision \in Nat \ {0}
      /\ options.from # NoBound => options.from = FirstRevision
      /\ options.from = NoBound => FirstRevision = 1
      /\ options.to \in Nat \cup {NoBound}
  BY OptionsTyped DEF FirstRevision, Askable
<1>2. \A i \in 1..n : thread[i].revisionAfter = i /\ thread[i].wanted
  BY DEF Healthy
<1>3. Matching(n) = FirstRevision..n
  BY <1>1, <1>2 DEF Matching, Matches
<1> QED BY <1>1, <1>3, FS_Interval DEF Rank

LEMMA HealthyAt ==
    ASSUME thread \in Seq(Event), options \in Queries, Askable, Healthy,
           NEW k \in Int, NEW e, At(k, e)
    PROVE  /\ FirstRevision \in Nat \ {0}
           /\ e.revisionAfter = FirstRevision + k - 1
           /\ e.revisionBefore = FirstRevision + k - 2
<1>1. PICK j \in DOMAIN thread : Matches(thread[j]) /\ Rank(j) = k /\ e = thread[j]
  BY DEF At
<1>2. e.revisionAfter = j /\ e.revisionBefore = j - 1 /\ j \in 1..Len(thread)
  BY <1>1 DEF Healthy
<1>3. /\ options.to # NoBound => j <= options.to
      /\ FirstRevision <= j
  BY <1>1, <1>2, OptionsTyped DEF Matches, FirstRevision
<1>4. FirstRevision \in Nat \ {0} /\ Rank(j) = j - FirstRevision + 1
  BY <1>2, <1>3, HealthyRank
<1> QED BY <1>1, <1>2, <1>4

-------------------------------------------------------------------------------
LEMMA ThreadStart == ThreadInit => ThreadInv
<1> SUFFICES ASSUME ThreadInit PROVE ThreadInv
  OBVIOUS
<1>1. options \in Queries /\ options.cursor \in Nat
  BY OptionsTyped DEF ThreadInit
<1>2. thread \in Seq(Event) /\ InOrder(thread)
  BY VerifierAssumption DEF ThreadInit, InOrder
<1>3. ThreadTypeOK
  <2>1. Len(thread) \in Nat /\ <<>> \in Seq(Event)
    BY <1>2
  <2>2. cursor \in Nat /\ view \in 0..Len(thread)
    BY <1>1, <2>1 DEF ThreadInit
  <2> QED BY <1>1, <1>2, <2>1, <2>2 DEF ThreadInit, ThreadTypeOK
<1>4. Consecutive
  BY <1>1, <1>2 DEF ThreadInit, Consecutive
<1> QED BY <1>3, <1>4 DEF ThreadInit, ThreadInv, Unbroken, Between, Traceless, Revisions,
             Regularly, ValidMeansContinuous, AlarmIsTrue

(* Steps that check nothing and do not heal a thread keep what is said of  *)
(* the recorded.                                                           *)
LEMMA RecordStays ==
    ASSUME ThreadInv, stage # "done", stage' # "done", verdict' = verdict,
           Healthy' => Healthy,
           UNCHANGED <<options, delivered, gaps, errors, duplicates, missing>>
    PROVE  /\ Unbroken' /\ Between' /\ Traceless'
           /\ ValidMeansContinuous' /\ AlarmIsTrue'
<1>1. verdict = "none"
  BY DEF ThreadInv, ThreadTypeOK
<1>2. Unbroken' /\ Between'
  BY DEF ThreadInv, Unbroken, Between, FirstRevision, Regularly, Revisions, LastRevision, Latest
<1>3. Traceless'
  BY DEF ThreadInv, Traceless, Askable
<1>4. ValidMeansContinuous' /\ AlarmIsTrue'
  BY <1>1 DEF ValidMeansContinuous, AlarmIsTrue
<1> QED BY <1>2, <1>3, <1>4

(* Nor do they disturb the order of the events.                            *)
LEMMA OrderStays ==
    ASSUME Consecutive, stage' = "checking" => stage = "checking", stage' = "fetching" => page = <<>>,
           UNCHANGED <<options, thread, cursor, view, page, more, delivered>>
    PROVE  Consecutive'
<1>1. (\A i \in DOMAIN delivered : At(options.cursor + i, delivered[i]))'
  <2> SUFFICES ASSUME NEW i \in DOMAIN delivered
               PROVE  (At(options.cursor + i, delivered[i]))'
    OBVIOUS
  <2>1. At(options.cursor + i, delivered[i])
    BY DEF Consecutive
  <2> QED BY <2>1 DEF At, Rank, Matching, Matches
<1>2. (\A i \in DOMAIN page : At(options.cursor + Len(delivered) + i, page[i]))'
  <2> SUFFICES ASSUME NEW i \in DOMAIN page
               PROVE  (At(options.cursor + Len(delivered) + i, page[i]))'
    OBVIOUS
  <2>1. At(options.cursor + Len(delivered) + i, page[i])
    BY DEF Consecutive
  <2> QED BY <2>1 DEF At, Rank, Matching, Matches
<1>3. Rank(view)' = Rank(view)
  BY DEF Rank, Matching, Matches
<1> QED BY <1>1, <1>2, <1>3 DEF Consecutive, InOrder

(* A page holds what follows the cursor, as much as there is or may be.    *)
LEMMA SliceTaken ==
    ASSUME cursor \in Nat, NEW events \in Seq(Event), cursor <= Len(events)
    PROVE  /\ Slice(events) \in Seq(Event)
           /\ Len(Slice(events)) \in Nat
           /\ cursor + Len(Slice(events)) <= Len(events)
           /\ \A i \in 1..Len(Slice(events)) :
                  cursor + i \in 1..Len(events) /\ Slice(events)[i] = events[cursor + i]
<1> DEFINE rest == Len(events) - cursor
           size == IF rest < PageLimit THEN rest ELSE PageLimit
<1>1. rest \in Nat /\ Len(events) \in Nat
  OBVIOUS
<1>2. PageLimit \in Nat
  BY VerifierAssumption
<1>3. Slice(events) = [i \in 1..size |-> events[cursor + i]]
  BY DEF Slice
<1>4. size \in Nat /\ size <= rest
  <2> HIDE DEF rest
  <2> QED BY <1>1, <1>2
<1> HIDE DEF size
<1>5. \A i \in 1..size : cursor + i \in 1..Len(events)
  BY <1>1, <1>4
<1>6. Slice(events) \in [1..size -> Event]
  BY <1>3, <1>5
<1>7. Slice(events) \in Seq(Event) /\ Len(Slice(events)) = size
  BY <1>4, <1>6
<1> QED BY <1>1, <1>3, <1>4, <1>5, <1>7

(* A page continues where the one before ended, in whatever list.          *)
LEMMA ThreadFetchStep ==
    ASSUME ThreadInv, NEW n \in 0..Len(thread), NEW enumerated \in BOOLEAN,
           FetchPage(n, enumerated)
    PROVE  ThreadInv'
<1> DEFINE events == Filtered(n)
           size == Len(page')
<1>1. /\ ThreadTypeOK /\ Consecutive /\ thread \in Seq(Event)
      /\ cursor \in Nat /\ page = <<>> /\ Len(delivered) \in Nat
      /\ cursor = options.cursor + Len(delivered)
      /\ options.cursor \in Nat
  <2>1. /\ ThreadTypeOK /\ Consecutive /\ stage = "fetching"
    BY DEF ThreadInv, FetchPage
  <2>2. /\ thread \in Seq(Event) /\ cursor \in Nat /\ options \in Queries /\ delivered \in Seq(Event)
    BY <2>1 DEF ThreadTypeOK
  <2>3. page = <<>> /\ cursor = options.cursor + Len(delivered) + Len(page)
    BY <2>1 DEF Consecutive
  <2>4. options.cursor \in Nat /\ Len(delivered) \in Nat
    BY <2>2, OptionsTyped
  <2> QED BY <2>1, <2>2, <2>3, <2>4
<1>2. /\ events \in Seq(Event) /\ Len(events) = Rank(n) /\ Rank(n) \in Nat
      /\ \A k \in 1..Rank(n) : At(k, events[k])
  BY <1>1, FilteredByRank
<1>3. /\ view' = n /\ stage' = "checking" /\ stage = "fetching" /\ verdict' = verdict
      /\ cursor <= Len(events)
      /\ page' = Slice(events)
      /\ more' = (Advance(page') < Len(events))
      /\ partial' = ~enumerated
      /\ cursor' = Advance(page')
      /\ UNCHANGED <<options, thread, delivered, gaps, errors, duplicates, missing>>
  BY DEF FetchPage
<1> HIDE DEF events
<1>4. size \in Nat /\ cursor + size <= Len(events)
  BY <1>1, <1>2, <1>3, SliceTaken
<1>5. /\ page' \in Seq(Event)
      /\ \A i \in 1..size : cursor + i \in 1..Len(events) /\ page'[i] = events[cursor + i]
  BY <1>1, <1>2, <1>3, SliceTaken
<1>6. cursor' = cursor + size /\ more' = (cursor + size < Len(events))
  BY <1>3 DEF Advance
<1> HIDE DEF size
<1>7. ThreadTypeOK'
  <2>1. cursor' \in Nat
    <3>1. cursor \in Nat /\ size \in Nat
      BY <1>1, <1>4
    <3> QED BY <1>6, <3>1
  <2>2. more' \in BOOLEAN /\ partial' \in BOOLEAN
    BY <1>3
  <2>3. view' \in 0..Len(thread')
    BY <1>3
  <2> QED BY <1>1, <1>3, <1>5, <2>1, <2>2, <2>3 DEF ThreadTypeOK
<1>8. Consecutive'
  <2>1. InOrder(thread)'
    BY <1>1, <1>3 DEF Consecutive, InOrder
  <2>2. (cursor = options.cursor + Len(delivered) + Len(page))'
    BY <1>1, <1>3, <1>6 DEF size
  <2>3. (\A i \in DOMAIN delivered : At(options.cursor + i, delivered[i]))'
    <3> SUFFICES ASSUME NEW i \in DOMAIN delivered
                 PROVE  (At(options.cursor + i, delivered[i]))'
      BY <1>3
    <3>1. At(options.cursor + i, delivered[i])
      BY <1>1 DEF Consecutive
    <3> QED BY <1>3, <3>1 DEF At, Rank, Matching, Matches
  <2>4. (\A i \in DOMAIN page : At(options.cursor + Len(delivered) + i, page[i]))'
    <3> SUFFICES ASSUME NEW i \in DOMAIN page'
                 PROVE  (At(options.cursor + Len(delivered) + i, page[i]))'
      OBVIOUS
    <3>1. i \in 1..size
      BY <1>5 DEF size
    <3>2. cursor + i \in 1..Rank(n) /\ page'[i] = events[cursor + i]
      BY <1>2, <1>5, <3>1
    <3>3. At(cursor + i, page'[i])
      BY <1>2, <3>2
    <3>4. At(options.cursor + Len(delivered) + i, page'[i])
      BY <1>1, <3>3
    <3> QED BY <1>3, <3>4 DEF At, Rank, Matching, Matches
  <2>5. (stage = "checking" /\ ~more => cursor = Rank(view))'
    <3>1. Rank(view)' = Rank(n)
      BY <1>3 DEF Rank, Matching, Matches
    <3>2. ~more' => ~(cursor + size < Len(events))
      BY <1>6, Zenon
    <3>3. ~(cursor + size < Len(events)) => cursor' = Rank(n)
      BY <1>1, <1>2, <1>4, <1>6
    <3> QED BY <3>1, <3>2, <3>3
  <2> QED BY <1>3, <2>1, <2>2, <2>3, <2>4, <2>5 DEF Consecutive
<1>9. Unbroken' /\ Between' /\ Traceless' /\ ValidMeansContinuous' /\ AlarmIsTrue'
  BY <1>3, RecordStays DEF Healthy
<1> QED BY <1>7, <1>8, <1>9 DEF ThreadInv

(* Pages turn, or cannot be had.                                           *)
LEMMA ThreadTurnStep ==
    ASSUME ThreadInv, FetchFails \/ NextPage
    PROVE  ThreadInv'
<1>1. /\ stage # "done" /\ stage' # "done" /\ stage' # "checking" /\ verdict' = verdict
      /\ stage' \in {"fetching", "failed"}
      /\ stage' = "fetching" => page = <<>>
      /\ UNCHANGED <<options, thread, cursor, view, page, more, partial, delivered, gaps, errors,
                     duplicates, missing>>
  BY DEF FetchFails, NextPage
<1>2. ThreadTypeOK'
  BY <1>1 DEF ThreadInv, ThreadTypeOK
<1>3. Consecutive'
  BY <1>1, OrderStays DEF ThreadInv
<1>4. Unbroken' /\ Between' /\ Traceless' /\ ValidMeansContinuous' /\ AlarmIsTrue'
  BY <1>1, RecordStays DEF Healthy
<1> QED BY <1>2, <1>3, <1>4 DEF ThreadInv

(* A new event leaves the ranks of the earlier ones alone.                 *)
LEMMA ThreadGrowStep ==
    ASSUME ThreadInv, NEW wanted \in BOOLEAN, Grow(wanted)
    PROVE  ThreadInv'
<1> DEFINE revision == IF thread = <<>> THEN 0 ELSE Latest(thread).revisionAfter
           added == [revisionBefore |-> revision, revisionAfter |-> revision + 1, sound |-> TRUE,
                     wanted |-> wanted]
<1>1. /\ stage # "done" /\ stage' = stage /\ verdict' = verdict
      /\ thread' = Append(thread, added)
      /\ UNCHANGED <<options, cursor, view, page, more, partial, delivered, gaps, errors, duplicates,
                     missing>>
  BY DEF Grow
<1>2. /\ thread \in Seq(Event) /\ Len(thread) \in Nat /\ InOrder(thread) /\ view \in 0..Len(thread)
  BY DEF ThreadInv, ThreadTypeOK, Consecutive
<1>3. /\ thread # <<>> => Len(thread) \in DOMAIN thread
      /\ \A j \in DOMAIN thread : thread[j].revisionAfter \in Nat
  <2>1. thread # <<>> => Len(thread) \in DOMAIN thread
    BY <1>2
  <2>2. \A j \in DOMAIN thread : thread[j] \in Event
    BY <1>2
  <2> QED BY <2>1, <2>2 DEF Event
<1>4. /\ revision \in Nat
      /\ \A j \in DOMAIN thread : thread[j].revisionAfter <= revision
  <2>1. CASE thread = <<>>
    BY <2>1
  <2>2. CASE thread # <<>>
    <3>1. revision = thread[Len(thread)].revisionAfter
      BY <2>2 DEF Latest
    <3> QED BY <1>2, <1>3, <2>2, <3>1 DEF InOrder
  <2> QED BY <2>1, <2>2
<1> HIDE DEF revision
<1>5. added \in Event
  BY <1>4 DEF Event
<1>6. /\ thread' \in Seq(Event) /\ Len(thread') = Len(thread) + 1
      /\ \A j \in 1..Len(thread) : thread'[j] = thread[j]
      /\ thread'[Len(thread) + 1] = added
  BY <1>1, <1>2, <1>5
<1>7. ThreadTypeOK'
  <2>1. view' \in 0..Len(thread')
    BY <1>1, <1>2, <1>6
  <2> QED BY <1>1, <1>6, <2>1 DEF ThreadInv, ThreadTypeOK
<1>8. \A n \in 0..Len(thread) : Rank(n)' = Rank(n)
  <2> SUFFICES ASSUME NEW n \in 0..Len(thread) PROVE Rank(n)' = Rank(n)
    OBVIOUS
  <2>1. Matching(n)' = Matching(n)
    BY <1>1, <1>2, <1>6 DEF Matching, Matches
  <2> QED BY <2>1 DEF Rank
<1>9. Consecutive'
  <2>1. InOrder(thread)'
    <3> SUFFICES ASSUME NEW i \in DOMAIN thread', NEW j \in DOMAIN thread', i <= j
                 PROVE  thread'[i].revisionAfter <= thread'[j].revisionAfter
      BY DEF InOrder
    <3>1. /\ i \in 1..Len(thread) \/ i = Len(thread) + 1
          /\ j \in 1..Len(thread) \/ j = Len(thread) + 1
      BY <1>2, <1>6
    <3>2. CASE j \in 1..Len(thread)
      BY <1>2, <1>6, <3>1, <3>2 DEF InOrder
    <3>3. CASE i \in 1..Len(thread) /\ j = Len(thread) + 1
      <4>1. thread'[i].revisionAfter <= revision /\ thread'[i].revisionAfter \in Nat
        BY <1>2, <1>3, <1>4, <1>6, <3>3
      <4>2. thread'[j].revisionAfter = revision + 1
        BY <1>6, <3>3
      <4> QED BY <1>4, <4>1, <4>2
    <3>4. CASE i = Len(thread) + 1 /\ j = Len(thread) + 1
      <4>1. thread'[i].revisionAfter = revision + 1
        BY <1>6, <3>4
      <4> QED BY <1>4, <3>4, <4>1
    <3> QED BY <1>2, <3>1, <3>2, <3>3, <3>4
  <2>2. (cursor = options.cursor + Len(delivered) + Len(page))'
    BY <1>1 DEF ThreadInv, Consecutive
  <2>3. (\A i \in DOMAIN delivered : At(options.cursor + i, delivered[i]))'
    <3> SUFFICES ASSUME NEW i \in DOMAIN delivered
                 PROVE  (At(options.cursor + i, delivered[i]))'
      BY <1>1
    <3>1. At(options.cursor + i, delivered[i])
      BY DEF ThreadInv, Consecutive
    <3> HIDE DEF added
    <3>2. PICK j \in DOMAIN thread :
              Matches(thread[j]) /\ Rank(j) = options.cursor + i /\ delivered[i] = thread[j]
      BY <3>1 DEF At
    <3>3. j \in 0..Len(thread) /\ j \in DOMAIN thread' /\ thread'[j] = thread[j]
      BY <1>2, <1>6
    <3>4. Matches(thread[j])' /\ Rank(j)' = options.cursor + i
      BY <1>1, <1>8, <3>2, <3>3 DEF Matches
    <3> QED BY <1>1, <3>2, <3>3, <3>4 DEF At
  <2>4. (\A i \in DOMAIN page : At(options.cursor + Len(delivered) + i, page[i]))'
    <3> SUFFICES ASSUME NEW i \in DOMAIN page
                 PROVE  (At(options.cursor + Len(delivered) + i, page[i]))'
      BY <1>1
    <3>1. At(options.cursor + Len(delivered) + i, page[i])
      BY DEF ThreadInv, Consecutive
    <3> HIDE DEF added
    <3>2. PICK j \in DOMAIN thread :
              /\ Matches(thread[j]) /\ Rank(j) = options.cursor + Len(delivered) + i
              /\ page[i] = thread[j]
      BY <3>1 DEF At
    <3>3. j \in 0..Len(thread) /\ j \in DOMAIN thread' /\ thread'[j] = thread[j]
      BY <1>2, <1>6
    <3>4. Matches(thread[j])' /\ Rank(j)' = options.cursor + Len(delivered) + i
      BY <1>1, <1>8, <3>2, <3>3 DEF Matches
    <3> QED BY <1>1, <3>2, <3>3, <3>4 DEF At
  <2>5. (stage = "checking" /\ ~more => cursor = Rank(view))'
    <3>1. Rank(view)' = Rank(view)
      BY <1>1, <1>2, <1>8 DEF Rank, Matching
    <3> QED BY <1>1, <3>1 DEF ThreadInv, Consecutive
  <2>6. (stage = "fetching" => page = <<>>)'
    BY <1>1 DEF ThreadInv, Consecutive
  <2> QED BY <2>1, <2>2, <2>3, <2>4, <2>5, <2>6 DEF Consecutive
<1>10. Healthy' => Healthy
  <2>1. \A j \in DOMAIN thread : j \in DOMAIN thread' /\ thread'[j] = thread[j]
    BY <1>2, <1>6
  <2> QED BY <2>1 DEF Healthy
<1>11. Unbroken' /\ Between' /\ Traceless' /\ ValidMeansContinuous' /\ AlarmIsTrue'
  BY <1>1, <1>10, RecordStays
<1> QED BY <1>7, <1>9, <1>11 DEF ThreadInv

(* What a turn of the loop finds: the next event of the filtered list, of  *)
(* no lower revision than those before it.                                 *)
LEMMA CheckFacts ==
    ASSUME ThreadInv, NEW absent \in BOOLEAN, Check(absent)
    PROVE  LET n == Len(delivered)
               event == Head(page)
           IN  /\ thread \in Seq(Event) /\ options \in Queries /\ options.cursor \in Nat
               /\ delivered \in Seq(Event) /\ n \in Nat /\ page \in Seq(Event) /\ page # <<>>
               /\ event \in Event
               /\ delivered' = Append(delivered, event)
               /\ delivered' \in Seq(Event) /\ Len(delivered') = n + 1
               /\ \A i \in 1..n : delivered'[i] = delivered[i]
               /\ delivered'[n + 1] = event
               /\ LastRevision' = event.revisionAfter
               /\ delivered # <<>> => n \in DOMAIN delivered /\ LastRevision = delivered[n].revisionAfter
               /\ page' \in Seq(Event) /\ Len(page) = Len(page') + 1 /\ Len(page') \in Nat
               /\ \A i \in 1..Len(page') : page'[i] = page[i + 1]
               /\ At(options.cursor + n + 1, event)
               /\ \A i \in 1..n : At(options.cursor + i, delivered[i])
               /\ \A i \in 1..n : delivered[i].revisionAfter <= event.revisionAfter
               /\ \A i, j \in 1..n : i <= j => delivered[i].revisionAfter <= delivered[j].revisionAfter
<1> DEFINE n == Len(delivered)
           event == Head(page)
<1>1. /\ thread \in Seq(Event) /\ options \in Queries /\ options.cursor \in Nat
      /\ delivered \in Seq(Event) /\ n \in Nat /\ page \in Seq(Event) /\ page # <<>>
  BY OptionsTyped DEF ThreadInv, ThreadTypeOK, Check
<1>2. event \in Event /\ event = page[1] /\ 1 \in DOMAIN page
  BY <1>1
<1>3. delivered' = Append(delivered, event) /\ page' = Tail(page)
  BY DEF Check
<1>4. /\ delivered' \in Seq(Event) /\ Len(delivered') = n + 1
      /\ \A i \in 1..n : delivered'[i] = delivered[i]
      /\ delivered'[n + 1] = event
  BY <1>1, <1>2, <1>3
<1>5. LastRevision' = event.revisionAfter
  <2>1. delivered' # <<>>
    BY <1>1, <1>4
  <2> QED BY <1>4, <2>1 DEF LastRevision, Latest
<1>6. delivered # <<>> => n \in DOMAIN delivered /\ LastRevision = delivered[n].revisionAfter
  BY <1>1 DEF LastRevision, Latest
<1>7. /\ page' \in Seq(Event) /\ Len(page) = Len(page') + 1 /\ Len(page') \in Nat
      /\ \A i \in 1..Len(page') : page'[i] = page[i + 1]
  BY <1>1, <1>3
<1>8. At(options.cursor + n + 1, event)
  BY <1>2 DEF ThreadInv, Consecutive
<1>9. \A i \in 1..n : At(options.cursor + i, delivered[i])
  BY <1>1 DEF ThreadInv, Consecutive
<1>10. InOrder(thread)
  BY DEF ThreadInv, Consecutive
<1> HIDE DEF n, event
<1>11. \A i \in 1..n : delivered[i].revisionAfter <= event.revisionAfter
  <2> SUFFICES ASSUME NEW i \in 1..n PROVE delivered[i].revisionAfter <= event.revisionAfter
    OBVIOUS
  <2>1. /\ options.cursor + i \in Int /\ options.cursor + n + 1 \in Int
        /\ options.cursor + i <= options.cursor + n + 1
    BY <1>1
  <2> QED BY <1>1, <1>8, <1>9, <1>10, <2>1, AtOrdered
<1>12. \A i, j \in 1..n : i <= j => delivered[i].revisionAfter <= delivered[j].revisionAfter
  <2> SUFFICES ASSUME NEW i \in 1..n, NEW j \in 1..n, i <= j
               PROVE  delivered[i].revisionAfter <= delivered[j].revisionAfter
    OBVIOUS
  <2>1. /\ options.cursor + i \in Int /\ options.cursor + j \in Int
        /\ options.cursor + i <= options.cursor + j
    BY <1>1
  <2> QED BY <1>1, <1>9, <1>10, <2>1, AtOrdered
<1> USE DEF n, event
<1> QED BY <1>1, <1>2, <1>3, <1>4, <1>5, <1>6, <1>7, <1>8, <1>9, <1>11, <1>12

(* Events that step by one revision lie in the range of the request.       *)
LEMMA DeliveredInRange ==
    ASSUME ThreadInv, Regularly, NEW i \in DOMAIN delivered
    PROVE  /\ FirstRevision <= delivered[i].revisionAfter
           /\ options.to # NoBound => delivered[i].revisionAfter <= options.to
<1>1. /\ thread \in Seq(Event) /\ delivered \in Seq(Event) /\ options \in Queries
      /\ options.from \in Nat \cup {NoBound} /\ NoBound \notin Int
  BY OptionsTyped DEF ThreadInv, ThreadTypeOK
<1>2. delivered[i].revisionBefore \in Nat /\ delivered[i].revisionAfter = delivered[i].revisionBefore + 1
  <2>1. delivered[i] \in Event
    BY <1>1
  <2> QED BY <2>1 DEF Event, Regularly
<1>3. Matches(delivered[i])
  <2>1. At(options.cursor + i, delivered[i])
    BY DEF ThreadInv, Consecutive
  <2> QED BY <2>1 DEF At
<1>4. FirstRevision <= delivered[i].revisionAfter
  BY <1>1, <1>2, <1>3 DEF Matches, FirstRevision
<1> QED BY <1>3, <1>4 DEF Matches

(* An event is checked against the one before it.                          *)
LEMMA ThreadCheckStep ==
    ASSUME ThreadInv, NEW absent \in BOOLEAN, Check(absent)
    PROVE  ThreadInv'
<1> DEFINE n == Len(delivered)
           event == Head(page)
<1>1. /\ thread \in Seq(Event) /\ options \in Queries /\ options.cursor \in Nat
      /\ delivered \in Seq(Event) /\ n \in Nat /\ page \in Seq(Event) /\ page # <<>>
      /\ event \in Event
      /\ delivered' = Append(delivered, event)
      /\ delivered' \in Seq(Event) /\ Len(delivered') = n + 1
      /\ \A i \in 1..n : delivered'[i] = delivered[i]
      /\ delivered'[n + 1] = event
      /\ LastRevision' = event.revisionAfter
      /\ delivered # <<>> => n \in DOMAIN delivered /\ LastRevision = delivered[n].revisionAfter
      /\ page' \in Seq(Event) /\ Len(page) = Len(page') + 1 /\ Len(page') \in Nat
      /\ \A i \in 1..Len(page') : page'[i] = page[i + 1]
  BY CheckFacts
<1>2. /\ At(options.cursor + n + 1, event)
      /\ \A i \in 1..n : At(options.cursor + i, delivered[i])
      /\ \A i \in 1..n : delivered[i].revisionAfter <= event.revisionAfter
      /\ \A i, j \in 1..n : i <= j => delivered[i].revisionAfter <= delivered[j].revisionAfter
  BY CheckFacts
<1>3. /\ stage = "checking" /\ stage' = stage /\ verdict' = verdict /\ verdict = "none"
      /\ errors' = (\/ errors
                    \/ ~event.sound
                    \/ absent
                    \/ event.revisionAfter # event.revisionBefore + 1
                    \/ delivered # <<>> /\ Latest(delivered).revisionAfter > event.revisionAfter)
      /\ duplicates' = IF \E i \in DOMAIN delivered : delivered[i].revisionAfter = event.revisionAfter
                       THEN duplicates \cup {event.revisionAfter} ELSE duplicates
      /\ gaps' = (gaps \/ event.revisionBefore # ExpectedBefore)
      /\ missing' = missing \cup Skipped(ExpectedBefore, event.revisionBefore)
      /\ UNCHANGED <<options, thread, cursor, view, more, partial>>
  BY DEF ThreadInv, ThreadTypeOK, Check
<1>4. /\ event.revisionBefore \in Nat /\ event.revisionAfter \in Nat
      /\ \A i \in 1..n : delivered[i] \in Event /\ delivered[i].revisionAfter \in Nat
  <2>1. \A i \in 1..n : delivered[i] \in Event
    BY <1>1
  <2> QED BY <1>1, <2>1 DEF Event
<1>5. /\ delivered = <<>> => n = 0 /\ ExpectedBefore = FirstRevision - 1
      /\ delivered # <<>> => n > 0 /\ n \in 1..n /\ ExpectedBefore = delivered[n].revisionAfter
      /\ FirstRevision \in Nat
      /\ ExpectedBefore \in Int
  <2>1. delivered = <<>> => n = 0 /\ ExpectedBefore = FirstRevision - 1
    BY OptionsTyped, <1>1 DEF ExpectedBefore, FirstRevision
  <2>2. delivered # <<>> => n > 0 /\ n \in 1..n /\ ExpectedBefore = delivered[n].revisionAfter
    BY <1>1 DEF ExpectedBefore, Latest
  <2> QED BY <1>1, <1>4, <2>1, <2>2, OptionsTyped
<1>6. FirstRevision' = FirstRevision
  BY <1>3 DEF FirstRevision
<1>7. ThreadTypeOK'
  <2>1. duplicates' \in SUBSET Nat /\ missing' \in SUBSET Nat
    <3>1. Skipped(ExpectedBefore, event.revisionBefore) \in SUBSET Nat
      BY <1>4 DEF Skipped
    <3>2. duplicates \in SUBSET Nat /\ missing \in SUBSET Nat
      BY DEF ThreadInv, ThreadTypeOK
    <3> HIDE DEF event
    <3> QED BY <1>3, <1>4, <3>1, <3>2
  <2>2. gaps' \in BOOLEAN /\ errors' \in BOOLEAN
    BY <1>3
  <2> QED BY <1>1, <1>3, <2>1, <2>2 DEF ThreadInv, ThreadTypeOK
<1> HIDE DEF n, event
<1>n. n \in Nat /\ options.cursor \in Nat /\ Len(page') \in Nat
  BY <1>1
<1>8. Consecutive'
  <2>1. InOrder(thread)'
    BY <1>3 DEF ThreadInv, Consecutive, InOrder
  <2>2. (cursor = options.cursor + Len(delivered) + Len(page))'
    <3>1. cursor = options.cursor + n + Len(page)
      BY DEF ThreadInv, Consecutive, n
    <3>2. options.cursor + n + (Len(page') + 1) = options.cursor + (n + 1) + Len(page')
      BY <1>n
    <3>3. cursor = options.cursor + Len(delivered') + Len(page')
      BY <1>1, <3>1, <3>2
    <3> QED BY <1>3, <3>3
  <2>3. (\A i \in DOMAIN delivered : At(options.cursor + i, delivered[i]))'
    <3> SUFFICES ASSUME NEW i \in DOMAIN delivered'
                 PROVE  (At(options.cursor + i, delivered[i]))'
      OBVIOUS
    <3>1. i \in 1..n \/ i = n + 1
      BY <1>1
    <3>2. At(options.cursor + i, delivered'[i])
      <4>1. CASE i \in 1..n
        BY <1>1, <1>2, <4>1
      <4>2. CASE i = n + 1
        <5>1. options.cursor + i = options.cursor + n + 1
          BY <1>n, <4>2
        <5> QED BY <1>1, <1>2, <4>2, <5>1
      <4> QED BY <3>1, <4>1, <4>2
    <3> QED BY <1>3, <3>2 DEF At, Rank, Matching, Matches
  <2>4. (\A i \in DOMAIN page : At(options.cursor + Len(delivered) + i, page[i]))'
    <3> SUFFICES ASSUME NEW i \in DOMAIN page'
                 PROVE  (At(options.cursor + Len(delivered) + i, page[i]))'
      OBVIOUS
    <3>1. /\ i \in 1..Len(page') /\ i + 1 \in DOMAIN page
          /\ options.cursor + Len(delivered') + i = options.cursor + n + (i + 1)
      <4>1. i \in 1..Len(page') /\ i \in Nat
        BY <1>1
      <4>2. i + 1 \in 1..Len(page)
        BY <1>1, <1>n, <4>1
      <4>3. options.cursor + (n + 1) + i = options.cursor + n + (i + 1)
        BY <1>n, <4>1
      <4> QED BY <1>1, <4>1, <4>2, <4>3
    <3>2. At(options.cursor + n + (i + 1), page[i + 1])
      BY <3>1 DEF ThreadInv, Consecutive, n
    <3>3. At(options.cursor + Len(delivered') + i, page'[i])
      BY <1>1, <3>1, <3>2
    <3> QED BY <1>3, <3>3 DEF At, Rank, Matching, Matches
  <2>5. (stage = "checking" /\ ~more => cursor = Rank(view))'
    <3>1. Rank(view)' = Rank(view)
      BY <1>3 DEF Rank, Matching, Matches
    <3> QED BY <1>3, <3>1 DEF ThreadInv, Consecutive
  <2> QED BY <1>3, <2>1, <2>2, <2>3, <2>4, <2>5 DEF Consecutive
<1>9. Unbroken'
  <2> SUFFICES ASSUME ~gaps', ~errors', NEW i \in DOMAIN delivered'
               PROVE  /\ delivered'[i].sound
                      /\ delivered'[i].revisionBefore = FirstRevision + i - 2
                      /\ delivered'[i].revisionAfter = FirstRevision + i - 1
    BY <1>6 DEF Unbroken
  <2>1. /\ ~gaps /\ ~errors /\ event.sound
        /\ event.revisionAfter = event.revisionBefore + 1
        /\ event.revisionBefore = ExpectedBefore
    BY <1>3
  <2>2. \A k \in 1..n :
            /\ delivered[k].sound
            /\ delivered[k].revisionBefore = FirstRevision + k - 2
            /\ delivered[k].revisionAfter = FirstRevision + k - 1
    <3>1. DOMAIN delivered = 1..n
      BY <1>1 DEF n
    <3> QED BY <2>1, <3>1 DEF ThreadInv, Unbroken
  <2>3. ExpectedBefore = FirstRevision + n - 1
    <3>1. CASE delivered = <<>>
      BY <1>5, <3>1
    <3>2. CASE delivered # <<>>
      BY <1>5, <2>2, <3>2
    <3> QED BY <3>1, <3>2
  <2>4. i \in 1..n \/ i = n + 1
    BY <1>1
  <2>5. CASE i \in 1..n
    BY <1>1, <2>2, <2>5
  <2>6. CASE i = n + 1
    BY <1>1, <1>5, <2>1, <2>3, <2>6
  <2> QED BY <2>4, <2>5, <2>6
<1>10. Between'
  <2> SUFFICES ASSUME Regularly'
               PROVE  /\ missing' \cap Revisions' = {}
                      /\ \A r \in missing' :
                            delivered' # <<>> /\ FirstRevision <= r /\ r < LastRevision'
                      /\ FirstRevision..LastRevision' \subseteq missing' \cup Revisions'
    BY <1>6 DEF Between
  <2>1. Regularly /\ event.revisionAfter = event.revisionBefore + 1
    <3>1. \A i \in 1..n : i \in DOMAIN delivered' /\ delivered'[i] = delivered[i]
      BY <1>1, <1>n
    <3>2. n + 1 \in DOMAIN delivered' /\ delivered'[n + 1] = event
      BY <1>1, <1>n
    <3>3. DOMAIN delivered = 1..n
      BY <1>1 DEF n
    <3> QED BY <3>1, <3>2, <3>3 DEF Regularly
  <2>2. /\ missing \cap Revisions = {}
        /\ \A r \in missing : delivered # <<>> /\ FirstRevision <= r /\ r < LastRevision
        /\ delivered # <<>> => FirstRevision..LastRevision \subseteq missing \cup Revisions
    BY <1>3, <2>1 DEF ThreadInv, Between
  <2>3. /\ Revisions = {delivered[i].revisionAfter : i \in 1..n}
        /\ Revisions' = Revisions \cup {event.revisionAfter}
    <3>1. DOMAIN delivered = 1..n /\ DOMAIN delivered' = 1..(n + 1)
      BY <1>1 DEF n
    <3>2. 1..(n + 1) = 1..n \cup {n + 1}
      BY <1>n
    <3>3. Revisions' = {delivered'[i].revisionAfter : i \in 1..n \cup {n + 1}}
      BY <3>1, <3>2 DEF Revisions
    <3>4. Revisions = {delivered[i].revisionAfter : i \in 1..n}
      BY <3>1 DEF Revisions
    <3>5. {delivered'[i].revisionAfter : i \in 1..n \cup {n + 1}}
            = {delivered[i].revisionAfter : i \in 1..n} \cup {event.revisionAfter}
      BY <1>1
    <3> QED BY <3>3, <3>4, <3>5
  <2>4. delivered # <<>> =>
          /\ LastRevision = ExpectedBefore /\ LastRevision <= event.revisionAfter
          /\ \A r \in Revisions : r <= LastRevision
    <3>1. delivered # <<>> => n \in 1..n /\ LastRevision = delivered[n].revisionAfter
                              /\ ExpectedBefore = delivered[n].revisionAfter
      BY <1>1, <1>5
    <3>2. \A i \in 1..n : n \in 1..n => delivered[i].revisionAfter <= delivered[n].revisionAfter
      BY <1>2, <1>n
    <3>3. \A r \in Revisions : \E i \in 1..n : r = delivered[i].revisionAfter
      BY <2>3
    <3>4. delivered # <<>> => LastRevision <= event.revisionAfter
      BY <1>2, <3>1
    <3> QED BY <3>1, <3>2, <3>3, <3>4
  <2>5. delivered = <<>> => Revisions = {}
    BY <1>5, <2>3
  <2>6. missing \in SUBSET Nat /\ Revisions \in SUBSET Nat /\ LastRevision \in Nat
    <3>1. Revisions \in SUBSET Nat
      BY <1>4, <2>3
    <3>2. LastRevision \in Nat
      BY <1>1, <1>4, <1>5 DEF LastRevision
    <3> QED BY <3>1, <3>2 DEF ThreadInv, ThreadTypeOK
  <2>7. \A r \in Skipped(ExpectedBefore, event.revisionBefore) :
            r \in Nat /\ FirstRevision <= r /\ ExpectedBefore < r /\ r < event.revisionAfter
    <3>1. FirstRevision - 1 <= ExpectedBefore
      <4>1. ASSUME delivered # <<>> PROVE FirstRevision <= delivered[n].revisionAfter
        <5>1. n \in DOMAIN delivered
          BY <1>5, <4>1 DEF n
        <5> QED BY <2>1, <5>1, DeliveredInRange
      <4>2. delivered # <<>> => delivered[n].revisionAfter \in Nat
        BY <1>4, <1>5
      <4> QED BY <1>5, <4>1, <4>2
    <3> QED BY <1>4, <1>5, <2>1, <3>1 DEF Skipped
  <2>8. missing' \cap Revisions' = {}
    <3> SUFFICES ASSUME NEW r \in missing', r \in Revisions' PROVE FALSE
      OBVIOUS
    <3>1. CASE r \in missing
      BY <1>4, <2>2, <2>3, <2>4, <2>6, <3>1
    <3>2. CASE r \in Skipped(ExpectedBefore, event.revisionBefore)
      BY <1>4, <1>5, <2>3, <2>4, <2>5, <2>6, <2>7, <3>2
    <3> QED BY <1>3, <3>1, <3>2
  <2>9. \A r \in missing' : delivered' # <<>> /\ FirstRevision <= r /\ r < LastRevision'
    <3> SUFFICES ASSUME NEW r \in missing' PROVE FirstRevision <= r /\ r < event.revisionAfter
      BY <1>1
    <3>1. CASE r \in missing
      BY <1>4, <2>2, <2>4, <2>6, <3>1
    <3>2. CASE r \in Skipped(ExpectedBefore, event.revisionBefore)
      BY <2>7, <3>2
    <3> QED BY <1>3, <3>1, <3>2
  <2>10. FirstRevision..LastRevision' \subseteq missing' \cup Revisions'
    <3> SUFFICES ASSUME NEW r \in FirstRevision..event.revisionAfter
                 PROVE  r \in missing' \cup Revisions'
      BY <1>1
    <3>1. CASE r = event.revisionAfter
      BY <2>3, <3>1
    <3>2. CASE r # event.revisionAfter /\ ExpectedBefore < r
      <4>1. r \in 0..event.revisionBefore
        BY <1>4, <1>5, <2>1, <3>2
      <4> QED BY <1>3, <3>2, <4>1 DEF Skipped
    <3>3. CASE ~(ExpectedBefore < r)
      <4>1. delivered # <<>> /\ r \in FirstRevision..LastRevision
        BY <1>4, <1>5, <2>4, <2>6, <3>3
      <4> QED BY <1>3, <2>2, <2>3, <4>1
    <3> QED BY <3>1, <3>2, <3>3
  <2> QED BY <2>8, <2>9, <2>10
<1>11. Traceless'
  <2> SUFFICES ASSUME Askable, Healthy, options.cursor = 0
               PROVE  ~gaps' /\ duplicates' = {} /\ missing' = {}
    BY <1>3 DEF Traceless, Askable, Healthy
  <2>1. ~gaps /\ duplicates = {} /\ missing = {}
    BY <1>3 DEF ThreadInv, Traceless
  <2>2. /\ event.revisionAfter = FirstRevision + n
        /\ event.revisionBefore = FirstRevision + n - 1
    <3>1. At(n + 1, event) /\ n + 1 \in Int
      BY <1>1, <1>2
    <3> QED BY <1>1, <1>5, <3>1, HealthyAt
  <2>3. \A i \in 1..n : delivered[i].revisionAfter = FirstRevision + i - 1
    <3> SUFFICES ASSUME NEW i \in 1..n PROVE delivered[i].revisionAfter = FirstRevision + i - 1
      OBVIOUS
    <3>1. At(i, delivered[i]) /\ i \in Int
      BY <1>1, <1>2
    <3> QED BY <1>1, <3>1, HealthyAt
  <2>4. ExpectedBefore = event.revisionBefore
    BY <1>1, <1>5, <2>2, <2>3
  <2>5. \A i \in 1..n : delivered[i].revisionAfter # event.revisionAfter
    BY <1>1, <1>5, <2>2, <2>3
  <2>6. Skipped(ExpectedBefore, event.revisionBefore) = {}
    BY <1>4, <2>4 DEF Skipped
  <2>7. DOMAIN delivered = 1..n
    BY <1>1 DEF n
  <2> QED BY <1>3, <2>1, <2>4, <2>5, <2>6, <2>7
<1>12. ValidMeansContinuous' /\ AlarmIsTrue'
  BY <1>3 DEF ValidMeansContinuous, AlarmIsTrue
<1> QED BY <1>7, <1>8, <1>9, <1>10, <1>11, <1>12 DEF ThreadInv

(* The verdict: what was recorded is all there is to say of the events     *)
(* that were checked, and the rest of the request lies beyond them.        *)
LEMMA ThreadFinishStep ==
    ASSUME ThreadInv, FinishThread
    PROVE  ThreadInv'
<1> DEFINE absent == IF partial THEN missing ELSE missing \cup Beyond
           n == Len(delivered)
<1>1. /\ stage = "checking" /\ stage' = "done" /\ page = <<>>
      /\ partial \/ ~more
      /\ missing' = absent
      /\ verdict' = IF partial THEN "null"
                    ELSE IF errors \/ gaps \/ duplicates # {} \/ absent # {} THEN "false" ELSE "true"
      /\ UNCHANGED <<options, thread, cursor, view, page, more, partial, delivered, gaps, errors,
                     duplicates>>
  BY DEF FinishThread
<1>2. /\ options \in Queries /\ thread \in Seq(Event) /\ delivered \in Seq(Event) /\ n \in Nat
      /\ missing \in SUBSET Nat /\ view \in 0..Len(thread) /\ DOMAIN delivered = 1..n
      /\ partial \in BOOLEAN /\ gaps \in BOOLEAN /\ errors \in BOOLEAN
  BY DEF ThreadInv, ThreadTypeOK
<1>3. /\ options.cursor \in Nat /\ FirstRevision \in Nat
      /\ options.from \in Nat \cup {NoBound} /\ options.to \in Nat \cup {NoBound}
      /\ NoBound \notin Int
  BY <1>2, OptionsTyped
<1>4. \A i \in 1..n : delivered[i].revisionAfter \in Nat
  <2>1. \A i \in 1..n : delivered[i] \in Event
    BY <1>2
  <2> QED BY <2>1 DEF Event
<1>5. /\ delivered = <<>> <=> n = 0
      /\ delivered = <<>> => LastRevision = 0
      /\ delivered # <<>> => n \in 1..n /\ LastRevision = delivered[n].revisionAfter
      /\ LastRevision \in Nat
  <2>1. delivered = <<>> <=> n = 0
    BY <1>2
  <2>2. delivered # <<>> => n \in 1..n /\ LastRevision = delivered[n].revisionAfter
    BY <1>2, <2>1 DEF LastRevision, Latest
  <2> QED BY <1>4, <2>1, <2>2 DEF LastRevision
<1>6. /\ options.to # NoBound => Beyond = {r \in 0..options.to : LastRevision < r}
      /\ options.to = NoBound => Beyond = {}
  BY DEF Beyond, Skipped
<1> HIDE DEF n
<1>7. /\ FirstRevision' = FirstRevision /\ Revisions' = Revisions
      /\ Regularly' = Regularly /\ Healthy' = Healthy /\ Askable' = Askable
  BY <1>1 DEF FirstRevision, Revisions, Regularly, Healthy, Askable
<1>8. ThreadTypeOK'
  <2>1. missing' \in SUBSET Nat
    <3>1. Beyond \in SUBSET Nat
      <4>1. CASE options.to = NoBound
        BY <1>6, <4>1
      <4>2. CASE options.to # NoBound
        BY <1>3, <1>6, <4>2
      <4> QED BY <4>1, <4>2
    <3> QED BY <1>1, <1>2, <3>1
  <2>2. verdict' \in {"true", "false", "null"}
    BY <1>1
  <2> HIDE DEF absent
  <2> QED BY <1>1, <2>1, <2>2 DEF ThreadInv, ThreadTypeOK
<1>9. Consecutive'
  BY <1>1, OrderStays DEF ThreadInv
<1>10. Unbroken'
  BY <1>1, <1>7 DEF ThreadInv, Unbroken
<1>11. Between' /\ Traceless'
  BY <1>1 DEF Between, Traceless
<1>12. ValidMeansContinuous'
  <2> SUFFICES ASSUME verdict' = "true" PROVE Continuous(delivered)
    BY <1>1 DEF ValidMeansContinuous, Continuous, FirstRevision
  <2>1. ~partial /\ ~errors /\ ~gaps /\ Beyond = {}
    BY <1>1
  <2>2. \A i \in 1..n :
            /\ delivered[i].sound
            /\ delivered[i].revisionBefore = FirstRevision + i - 2
            /\ delivered[i].revisionAfter = FirstRevision + i - 1
    BY <1>2, <2>1 DEF ThreadInv, Unbroken
  <2>3. ASSUME options.to # NoBound, options.to # 0
        PROVE  FirstRevision + n > options.to
    <3>1. options.to \in Nat /\ options.to <= LastRevision
      BY <1>3, <1>5, <1>6, <2>1, <2>3
    <3>2. n > 0 /\ n \in Nat /\ LastRevision = FirstRevision + n - 1
      BY <1>2, <1>5, <2>2, <2>3, <3>1
    <3> QED BY <1>3, <3>1, <3>2
  <2> QED BY <1>2, <2>2, <2>3 DEF Continuous, n
<1>13. AlarmIsTrue'
  <2> DEFINE last == IF options.to # NoBound THEN options.to ELSE LastRevision
  <2>0. AskedFor = FirstRevision..last /\ last \in Nat
    BY <1>3, <1>5 DEF AskedFor
  <2>1. ASSUME Askable, verdict' \in {"true", "false"}, Regularly
        PROVE  /\ AskedFor \ Revisions \subseteq missing'
               /\ delivered # <<>> \/ FirstRevision = 1 =>
                    /\ missing' \subseteq AskedFor \ Revisions
                    /\ options.cursor = 0 => missing' \cap Present = {}
    <3>1. missing' = missing \cup Beyond /\ ~partial /\ ~more
      BY <1>1, <2>1
    <3>2. /\ missing \cap Revisions = {}
          /\ \A r \in missing : delivered # <<>> /\ FirstRevision <= r /\ r < LastRevision
          /\ delivered # <<>> => FirstRevision..LastRevision \subseteq missing \cup Revisions
      BY <1>1, <2>1 DEF ThreadInv, Between
    <3>3. \A r \in Revisions : r \in Nat /\ r <= LastRevision
      <4> SUFFICES ASSUME NEW i \in 1..n
                   PROVE  delivered[i].revisionAfter <= LastRevision
        BY <1>2, <1>4 DEF Revisions
      <4>1. /\ At(options.cursor + i, delivered[i])
            /\ At(options.cursor + n, delivered[n])
        BY <1>2, <1>5 DEF ThreadInv, Consecutive
      <4>2. /\ options.cursor + i \in Int /\ options.cursor + n \in Int
            /\ options.cursor + i <= options.cursor + n /\ n > 0
        BY <1>2, <1>3
      <4>3. InOrder(thread)
        BY DEF ThreadInv, Consecutive
      <4>4. delivered[i].revisionAfter <= delivered[n].revisionAfter
        BY <1>2, <4>1, <4>2, <4>3, AtOrdered
      <4> QED BY <1>5, <4>2, <4>4
    <3>4. /\ FirstRevision > 0
          /\ LastRevision <= last
          /\ delivered # <<>> => FirstRevision <= LastRevision
      <4>1. FirstRevision > 0
        BY <1>3, <2>1 DEF FirstRevision, Askable
      <4>2. ASSUME delivered # <<>>
            PROVE  FirstRevision <= LastRevision /\ (options.to # NoBound => LastRevision <= options.to)
        <5>1. n \in DOMAIN delivered /\ LastRevision = delivered[n].revisionAfter
          BY <1>2, <1>5, <4>2
        <5> QED BY <2>1, <5>1, DeliveredInRange
      <4> QED BY <1>3, <1>5, <4>1, <4>2
    <3>5. /\ Beyond = {r \in 0..last : LastRevision < r}
          /\ missing \in SUBSET Nat
      <4>1. ASSUME options.to # NoBound PROVE Beyond = {r \in 0..last : LastRevision < r}
        <5>1. last = options.to /\ Beyond = {r \in 0..options.to : LastRevision < r}
          BY <1>6, <4>1
        <5> HIDE DEF last
        <5> QED BY <5>1
      <4>2. ASSUME options.to = NoBound PROVE Beyond = {r \in 0..last : LastRevision < r}
        <5>1. last = LastRevision /\ Beyond = {}
          BY <1>6, <4>2
        <5> HIDE DEF last
        <5>2. \A r \in 0..last : ~(LastRevision < r)
          BY <1>5, <5>1
        <5> QED BY <5>1, <5>2
      <4> QED BY <1>2, <4>1, <4>2
    <3> HIDE DEF last
    <3>6. \A r \in AskedFor : r \in missing' \/ r \in Revisions
      <4> SUFFICES ASSUME NEW r \in FirstRevision..last PROVE r \in missing' \cup Revisions
        BY <2>0
      <4>1. r \in 0..last /\ r > 0
        BY <1>3, <2>0, <3>4
      <4>2. CASE LastRevision < r
        BY <3>1, <3>5, <4>1, <4>2
      <4>3. CASE ~(LastRevision < r)
        <5>1. delivered # <<>> /\ r \in FirstRevision..LastRevision
          BY <1>3, <1>5, <2>0, <4>1, <4>3
        <5> QED BY <3>1, <3>2, <5>1
      <4> QED BY <4>2, <4>3
    <3>7. ASSUME delivered # <<>> \/ FirstRevision = 1, NEW r \in missing'
          PROVE  r \in AskedFor /\ r \notin Revisions
      <4>1. CASE r \in missing
        <5>1. r \in Nat /\ FirstRevision <= r /\ r < LastRevision
          BY <3>2, <3>5, <4>1
        <5>2. r \in FirstRevision..last
          BY <1>3, <1>5, <2>0, <3>4, <5>1
        <5> QED BY <2>0, <3>2, <4>1, <5>2
      <4>2. CASE r \in Beyond
        <5>1. r \in 0..last /\ LastRevision < r
          BY <3>5, <4>2
        <5>2. FirstRevision <= r
          <6>1. CASE delivered # <<>>
            BY <1>3, <1>5, <3>4, <5>1, <6>1
          <6>2. CASE FirstRevision = 1
            BY <1>5, <5>1, <6>2
          <6> QED BY <3>7, <6>1, <6>2
        <5>3. r \in FirstRevision..last
          BY <1>3, <2>0, <5>1, <5>2
        <5>4. r \notin Revisions
          BY <1>5, <3>3, <5>1
        <5> QED BY <2>0, <5>3, <5>4
      <4> QED BY <3>1, <4>1, <4>2
    <3>8. ASSUME options.cursor = 0, NEW i \in Matching(view)
          PROVE  thread[i].revisionAfter \in Revisions
      <4>1. n = Rank(view)
        <5>1. cursor = Rank(view) /\ cursor = options.cursor + n + Len(page)
          BY <1>1, <3>1 DEF ThreadInv, Consecutive, n
        <5> QED BY <1>1, <1>2, <3>8, <5>1
      <4>2. i \in 1..view /\ Matches(thread[i]) /\ i \in Nat /\ view \in Nat /\ i > 0
        BY <1>2 DEF Matching
      <4>3. Rank(i) \in 1..n
        <5>1. i - 1 \in Nat /\ Rank(i - 1) \in Nat /\ Rank(i) \in Nat /\ Rank(view) \in Nat
          BY <4>2, RankTyped
        <5>2. Rank(i) = Rank(i - 1) + 1
          BY <4>2, RankStep
        <5>3. Rank(i) <= Rank(view)
          BY <4>2, RankGrows
        <5> QED BY <4>1, <5>1, <5>2, <5>3
      <4>4. At(Rank(i), delivered[Rank(i)])
        BY <1>2, <3>8, <4>3 DEF ThreadInv, Consecutive
      <4>5. PICK j \in DOMAIN thread :
                Matches(thread[j]) /\ Rank(j) = Rank(i) /\ delivered[Rank(i)] = thread[j]
        BY <4>4 DEF At
      <4>6. j = i
        <5>1. j \in Nat /\ Rank(i) \in Nat
          BY <1>2, <4>3
        <5>2. ~(i < j) /\ ~(j < i)
          BY <4>2, <4>5, <5>1, RankGrows
        <5> QED BY <4>2, <5>1, <5>2
      <4> QED BY <1>2, <4>3, <4>5, <4>6 DEF Revisions
    <3>9. options.cursor = 0 => Present \subseteq Revisions
      BY <3>8 DEF Present
    <3> QED BY <3>6, <3>7, <3>9
  <2>2. ASSUME Askable, verdict' = "false", Healthy, options.cursor = 0, ~errors
        PROVE  options.to # NoBound /\ view < options.to
    <3>1. ~gaps /\ duplicates = {} /\ missing = {}
      BY <1>1, <2>2 DEF ThreadInv, Traceless
    <3>2. ~partial /\ ~more /\ Beyond # {}
      BY <1>1, <2>2, <3>1
    <3>3. options.to # NoBound /\ options.to \in Nat /\ LastRevision < options.to
      BY <1>3, <1>5, <1>6, <3>2
    <3>4. n = Rank(view)
      <4>1. cursor = Rank(view) /\ cursor = options.cursor + n + Len(page)
        BY <1>1, <3>2 DEF ThreadInv, Consecutive, n
      <4> QED BY <1>1, <1>2, <2>2, <4>1
    <3>5. ASSUME ~(view < options.to)
          PROVE  FALSE
      <4>1. options.to \in 0..Len(thread) /\ view \in Nat /\ options.to <= view
        BY <1>2, <3>3, <3>5
      <4>2. /\ FirstRevision \in Nat \ {0}
            /\ Rank(options.to) = IF FirstRevision > options.to THEN 0
                                  ELSE options.to - FirstRevision + 1
        BY <1>2, <2>2, <4>1, HealthyRank
      <4>3. FirstRevision <= options.to
        BY <1>3, <1>5, <2>2, <3>3 DEF FirstRevision, Askable
      <4>4. n >= options.to - FirstRevision + 1
        <5>1. Rank(options.to) <= Rank(view)
          BY <4>1, RankGrows
        <5> QED BY <1>2, <1>3, <3>3, <3>4, <4>2, <4>3, <5>1
      <4>5. n > 0 /\ n \in 1..n
        BY <1>2, <1>3, <3>3, <4>3, <4>4
      <4>6. At(n, delivered[n])
        BY <1>2, <2>2, <4>5 DEF ThreadInv, Consecutive
      <4>7. delivered[n].revisionAfter = FirstRevision + n - 1
        BY <1>2, <2>2, <4>6, HealthyAt
      <4> QED BY <1>2, <1>3, <1>5, <3>3, <4>4, <4>5, <4>7
    <3> QED BY <3>3, <3>5
  <2> HIDE DEF absent
  <2>3. /\ AskedFor' = AskedFor /\ Present' = Present /\ options' = options /\ view' = view
        /\ errors' = errors /\ delivered' = delivered
    BY <1>1, <1>7 DEF AskedFor, Present, LastRevision, Latest, Matching, Matches
  <2> QED BY <1>7, <2>1, <2>2, <2>3 DEF AlarmIsTrue, Regularly
<1> QED BY <1>8, <1>9, <1>10, <1>11, <1>12, <1>13 DEF ThreadInv

LEMMA ThreadStep == ThreadInv /\ [ThreadNext]_threadVars => ThreadInv'
<1> SUFFICES ASSUME ThreadInv, [ThreadNext]_threadVars PROVE ThreadInv'
  OBVIOUS
<1>1. ASSUME NEW n \in 0..Len(thread), NEW enumerated \in BOOLEAN, FetchPage(n, enumerated)
      PROVE  ThreadInv'
  BY <1>1, ThreadFetchStep
<1>2. CASE FetchFails \/ NextPage
  BY <1>2, ThreadTurnStep
<1>3. ASSUME NEW absent \in BOOLEAN, Check(absent)
      PROVE  ThreadInv'
  BY <1>3, ThreadCheckStep
<1>4. CASE FinishThread
  BY <1>4, ThreadFinishStep
<1>5. ASSUME NEW wanted \in BOOLEAN, Grow(wanted)
      PROVE  ThreadInv'
  BY <1>5, ThreadGrowStep
<1>6. CASE UNCHANGED threadVars
  <2>1. UNCHANGED <<options, thread, cursor, view, page, more, partial, delivered, gaps, errors,
                    duplicates, missing, stage, verdict>>
    BY <1>6 DEF threadVars
  <2>2. ThreadTypeOK'
    BY <2>1 DEF ThreadInv, ThreadTypeOK
  <2>3. Consecutive'
    <3>1. Consecutive /\ (stage = "fetching" => page = <<>>)
      BY DEF ThreadInv, Consecutive
    <3> QED BY <2>1, <3>1, OrderStays
  <2>4. Unbroken' /\ Between' /\ Traceless'
    BY <2>1 DEF ThreadInv, Unbroken, Between, Traceless, FirstRevision, Regularly, Revisions,
                LastRevision, Latest, Askable, Healthy
  <2>5. ValidMeansContinuous' /\ AlarmIsTrue'
    BY <2>1 DEF ThreadInv, ValidMeansContinuous, Continuous, AlarmIsTrue, FirstRevision, Askable,
                Healthy, AskedFor, Revisions, Present, LastRevision, Latest, Matching, Matches
  <2> QED BY <2>2, <2>3, <2>4, <2>5 DEF ThreadInv
<1> QED BY <1>1, <1>2, <1>3, <1>4, <1>5, <1>6 DEF ThreadNext

LEMMA ThreadInvariant == ThreadSpec => []ThreadInv
<1> QED BY ThreadStart, ThreadStep, PTL DEF ThreadSpec

(* The verdict of verifyDigitalThread, whatever ages the cached lists have *)
(* that its pages are cut from: only a continuous thread is called valid.  *)
THEOREM ValidThread == ThreadSpec => []ValidMeansContinuous
<1>1. ThreadInv => ValidMeansContinuous
  BY DEF ThreadInv
<1> QED BY <1>1, ThreadInvariant, PTL

(* missingRevisions of an askable request names every revision of its      *)
(* range that was not delivered and none outside the range, none that was  *)
(* delivered and none of the last list, unless an empty range begins       *)
(* behind revision 1; and a healthy thread of which every event is wanted  *)
(* is not called invalid without an error or a list that ends before the   *)
(* request.                                                                *)
THEOREM TrueAlarm == ThreadSpec => []AlarmIsTrue
<1>1. ThreadInv => AlarmIsTrue
  BY DEF ThreadInv
<1> QED BY <1>1, ThreadInvariant, PTL

===============================================================================
