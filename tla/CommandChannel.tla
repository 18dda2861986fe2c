----------------------------- MODULE CommandChannel -----------------------------
(***************************************************************************)
(* CommandService and CommandStore with the device that executes commands  *)
(* (the simulator) and the MQTT channels between them.  create persists    *)
(* the command, publishes it and persists it again as dispatched; results  *)
(* arrive on a subscription while create may still wait for its PUBACK;    *)
(* get marks an overdue command expired.  The store is a map in memory and *)
(* one file, written by a promise chain: each link serialises the map and  *)
(* renames a temporary file over the target.                               *)
(***************************************************************************)
EXTENDS Naturals, Sequences

CONSTANTS
    Requests,          \* calls of create
    Commands,          \* command identifiers clients may choose
    Remembered,        \* results the device keeps: 1000 in the code
    MaxFailures,       \* bound on server crashes and device restarts together
    MaxInFlight,       \* bound on results under way
    MaxCopies          \* bound on copies of a message that QoS 1 delivers

Nobody == "nobody"     \* a waiter of the write chain that does nothing afterwards

ASSUME CommandAssumption ==
    /\ Nobody \notin Requests
    /\ Remembered \in Nat \ {0}
    /\ MaxFailures \in Nat
    /\ MaxInFlight \in Nat \ {0}
    /\ MaxCopies \in Nat \ {0}

VARIABLES
    pc,                \* where each call of create is
    cid,               \* the command identifier it carries
    copies,            \* how often the command was published before its PUBACK
    mem,               \* CommandStore.records: the status of each command
    chain,             \* CommandStore.writeChain: who awaits the next writes
    phase,             \* the first link has not started or has serialised
    tmp,               \* what it serialised
    broken,            \* a link has rejected: every later one rejects
    disk,              \* the store file
    clock,             \* live, up to 30 s overdue, or later
    requests,          \* copies of the command on their way to the device
    results,           \* results on their way to the server
    dev,               \* what the device is doing
    kept,              \* processedCommands, oldest first
    executed,          \* how often the device executed the command
    crashes,
    restarts,
    overtaken          \* history: commands delivered or expired before the PUBACK

store == <<mem, chain, phase, tmp, broken, disk>>
device == <<dev, kept, executed, restarts>>
world == <<crashes, overtaken>>
vars == <<pc, cid, copies, store, clock, requests, results, device, world>>

Final == {"succeeded", "failed", "rejected", "expired", "cancelled"}
Status == {"authorized", "dispatched", "accepted", "executing"} \cup Final

Absent == "absent"
NoRecords == [c \in Commands |-> Absent]
Idle == [at |-> "idle"]
Waiting == {"authorizing", "finishing"}
Active == Waiting \cup {"dispatching", "awaiting"}

Init ==
    /\ pc = [r \in Requests |-> "new"]
    /\ cid \in [Requests -> Commands]
    /\ copies = [r \in Requests |-> 0]
    /\ mem = NoRecords
    /\ chain = <<>>
    /\ phase = "idle"
    /\ tmp = NoRecords
    /\ broken = FALSE
    /\ disk = NoRecords
    /\ clock = [c \in Commands |-> "live"]
    /\ requests = [c \in Commands |-> 0]
    /\ results = <<>>
    /\ dev = Idle
    /\ kept = <<>>
    /\ executed = [c \in Commands |-> 0]
    /\ crashes = 0
    /\ restarts = 0
    /\ overtaken = {}

(* Faulty variants (names ending in Fault) change one definition the way a *)
(* plausible bug would; no specification uses them.                        *)
-------------------------------------------------------------------------------
(* CommandStore.put: the map changes at once, the file when the chain gets *)
(* there, and never again once a link has rejected.                        *)
Put(c, status, waiter) ==
    /\ mem' = [mem EXCEPT ![c] = status]
    /\ chain' = IF broken THEN chain ELSE Append(chain, waiter)
    /\ UNCHANGED <<phase, tmp, broken, disk>>

Await(r, at) == pc' = [pc EXCEPT ![r] = IF broken THEN "failed" ELSE at]

(* create up to its first put.  The check of the identifier and the put    *)
(* run without I/O in between.                                             *)
Create(r) ==
    /\ pc[r] = "new"
    /\ mem[cid[r]] = Absent
    /\ Put(cid[r], "authorized", r)
    /\ Await(r, "authorizing")
    /\ clock' = [clock EXCEPT ![cid[r]] = "live"]
    /\ UNCHANGED <<cid, copies, requests, results, device, world>>

(* create refuses: an identifier in use, and every check before it. *)
CreateRefused(r) ==
    /\ pc[r] = "new"
    /\ pc' = [pc EXCEPT ![r] = "refused"]
    /\ UNCHANGED <<cid, copies, store, clock, requests, results, device, world>>

(* mqtt.write hands the signed command to the broker. *)
Dispatch(r) ==
    /\ pc[r] = "dispatching"
    /\ copies' = [copies EXCEPT ![r] = 1]
    /\ requests' = [requests EXCEPT ![cid[r]] = @ + 1]
    /\ pc' = [pc EXCEPT ![r] = "awaiting"]
    /\ UNCHANGED <<cid, store, clock, results, device, world>>

(* QoS 1: after a reconnect the unacknowledged command is published again. *)
Resend(r) ==
    /\ pc[r] = "awaiting"
    /\ copies[r] < MaxCopies
    /\ copies' = [copies EXCEPT ![r] = @ + 1]
    /\ requests' = [requests EXCEPT ![cid[r]] = @ + 1]
    /\ UNCHANGED <<pc, cid, store, clock, results, device, world>>

(* Signing or mqtt.write throws; the command may or may not be under way.  *)
DispatchFails(r) ==
    /\ pc[r] \in {"dispatching", "awaiting"}
    /\ pc' = [pc EXCEPT ![r] = "failed"]
    /\ copies' = [copies EXCEPT ![r] = 0]
    /\ UNCHANGED <<cid, store, clock, requests, results, device, world>>

(* The PUBACK arrives: the record create holds is put as dispatched. *)
Acked(r) ==
    /\ pc[r] = "awaiting"
    /\ Put(cid[r], "dispatched", r)
    /\ Await(r, "finishing")
    /\ copies' = [copies EXCEPT ![r] = 0]
    /\ UNCHANGED <<cid, clock, requests, results, device, world>>

-------------------------------------------------------------------------------
(* CommandStore.persist: one link of the chain at a time. *)
Serialise ==
    /\ chain # <<>>
    /\ phase = "idle"
    /\ tmp' = mem
    /\ phase' = "serialised"
    /\ UNCHANGED <<pc, cid, copies, mem, chain, broken, disk, clock, requests, results, device, world>>

RenameFault ==
    /\ chain # <<>>
    /\ disk' = IF phase = "serialised" THEN tmp ELSE disk
    /\ phase' = "idle"
    /\ chain' = Tail(chain)
    /\ pc' = [r \in Requests |->
          IF r # Head(chain) THEN pc[r]
          ELSE IF pc[r] = "authorizing" THEN "dispatching" ELSE "answered"]
    /\ tmp' = NoRecords
    /\ UNCHANGED <<cid, copies, mem, broken, clock, requests, results, device, world>>

Rename ==
    /\ phase = "serialised"
    /\ disk' = tmp
    /\ phase' = "idle"
    /\ chain' = Tail(chain)
    /\ pc' = [r \in Requests |->
          IF r # Head(chain) THEN pc[r]
          ELSE IF pc[r] = "authorizing" THEN "dispatching" ELSE "answered"]
    /\ tmp' = NoRecords
    /\ UNCHANGED <<cid, copies, mem, broken, clock, requests, results, device, world>>

(* mkdir, writeFile or rename rejects: so does everything chained to it. *)
WriteFails ==
    /\ chain # <<>>
    /\ broken' = TRUE
    /\ chain' = <<>>
    /\ phase' = "idle"
    /\ tmp' = NoRecords
    /\ pc' = [r \in Requests |-> IF pc[r] \in Waiting THEN "failed" ELSE pc[r]]
    /\ UNCHANGED <<cid, copies, mem, disk, clock, requests, results, device, world>>

(* The server dies and starts again from the store file. *)
Crash ==
    /\ crashes + restarts < MaxFailures
    /\ crashes' = crashes + 1
    /\ pc' = [r \in Requests |-> IF pc[r] \in Active THEN "lost" ELSE pc[r]]
    /\ mem' = disk
    /\ chain' = <<>>
    /\ phase' = "idle"
    /\ tmp' = NoRecords
    /\ broken' = FALSE
    /\ copies' = [r \in Requests |-> 0]
    /\ UNCHANGED <<cid, disk, clock, requests, results, device, overtaken>>

GetFault(c) ==
    /\ mem[c] \in {"authorized", "dispatched"}
    /\ clock[c] # "live"
    /\ Put(c, "expired", Nobody)
    /\ UNCHANGED <<pc, cid, copies, clock, requests, results, device, world>>

(* A client reads the command after its expiry. *)
Get(c) ==
    /\ mem[c] \in Status \ Final
    /\ clock[c] # "live"
    /\ Put(c, "expired", Nobody)
    /\ UNCHANGED <<pc, cid, copies, clock, requests, results, device, world>>

AcceptResultFault ==
    /\ results # <<>>
    /\ results' = Tail(results)
    /\ Put(Head(results).c, Head(results).status, Nobody)
    /\ UNCHANGED <<pc, cid, copies, clock, requests, device, world>>

(* acceptResult: results of unknown or finished commands are dropped. *)
AcceptResult ==
    /\ results # <<>>
    /\ results' = Tail(results)
    /\ LET m == Head(results) IN
       IF mem[m.c] \in {Absent} \cup Final
       THEN UNCHANGED store
       ELSE Put(m.c, m.status, Nobody)
    /\ UNCHANGED <<pc, cid, copies, clock, requests, device, world>>

(* The server is not connected when the broker gets the result. *)
ResultLost ==
    /\ results # <<>>
    /\ results' = Tail(results)
    /\ UNCHANGED <<pc, cid, copies, store, clock, requests, device, world>>

(* create is past the PUBACK of the command. *)
Settled(c) ==
    \A r \in Requests : cid[r] = c => pc[r] \notin {"authorizing", "dispatching", "awaiting"}

Overtake(c) ==
    /\ overtaken' = IF Settled(c) THEN overtaken ELSE overtaken \cup {c}
    /\ UNCHANGED crashes

Tick(c) ==
    /\ clock[c] # "late"
    /\ mem[c] # Absent
    /\ Overtake(c)
    /\ clock' = [clock EXCEPT ![c] = IF @ = "live" THEN "grace" ELSE "late"]
    /\ UNCHANGED <<pc, cid, copies, store, requests, results, device>>

-------------------------------------------------------------------------------
(* The device.  handleCommand runs on a queue, so one command at a time.   *)
(* A result is published again when the client library resends it.          *)
Publish(c, status, n) ==
    /\ Len(results) + n <= MaxInFlight
    /\ results' = results \o [i \in 1..n |-> [c |-> c, status |-> status]]

IsKept(c) == \E i \in 1..Len(kept) : kept[i].c = c

KeepFault(c, status) == kept' = kept

(* rememberResult: a Map that forgets its oldest key above the limit. *)
Keep(c, status) ==
    LET m == [c |-> c, status |-> status] IN
    kept' = IF IsKept(c)
            THEN [i \in 1..Len(kept) |-> IF kept[i].c = c THEN m ELSE kept[i]]
            ELSE IF Len(kept) = Remembered THEN Append(Tail(kept), m) ELSE Append(kept, m)

(* verifySimulatorCommand: 30 s of clock skew are allowed for the expiry.  *)
(* Its other checks, of the envelope, the signature and the catalogue, may *)
(* refuse any command.                                                     *)
Verified(c) == clock[c] # "late"

(* A command arrives: a known one gets its result again, an overdue or     *)
(* invalid one is rejected, the others go on to be executed.               *)
Receive(c) ==
    /\ dev = Idle
    /\ requests[c] > 0
    /\ Overtake(c)
    /\ requests' = [requests EXCEPT ![c] = @ - 1]
    /\ \/ /\ \E i \in 1..Len(kept) : kept[i].c = c /\ Publish(c, kept[i].status, 1)
          /\ UNCHANGED <<dev, kept>>
       \/ /\ IsKept(c)                       \* its publication fails
          /\ UNCHANGED <<dev, kept, results>>
       \/ /\ ~IsKept(c)
          /\ Verified(c)
          /\ dev' = [at |-> "accepted", c |-> c]
          /\ UNCHANGED <<kept, results>>
       \/ /\ ~IsKept(c)
          /\ Keep(c, "rejected")
          /\ dev' = [at |-> "answer", c |-> c, status |-> "rejected"]
          /\ UNCHANGED results
    /\ UNCHANGED <<pc, cid, copies, store, clock, executed, restarts>>

(* "accepted" and "executing" are published, each after the other's PUBACK. *)
Report ==
    /\ dev.at \in {"accepted", "executing"}
    /\ \E n \in 1..MaxCopies : Publish(dev.c, dev.at, n)
    /\ dev' = [dev EXCEPT !.at = IF @ = "accepted" THEN "executing" ELSE "execute"]
    /\ UNCHANGED <<pc, cid, copies, store, clock, requests, kept, executed, restarts, world>>

Conclude(status) ==
    /\ Keep(dev.c, status)
    /\ dev' = [at |-> "answer", c |-> dev.c, status |-> status]

(* The command takes effect, the state transition is published and the     *)
(* result remembered.                                                      *)
Execute(status) ==
    /\ dev.at = "execute"
    /\ executed' = [executed EXCEPT ![dev.c] = @ + 1]
    /\ Conclude(status)
    /\ UNCHANGED <<pc, cid, copies, store, clock, requests, results, restarts, world>>

(* The command takes effect, but the publication of the transition throws: *)
(* the result says failed (for an error with a code rejected, which the    *)
(* server treats alike).                                                   *)
TransitionFails == Execute("failed")

(* The execution is refused, always with a code. *)
ExecutionRefused ==
    /\ dev.at = "execute"
    /\ Conclude("rejected")
    /\ UNCHANGED <<pc, cid, copies, store, clock, requests, results, executed, restarts, world>>

(* The publication of accepted, executing or succeeded throws, which is    *)
(* inside the same try block.                                              *)
Fail ==
    /\ \/ dev.at \in {"accepted", "executing"}
       \/ dev.at = "answer" /\ dev.status = "succeeded"
    /\ Conclude("failed")
    /\ UNCHANGED <<pc, cid, copies, store, clock, requests, results, executed, restarts, world>>

Answer ==
    /\ dev.at = "answer"
    /\ \E n \in 1..MaxCopies : Publish(dev.c, dev.status, n)
    /\ dev' = Idle
    /\ UNCHANGED <<pc, cid, copies, store, clock, requests, kept, executed, restarts, world>>

(* Publishing a failure throws: it is logged and dropped. *)
AnswerFails ==
    /\ dev.at = "answer"
    /\ dev.status # "succeeded"
    /\ dev' = Idle
    /\ UNCHANGED <<pc, cid, copies, store, clock, requests, results, kept, executed, restarts, world>>

(* The device process restarts and has forgotten what it executed. *)
Restart ==
    /\ crashes + restarts < MaxFailures
    /\ restarts' = restarts + 1
    /\ dev' = Idle
    /\ kept' = <<>>
    /\ UNCHANGED <<pc, cid, copies, store, clock, requests, results, executed, world>>

Next ==
    \/ \E r \in Requests :
          \/ Create(r) \/ CreateRefused(r)
          \/ Dispatch(r) \/ Resend(r) \/ DispatchFails(r) \/ Acked(r)
    \/ Serialise \/ Rename \/ WriteFails \/ Crash
    \/ AcceptResult \/ ResultLost
    \/ \E c \in Commands : Get(c) \/ Tick(c) \/ Receive(c)
    \/ Execute("succeeded") \/ TransitionFails \/ ExecutionRefused \/ Fail \/ Report \/ Answer \/ AnswerFails \/ Restart

Spec == Init /\ [][Next]_vars

(* Time passes and the client keeps reading its command. *)
Fairness == \A c \in Commands : WF_vars(Tick(c)) /\ WF_vars(Get(c))

FairSpec == Spec /\ Fairness

-------------------------------------------------------------------------------
(* "Requests are persisted in commands.storeFile, published": a command    *)
(* that reached the broker, was executed or was answered 202 is in the     *)
(* store file, whatever crashed or failed before.                          *)
PersistedBeforeDispatched ==
    \A c \in Commands :
        \/ requests[c] > 0 \/ executed[c] > 0
        \/ \E r \in Requests : cid[r] = c /\ pc[r] \in {"awaiting", "finishing", "answered"}
        => disk[c] # Absent

(* QoS 1 delivers a command again and clients reuse identifiers, and yet   *)
(* the device executes it once, as long as it remembers its result.        *)
ExecutedOnce == restarts = 0 => \A c \in Commands : executed[c] <= 1

Rank == [s \in Status \cup {Absent} |->
    CASE s = Absent -> 0 [] s = "authorized" -> 1 [] s = "dispatched" -> 2
      [] s = "accepted" -> 3 [] s = "executing" -> 4 [] OTHER -> 5]

(* While server and device live, the status a client reads never moves     *)
(* back, unless a result or the expiry came before the PUBACK.             *)
StatusAdvances ==
    [][crashes' = crashes /\ restarts = 0 =>
          \A c \in Commands \ overtaken : Rank[mem[c]] <= Rank[mem'[c]]]_vars

(* A command that was answered 202 ends in a final status and stays there, *)
(* even when its results are lost or the server crashes.                   *)
Settles ==
    \A r \in Requests : pc[r] = "answered" ~> [](mem[cid[r]] \in Final)

===============================================================================
