----------------------------- MODULE LiveTelemetry -----------------------------
(***************************************************************************)
(* What becomes of a connector's message once its Twin is authorized: the  *)
(* realtime hub, the event stream of a manager, and the optional analysis  *)
(* by an AI provider, which the tenant's owner can switch off and which a  *)
(* new configuration restarts.  One tenant, one Twin.  Messages are        *)
(* numbered in the order in which the hub publishes them.                  *)
(***************************************************************************)
EXTENDS Naturals, FiniteSets

CONSTANTS
    Payloads,          \* what a message may carry
    MaxMessages,       \* bound: messages published
    MaxSamples,        \* samples an analysis looks at (20 in the code)
    MaxRequests,       \* requests to the provider at a time (2 in the code)
    MaxConfigs,        \* bound: configurations of the connector
    MaxCrashes,        \* bound: crashes of the server
    None

ASSUME LiveAssumption ==
    /\ Payloads \subseteq {"numbers", "text", "encrypted", "badPosition"}
    /\ {MaxMessages, MaxConfigs, MaxCrashes} \subseteq Nat
    /\ {MaxSamples, MaxRequests} \subseteq Nat \ {0}
    /\ None \notin Nat

VARIABLES
    up,                \* the server runs
    published,         \* counter: messages published so far
    latest,            \* number of the hub's latest event, 0 if it has none
    stream,            \* the event stream of a manager
    manager,           \* the manager's rights on the Twin are in force
    file,              \* the tenant's AI switch as tenant-modules.json has it
    enabled,           \* TenantModules.state
    paused,            \* the tenant is one of pausedTenants
    config,            \* the connector's configuration, or None
    reloading,         \* connect() has disconnected and not configured yet
    analysis,          \* the Twin's State object, or None
    requests,          \* requests to the provider that have not ended
    twinRequest,       \* the request twinRequests holds for the Twin, or None
    failed,            \* the last analysis of a current state failed
    configs,           \* counter: configurations so far
    crashes,           \* counter: crashes so far
    answered,          \* history: the switch the owner was last told
    offLimits,         \* history: messages published while the owner believed AI off
    floor,             \* history: messages up to here must no longer be analysed
    lastRead           \* history: the latest event when the manager lost the rights

hubVars == <<published, latest, stream, manager, lastRead>>
aiVars == <<paused, config, reloading, analysis, requests, twinRequest, failed, configs>>
switchVars == <<file, enabled, answered>>
vars == <<up, hubVars, aiVars, switchVars, crashes, offLimits, floor>>

Beat == 0              \* a heartbeat; events of the hub are numbered from 1

NoStream == [open |-> FALSE, item |-> None, granted |-> FALSE, pending |-> None, wrote |-> 0]

Init ==
    /\ up = TRUE /\ published = 0 /\ latest = 0 /\ stream = NoStream /\ manager = TRUE
    /\ file = "on" /\ enabled = "on" /\ paused = FALSE
    /\ config = None /\ reloading = TRUE /\ configs = 0
    /\ analysis = None /\ requests = {} /\ twinRequest = None /\ failed = FALSE
    /\ crashes = 0
    /\ answered = "on" /\ offLimits = {} /\ floor = 0 /\ lastRead = None

-----------------------------------------------------------------------------
(* The manager's stream.  send() keeps only the newest item that waits;    *)
(* one loop at a time takes it, checks the manager's rights and writes it. *)

(* The loop takes the waiting item, or ends. *)
Take(s) == [s EXCEPT !.item = s.pending, !.granted = FALSE, !.pending = None]

(* Faulty: an item that waits goes out with the item in hand and again. *)
SendFault(s, item) ==
    IF ~s.open THEN s
    ELSE IF s.item = None THEN Take([s EXCEPT !.pending = item])
    ELSE [s EXCEPT !.pending = s.item, !.item = item, !.granted = FALSE]

Send(s, item) ==
    LET waiting == [s EXCEPT !.pending = item] IN
    IF ~s.open THEN s
    ELSE IF s.item # None THEN waiting
    ELSE Take(waiting)

OpenStream ==
    /\ up /\ ~stream.open /\ stream = NoStream
    /\ LET opened == [NoStream EXCEPT !.open = TRUE] IN
       stream' = IF latest = 0 THEN opened ELSE Send(opened, latest)
    /\ UNCHANGED <<up, published, latest, manager, lastRead, aiVars, switchVars, crashes, offLimits, floor>>

Heartbeat ==
    /\ up /\ stream.open
    /\ stream' = Send(stream, Beat)
    /\ UNCHANGED <<up, published, latest, manager, lastRead, aiVars, switchVars, crashes, offLimits, floor>>

(* assertManagementRead reads the policy; a refusal ends the stream. *)
CheckManager ==
    /\ up /\ stream.item # None /\ ~stream.granted
    /\ stream' = IF manager THEN [stream EXCEPT !.granted = TRUE]
                 ELSE [stream EXCEPT !.open = FALSE, !.item = None, !.pending = None]
    /\ UNCHANGED <<up, published, latest, manager, lastRead, aiVars, switchVars, crashes, offLimits, floor>>

(* Faulty: the newest item that waits is taken after the check. *)
WriteFault ==
    /\ up /\ stream.item # None /\ stream.granted
    /\ LET item == IF stream.pending = None THEN stream.item ELSE stream.pending IN
       stream' = Take([stream EXCEPT !.wrote = IF item = Beat THEN @ ELSE item, !.pending = None])
    /\ UNCHANGED <<up, published, latest, manager, lastRead, aiVars, switchVars, crashes, offLimits, floor>>

Write ==
    /\ up /\ stream.item # None /\ stream.granted
    /\ stream' = Take(IF stream.item = Beat THEN stream ELSE [stream EXCEPT !.wrote = stream.item])
    /\ UNCHANGED <<up, published, latest, manager, lastRead, aiVars, switchVars, crashes, offLimits, floor>>

(* The client goes away; an item whose check is on its way is not written. *)
CloseStream ==
    /\ up /\ stream.open
    /\ stream' = [stream EXCEPT !.open = FALSE, !.item = None, !.pending = None]
    /\ UNCHANGED <<up, published, latest, manager, lastRead, aiVars, switchVars, crashes, offLimits, floor>>

(* The owner withdraws the manager's rights on the chain. *)
RevokeManager ==
    /\ manager
    /\ manager' = FALSE /\ lastRead' = published
    /\ UNCHANGED <<up, published, latest, stream, aiVars, switchVars, crashes, offLimits, floor>>

-----------------------------------------------------------------------------
(* The analysis. *)

Newest(n, S) == {s \in S : Cardinality({t \in S : t > s}) < n}

(* The samples kept when sample n joins: those of the last five minutes,   *)
(* which reach back to some sample, and at most MaxSamples of them.        *)
Kept(S, n) == {Newest(MaxSamples, {s \in S \cup {n} : s >= k}) : k \in S \cup {n}}

Listening == config # None /\ config.scoped /\ ~paused

(* What the payload is to the hub and to the analysis. *)
Rejected(payload) == payload = "badPosition"
Encrypted(payload) == payload = "encrypted"
Numeric(payload) == payload = "numbers"

Request(n, state, samples) ==
    [id |-> n, of |-> state.id, config |-> config.id, samples |-> samples, aborted |-> FALSE]

(* A request begins unless one is busy, too many run or the interval since *)
(* the last attempt is not over.                                           *)
Observed(n, state, samples, elapsed) ==
    LET go == ~state.busy /\ Cardinality(requests) < MaxRequests /\ (state.attempted => elapsed)
        next == [state EXCEPT !.samples = samples, !.attempted = @ \/ go, !.busy = @ \/ go]
    IN  /\ analysis' = next
        /\ IF go
           THEN /\ requests' = requests \cup {Request(n, state, samples)}
                /\ twinRequest' = n
           ELSE UNCHANGED <<requests, twinRequest>>

Fresh(n) == [id |-> n, samples |-> {}, attempted |-> FALSE, busy |-> FALSE, result |-> None]

Observe(n, payload) ==
    \/ /\ Listening /\ Encrypted(payload)
       /\ analysis' = None
       /\ UNCHANGED <<requests, twinRequest>>
    \/ /\ Listening /\ Numeric(payload)
       /\ LET state == IF analysis = None THEN Fresh(n) ELSE analysis IN
          \E samples \in Kept(state.samples, n), elapsed \in BOOLEAN :
              Observed(n, state, samples, elapsed)
    \/ /\ ~Listening \/ ~(Encrypted(payload) \/ Numeric(payload))
       /\ UNCHANGED <<analysis, requests, twinRequest>>

HubPublish(n) == latest' = n /\ stream' = Send(stream, n)

(* A message whose Twin is authorized: the hub, its subscribers, then the  *)
(* analysis if the tenant's switch is on.  A position out of range throws  *)
(* before anything happens.                                                *)
Publish(payload) ==
    /\ up /\ published < MaxMessages /\ ~Rejected(payload)
    /\ LET n == published + 1 IN
       /\ published' = n
       /\ HubPublish(n)
       /\ IF enabled = "on" THEN Observe(n, payload) ELSE UNCHANGED <<analysis, requests, twinRequest>>
       /\ offLimits' = IF answered = "off" THEN offLimits \cup {n} ELSE offLimits
       /\ floor' = IF Encrypted(payload) THEN n ELSE floor
    /\ UNCHANGED <<up, manager, lastRead, paused, config, reloading, failed, configs, switchVars, crashes>>

Done(q) ==
    /\ requests' = requests \ {q}
    /\ twinRequest' = IF twinRequest = q.id THEN None ELSE twinRequest
    /\ UNCHANGED <<up, hubVars, paused, config, reloading, configs, switchVars, crashes, offLimits, floor>>

OfCurrentState(q) == analysis # None /\ analysis.id = q.of

(* Faulty: the answer goes to whatever state the Twin has by now. *)
AnswerFault(q) ==
    /\ up
    /\ LET publishes == config # None /\ config.id = q.config /\ analysis # None /\ ~q.aborted IN
       /\ analysis' = IF analysis = None THEN analysis
                      ELSE [analysis EXCEPT !.busy = @ /\ ~OfCurrentState(q),
                                !.result = IF publishes THEN [config |-> q.config, samples |-> q.samples] ELSE @]
       /\ failed' = (failed /\ ~publishes)
    /\ Done(q)

(* The provider's answer arrives in full, on time or not. *)
Answer(q) ==
    /\ up
    /\ LET publishes == config # None /\ config.id = q.config /\ OfCurrentState(q) /\ ~q.aborted IN
       /\ analysis' = IF ~OfCurrentState(q) THEN analysis
                      ELSE [analysis EXCEPT !.busy = FALSE,
                                !.result = IF publishes THEN [config |-> q.config, samples |-> q.samples] ELSE @]
       /\ failed' = (failed /\ ~publishes)
    /\ Done(q)

(* No answer, a refusal, an answer that is too long or malformed, or an    *)
(* abort noticed by the fetch.                                             *)
NoAnswer(q) ==
    /\ up
    /\ analysis' = IF OfCurrentState(q) THEN [analysis EXCEPT !.busy = FALSE] ELSE analysis
    /\ failed' = (failed \/ OfCurrentState(q))
    /\ Done(q)

(* What latest() returns. *)
Exposed == IF analysis = None THEN None ELSE analysis.result

Aborted(which) == {[q EXCEPT !.aborted = @ \/ q.id \in which] : q \in requests}

Timeout(q) ==
    /\ up /\ ~q.aborted
    /\ requests' = Aborted({q.id})
    /\ UNCHANGED <<up, hubVars, paused, config, reloading, analysis, twinRequest, failed, configs, switchVars, crashes, offLimits, floor>>

(* connect(): what ran for the old configuration is aborted and forgotten, *)
(* and the new configuration is in force one turn of the event loop later. *)
Disconnect ==
    /\ up /\ ~reloading /\ configs < MaxConfigs
    /\ config' = None /\ reloading' = TRUE
    /\ requests' = Aborted({q.id : q \in requests})
    /\ analysis' = None
    /\ floor' = published
    /\ UNCHANGED <<up, hubVars, paused, twinRequest, failed, configs, switchVars, crashes, offLimits>>

Configure(scoped) ==
    /\ up /\ reloading /\ configs < MaxConfigs
    /\ configs' = configs + 1
    /\ config' = [id |-> configs', scoped |-> scoped]
    /\ reloading' = FALSE /\ failed' = FALSE
    /\ UNCHANGED <<up, hubVars, paused, analysis, requests, twinRequest, switchVars, crashes, offLimits, floor>>

-----------------------------------------------------------------------------
(* The owner's switch. *)

SetTenantEnabled(value) ==
    IF value = "on"
    THEN /\ paused' = FALSE
         /\ UNCHANGED <<analysis, requests>>
    ELSE /\ paused' = TRUE
         /\ requests' = IF config = None \/ twinRequest = None THEN requests ELSE Aborted({twinRequest})
         /\ analysis' = IF config = None THEN analysis ELSE None

(* TenantModules.set writes a temporary file and renames it over the old   *)
(* one before the state in memory changes.  A write that fails is an error *)
(* to the owner and leaves everything as it was.                           *)
Persist(value) == file' = value /\ enabled' = value

(* The switch is persisted, then the connector is told, then the owner. *)
SetModule(value) ==
    /\ up
    /\ Persist(value)
    /\ SetTenantEnabled(value)
    /\ answered' = value
    /\ floor' = IF value = "off" THEN published ELSE floor
    /\ UNCHANGED <<up, hubVars, config, reloading, twinRequest, failed, configs, crashes, offLimits>>

Down ==
    /\ up' = FALSE /\ crashes' = crashes + 1
    /\ stream' = [stream EXCEPT !.open = FALSE, !.item = None, !.pending = None]
    /\ config' = None /\ reloading' = FALSE /\ paused' = FALSE
    /\ analysis' = None /\ requests' = {} /\ twinRequest' = None /\ failed' = FALSE
    /\ latest' = 0
    /\ UNCHANGED <<published, manager, lastRead, configs, offLimits, floor>>

Crash ==
    /\ up /\ crashes < MaxCrashes
    /\ Down
    /\ UNCHANGED switchVars

(* The crash comes between the rename and the answer. *)
CrashInSet(value) ==
    /\ up /\ crashes < MaxCrashes
    /\ Down
    /\ file' = value /\ answered' = "unknown"
    /\ UNCHANGED enabled

(* Faulty: the switches of before the crash are forgotten with pausedTenants. *)
RestartFault ==
    /\ ~up
    /\ up' = TRUE
    /\ enabled' = "on"
    /\ reloading' = TRUE
    /\ floor' = published
    /\ UNCHANGED <<hubVars, file, answered, paused, config, analysis, requests, twinRequest, failed, configs, crashes, offLimits>>

Restart ==
    /\ ~up
    /\ up' = TRUE
    /\ enabled' = file
    /\ reloading' = TRUE
    /\ floor' = published
    /\ UNCHANGED <<hubVars, file, answered, paused, config, analysis, requests, twinRequest, failed, configs, crashes, offLimits>>

StreamNext == OpenStream \/ Heartbeat \/ CheckManager \/ Write \/ CloseStream \/ RevokeManager

AnalysisNext ==
    \/ \E q \in requests : Answer(q) \/ NoAnswer(q) \/ Timeout(q)
    \/ Disconnect \/ \E s \in BOOLEAN : Configure(s)
    \/ \E v \in {"on", "off"} : SetModule(v) \/ CrashInSet(v)
    \/ Crash \/ Restart

Next ==
    \/ \E p \in Payloads : Publish(p)
    \/ StreamNext \/ AnalysisNext

Spec == Init /\ [][Next]_vars
-----------------------------------------------------------------------------
(* An analysis that latest() returns was asked for by the connector's      *)
(* configuration of now, about samples that came after the last encrypted  *)
(* message, the last pause by the owner and the last reload; late answers  *)
(* to earlier requests never show ("A configuration reload must never      *)
(* expose an old prompt's result or accept its late response").            *)
ExposedIsCurrent ==
    Exposed # None =>
        /\ config # None /\ config.id = Exposed.config
        /\ \A n \in Exposed.samples : n > floor

(* Once the owner was told that AI is off, no analysis shows, and none of  *)
(* the messages published until the owner is told otherwise is ever sent   *)
(* to the provider, although a restart forgets pausedTenants and a switch  *)
(* may fail to be persisted.                                               *)
PauseHolds ==
    /\ answered = "off" => Exposed = None
    /\ \A q \in requests : q.samples \cap offLimits = {}

(* Nothing published after a manager lost the rights on the Twin reaches   *)
(* the manager's open stream: the rights are read after the item is taken. *)
RevokedSeesNoMore == ~manager => stream.wrote <= lastRead

(* Events reach a manager in the order in which the hub published them,    *)
(* none twice, although each waits for a check of its own and newer ones   *)
(* replace it while it waits.                                              *)
StreamInOrder ==
    LET events(S) == S \ {None, Beat} IN
    /\ \A i \in events({stream.item, stream.pending}) : i > stream.wrote
    /\ \A i \in events({stream.item}), j \in events({stream.pending}) : j > i
=============================================================================
