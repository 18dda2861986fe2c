------------------------------- MODULE LiveProofs -------------------------------
(***************************************************************************)
(* Proofs about LiveTelemetry, for any number of messages, samples,        *)
(* requests, configurations and crashes, and about TwinAuthority, for any  *)
(* requests, grants and periods.                                           *)
(***************************************************************************)
EXTENDS TwinAuthority, LiveTelemetry, FiniteSetTheorems, TLAPS

Streams == [open : BOOLEAN, item : Nat \cup {None}, granted : BOOLEAN, pending : Nat \cup {None}, wrote : Nat]
Configs == [id : Nat, scoped : BOOLEAN]
Results == [config : Nat, samples : SUBSET Nat]
States == [id : Nat, samples : SUBSET Nat, attempted : BOOLEAN, busy : BOOLEAN, result : Results \cup {None}]
Calls == [id : Nat, of : Nat, config : Nat, samples : SUBSET Nat, aborted : BOOLEAN]
Switches == {"on", "off"}

HubTypes ==
    /\ published \in Nat /\ latest \in 0..published
    /\ stream \in Streams
    /\ manager \in BOOLEAN /\ (~manager => lastRead \in Nat)

(* The stream holds what was published, the older event first.             *)
Streamed ==
    /\ stream.wrote <= published
    /\ stream.item # None => stream.item <= published
    /\ stream.pending # None => stream.pending <= published
    /\ stream.item = None => stream.pending = None

(* An item that the loop was granted is one the manager could read.        *)
GrantedInTime ==
    ~manager =>
        /\ stream.wrote <= lastRead
        /\ stream.granted /\ stream.item # None => stream.item <= lastRead

StreamInv == HubTypes /\ Streamed /\ GrantedInTime /\ StreamInOrder

AnalysisTypes ==
    /\ up \in BOOLEAN /\ reloading \in BOOLEAN /\ paused \in BOOLEAN /\ configs \in Nat
    /\ file \in Switches /\ enabled \in Switches /\ answered \in Switches \cup {"unknown"}
    /\ config # None => config \in Configs
    /\ analysis # None => analysis \in States
    /\ requests \subseteq Calls
    /\ offLimits \subseteq 1..published /\ floor \in 0..published

(* The Twin's State exists only while the analysis listens, and holds      *)
(* nothing from before the floor or from while AI was off.                 *)
Analysing ==
    analysis # None =>
        /\ up /\ enabled = "on" /\ Listening
        /\ analysis.id <= published
        /\ \A n \in analysis.samples : n > floor /\ n <= published /\ n \notin offLimits
        /\ analysis.result # None =>
              /\ config.id = analysis.result.config
              /\ \A n \in analysis.result.samples : n > floor

(* A request of the State there is now carries samples of that State.      *)
Asked ==
    \A q \in requests :
        /\ q.of <= published
        /\ \A n \in q.samples : n <= published /\ n \notin offLimits
        /\ analysis # None /\ analysis.id = q.of => \A n \in q.samples : n > floor

(* What the owner was told is in the file and in force. *)
SwitchKept ==
    /\ answered = "off" => file = "off" /\ enabled = "off"
    /\ reloading => config = None
    /\ ~up => config = None /\ ~reloading

AnalysisInv == AnalysisTypes /\ Analysing /\ Asked /\ SwitchKept

-------------------------------------------------------------------------------
(* The stream. *)
LEMMA SendFacts ==
  ASSUME NEW s \in Streams, NEW item \in Nat
  PROVE  LET t == Send(s, item) IN
         /\ t \in Streams /\ t.wrote = s.wrote
         /\ ~s.open => t = s
         /\ s.open /\ s.item # None => t.item = s.item /\ t.pending = item /\ t.granted = s.granted
         /\ s.open /\ s.item = None => t.item = item /\ t.pending = None /\ ~t.granted
  BY LiveAssumption DEF Send, Take, Streams

LEMMA TakeFacts ==
  ASSUME NEW s \in Streams
  PROVE  LET t == Take(s) IN
         t \in Streams /\ t.wrote = s.wrote /\ t.item = s.pending /\ t.pending = None /\ ~t.granted
  BY LiveAssumption DEF Take, Streams

(* An item that is sent is newer than what the stream holds. *)
LEMMA SendKeeps ==
  ASSUME StreamInv, NEW item \in Nat, stream' = Send(stream, item), UNCHANGED <<manager, lastRead>>,
         published' \in Nat, published' >= published, item <= published', latest' \in 0..published',
         item # Beat => item > published
  PROVE  StreamInv'
  <1>1. stream \in Streams /\ published \in Nat
    BY DEF StreamInv, HubTypes
  <1>2. HubTypes'
    BY <1>1, SendFacts DEF StreamInv, HubTypes
  <1>3. /\ stream'.wrote = stream.wrote /\ stream.wrote \in Nat
        /\ {stream.item, stream.pending} \subseteq Nat \cup {None} /\ None \notin Nat
        /\ \/ UNCHANGED <<stream>>
           \/ /\ stream.item # None /\ stream'.item = stream.item /\ stream'.pending = item
              /\ stream'.granted = stream.granted
           \/ stream.item = None /\ stream'.item = item /\ stream'.pending = None /\ ~stream'.granted
    <2>1. /\ stream'.wrote = stream.wrote
          /\ ~stream.open => stream' = stream
          /\ stream.open /\ stream.item # None => stream'.item = stream.item /\ stream'.pending = item
                                                 /\ stream'.granted = stream.granted
          /\ stream.open /\ stream.item = None => stream'.item = item /\ stream'.pending = None /\ ~stream'.granted
      BY <1>1, SendFacts
    <2>2. stream.wrote \in Nat /\ {stream.item, stream.pending} \subseteq Nat \cup {None} /\ None \notin Nat
      BY <1>1, LiveAssumption DEF Streams
    <2> QED
      BY <2>1, <2>2
  <1>4. Streamed'
    BY <1>1, <1>3 DEF StreamInv, Streamed
  <1>5. GrantedInTime'
    BY <1>3 DEF StreamInv, GrantedInTime
  <1>6. StreamInOrder'
    BY <1>1, <1>3 DEF StreamInv, StreamInOrder, Streamed, Beat
  <1> QED
    BY <1>2, <1>4, <1>5, <1>6 DEF StreamInv

LEMMA StreamStepStream ==
  ASSUME StreamInv, StreamNext
  PROVE  StreamInv'
  <1>1. stream \in Streams /\ published \in Nat /\ None \notin Nat
    BY LiveAssumption DEF StreamInv, HubTypes
  <1>2. CASE OpenStream
    <2> DEFINE fresh == [NoStream EXCEPT !.open = TRUE]
    <2>1. fresh \in Streams /\ fresh.open /\ fresh.item = None /\ fresh.pending = None /\ fresh.wrote = 0
          /\ ~fresh.granted
      BY DEF NoStream, Streams
    <2>2. /\ stream' = IF latest = 0 THEN fresh ELSE Send(fresh, latest)
          /\ stream = NoStream /\ UNCHANGED <<published, latest, manager, lastRead>>
      BY <1>2 DEF OpenStream
    <2> HIDE DEF fresh
    <2>3. /\ stream' \in Streams /\ stream'.wrote = 0 /\ stream'.pending = None /\ ~stream'.granted
          /\ stream'.item = None \/ (stream'.item = latest /\ latest > 0)
      BY <2>1, <2>2, SendFacts DEF StreamInv, HubTypes
    <2>4. HubTypes' /\ Streamed'
      BY <1>1, <2>2, <2>3 DEF StreamInv, HubTypes, Streamed
    <2>5. GrantedInTime'
      BY <1>1, <2>2, <2>3 DEF StreamInv, HubTypes, GrantedInTime
    <2>6. StreamInOrder'
      BY <1>1, <2>2, <2>3 DEF StreamInv, HubTypes, StreamInOrder, Beat
    <2> QED
      BY <2>4, <2>5, <2>6 DEF StreamInv
  <1>3. CASE Heartbeat
    BY <1>1, <1>3, SendKeeps DEF Heartbeat, Beat, StreamInv, HubTypes
  <1>4. CASE CheckManager
    <2>1. UNCHANGED <<published, latest, manager, lastRead>>
      BY <1>4 DEF CheckManager
    <2>2. CASE manager
      BY <1>1, <1>4, <2>1, <2>2 DEF CheckManager, StreamInv, HubTypes, Streams, Streamed, GrantedInTime,
         StreamInOrder
    <2>3. CASE ~manager
      BY <1>1, <1>4, <2>1, <2>3 DEF CheckManager, StreamInv, HubTypes, Streams, Streamed, GrantedInTime,
         StreamInOrder
    <2> QED
      BY <2>2, <2>3
  <1>5. CASE Write
    <2> DEFINE wrote == IF stream.item = Beat THEN stream.wrote ELSE stream.item
    <2>1. /\ stream.item # None /\ stream.granted /\ stream.item \in Nat
          /\ UNCHANGED <<published, latest, manager, lastRead>>
      BY <1>1, <1>5 DEF Write, Streams
    <2>2. /\ stream' \in Streams /\ stream'.wrote = wrote /\ stream'.item = stream.pending
          /\ stream'.pending = None /\ ~stream'.granted
      <3>1. CASE stream.item = Beat
        BY <1>1, <1>5, <3>1, TakeFacts DEF Write
      <3>2. CASE stream.item # Beat
        <4> DEFINE s == [stream EXCEPT !.wrote = stream.item]
        <4>1. s \in Streams /\ s.wrote = stream.item /\ s.pending = stream.pending
          BY <1>1, <2>1 DEF Streams
        <4>2. stream' = Take(s)
          BY <1>5, <3>2 DEF Write
        <4> HIDE DEF s
        <4> QED
          BY <3>2, <4>1, <4>2, TakeFacts
      <3> QED
        BY <3>1, <3>2
    <2>3. HubTypes' /\ Streamed'
      BY <1>1, <2>1, <2>2 DEF StreamInv, HubTypes, Streamed
    <2>4. GrantedInTime'
      BY <1>1, <2>1, <2>2 DEF StreamInv, GrantedInTime
    <2>5. StreamInOrder'
      BY <1>1, <2>1, <2>2 DEF StreamInv, StreamInOrder, Beat, Streams
    <2> QED
      BY <2>3, <2>4, <2>5 DEF StreamInv
  <1>6. CASE CloseStream
    BY <1>1, <1>6 DEF CloseStream, StreamInv, HubTypes, Streams, Streamed, GrantedInTime, StreamInOrder
  <1>7. CASE RevokeManager
    BY <1>1, <1>7 DEF RevokeManager, StreamInv, HubTypes, Streams, Streamed, GrantedInTime, StreamInOrder
  <1> QED
    BY <1>2, <1>3, <1>4, <1>5, <1>6, <1>7 DEF StreamNext

(* The analysis leaves the stream alone, unless the server dies. *)
LEMMA AnalysisStepStream ==
  ASSUME StreamInv, AnalysisNext
  PROVE  StreamInv'
  <1>1. CASE UNCHANGED hubVars
    BY <1>1 DEF hubVars, StreamInv, HubTypes, Streamed, GrantedInTime, StreamInOrder
  <1>2. CASE Down
    <2>1. stream \in Streams /\ None \notin Nat
      BY LiveAssumption DEF StreamInv, HubTypes
    <2>2. /\ stream' \in Streams /\ stream'.wrote = stream.wrote /\ stream'.item = None /\ stream'.pending = None
          /\ latest' = 0 /\ UNCHANGED <<published, manager, lastRead>>
      BY <1>2, <2>1 DEF Down, Streams
    <2> QED
      BY <2>1, <2>2 DEF StreamInv, HubTypes, Streamed, GrantedInTime, StreamInOrder
  <1>3. UNCHANGED hubVars \/ Down
    BY DEF AnalysisNext, Answer, NoAnswer, Done, Timeout, Disconnect, Configure, SetModule, CrashInSet,
           Crash, Restart
  <1> QED
    BY <1>1, <1>2, <1>3

LEMMA PublishStream ==
  ASSUME StreamInv, NEW p \in Payloads, Publish(p)
  PROVE  StreamInv'
  <1>1. published \in Nat
    BY DEF StreamInv, HubTypes
  <1> QED
    BY <1>1, SendKeeps DEF Publish, HubPublish

-------------------------------------------------------------------------------
(* The analysis. *)
LEMMA StreamStepAnalysis ==
  ASSUME AnalysisInv, StreamNext
  PROVE  AnalysisInv'
  <1>1. UNCHANGED <<up, published, aiVars, switchVars, offLimits, floor>>
    BY DEF StreamNext, OpenStream, Heartbeat, CheckManager, Write, CloseStream, RevokeManager
  <1> QED
    BY <1>1 DEF aiVars, switchVars, AnalysisInv, AnalysisTypes, Analysing, Asked, SwitchKept, Listening

LEMMA KeptFacts ==
  ASSUME NEW S, NEW n, NEW samples \in Kept(S, n)
  PROVE  samples \subseteq S \cup {n}
  BY DEF Kept, Newest

(* A sample joins the State, new or not, and may be asked about.           *)
LEMMA ObservedFacts ==
  ASSUME NEW n \in Nat, NEW state \in States, NEW samples \in SUBSET Nat, NEW elapsed \in BOOLEAN,
         Observed(n, state, samples, elapsed)
  PROVE  /\ analysis' \in States /\ analysis'.id = state.id /\ analysis'.samples = samples
         /\ analysis'.result = state.result
         /\ \/ requests' = requests
            \/ requests' = requests \cup {Request(n, state, samples)}
  BY DEF Observed, States

LEMMA PublishAnalysis ==
  ASSUME StreamInv, AnalysisInv, NEW p \in Payloads, Publish(p)
  PROVE  AnalysisInv'
  <1> DEFINE n == published + 1
  <1>1. /\ published \in Nat /\ published' = n /\ n \in Nat
        /\ floor \in 0..published /\ offLimits \subseteq 1..published
        /\ floor' = IF Encrypted(p) THEN n ELSE floor
        /\ offLimits' = IF answered = "off" THEN offLimits \cup {n} ELSE offLimits
        /\ UNCHANGED <<up, paused, config, reloading, configs, switchVars>> /\ up
    BY DEF Publish, StreamInv, HubTypes, AnalysisInv, AnalysisTypes
  <1>2. floor' \in 0..published' /\ offLimits' \subseteq 1..published'
    BY <1>1
  <1>3. SwitchKept'
    BY <1>1 DEF AnalysisInv, SwitchKept, switchVars
  <1> HIDE DEF n
  <1>4. CASE UNCHANGED <<analysis, requests>> /\ (analysis # None => ~Encrypted(p))
    <2>1. Analysing'
      BY <1>1, <1>4 DEF AnalysisInv, AnalysisTypes, Analysing, States, SwitchKept, switchVars, Listening, n
    <2>2. Asked'
      <3>1. \A q \in requests : q.of \in Nat /\ q.samples \subseteq Nat
        BY DEF AnalysisInv, AnalysisTypes, Calls
      <3> QED
        BY <1>1, <1>4, <3>1 DEF AnalysisInv, Asked, n
    <2>3. AnalysisTypes'
      BY <1>1, <1>2, <1>4 DEF AnalysisInv, AnalysisTypes, switchVars
    <2> QED
      BY <1>3, <2>1, <2>2, <2>3 DEF AnalysisInv
  <1>5. CASE enabled = "on" /\ Listening /\ Encrypted(p) /\ analysis' = None /\ UNCHANGED requests
    <2>1. Analysing'
      BY <1>5 DEF Analysing
    <2>2. Asked'
      <3>1. \A q \in requests : q.of \in Nat /\ q.samples \subseteq Nat
        BY DEF AnalysisInv, AnalysisTypes, Calls
      <3> QED
        BY <1>1, <1>5, <3>1 DEF AnalysisInv, Asked, n
    <2>3. AnalysisTypes'
      BY <1>1, <1>2, <1>5 DEF AnalysisInv, AnalysisTypes, switchVars
    <2> QED
      BY <1>3, <2>1, <2>2, <2>3 DEF AnalysisInv
  <1>6. CASE enabled = "on" /\ Listening /\ Numeric(p)
    <2> DEFINE state == IF analysis = None THEN Fresh(n) ELSE analysis
    <2>1. PICK samples \in Kept(state.samples, n), elapsed \in BOOLEAN : Observed(n, state, samples, elapsed)
      BY <1>6 DEF Publish, Observe, Encrypted, Numeric, n
    <2>2. /\ state \in States /\ state.id <= n
          /\ \A m \in state.samples : m > floor /\ m <= published /\ m \notin offLimits
          /\ state.result # None =>
                /\ analysis # None /\ config.id = state.result.config
                /\ \A m \in state.result.samples : m > floor
          /\ analysis # None => state = analysis
          /\ analysis = None => state.id = n
      <3>1. CASE analysis = None
        BY <1>1, <3>1 DEF Fresh, States
      <3>2. CASE analysis # None
        BY <1>1, <3>2 DEF AnalysisInv, AnalysisTypes, Analysing, States, n
      <3> QED
        BY <3>1, <3>2
    <2> HIDE DEF state
    <2>3. ~Encrypted(p) /\ answered # "off"
      BY <1>6 DEF Encrypted, Numeric, AnalysisInv, SwitchKept
    <2>4. samples \in SUBSET Nat /\ \A m \in samples : m > floor /\ m <= n /\ m \notin offLimits
      <3>1. \A m \in samples : m \in state.samples \/ m = n
        BY KeptFacts
      <3>2. n > floor /\ n \notin offLimits
        BY <1>1 DEF n
      <3>3. state.samples \subseteq Nat
        BY <2>2 DEF States
      <3> QED
        BY <1>1, <2>2, <3>1, <3>2, <3>3 DEF n
    <2>5. /\ analysis' \in States /\ analysis'.id = state.id /\ analysis'.samples = samples
          /\ analysis'.result = state.result
          /\ requests' = requests \/ requests' = requests \cup {Request(n, state, samples)}
      <3>1. n \in Nat /\ state \in States /\ samples \in SUBSET Nat
        BY <1>1, <2>2, <2>4
      <3>2. elapsed \in BOOLEAN /\ Observed(n, state, samples, elapsed)
        BY <2>1
      <3> QED
        BY <3>1, <3>2, ObservedFacts
    <2>6. Request(n, state, samples) \in Calls /\ Request(n, state, samples).of = state.id
          /\ Request(n, state, samples).samples = samples
      BY <1>1, <1>6, <2>2, <2>4 DEF Request, Calls, States, AnalysisInv, AnalysisTypes, Listening, Configs
    <2>7. AnalysisTypes'
      BY <1>1, <1>2, <2>5, <2>6 DEF AnalysisInv, AnalysisTypes, switchVars
    <2>8. Analysing'
      BY <1>1, <1>6, <2>2, <2>3, <2>4, <2>5 DEF Analysing, Listening, switchVars
    <2>9. ASSUME NEW q \in requests'
          PROVE  /\ q.of <= published'
                 /\ \A m \in q.samples : m <= published' /\ m \notin offLimits'
                 /\ analysis' # None /\ analysis'.id = q.of => \A m \in q.samples : m > floor'
      <3>1. CASE q = Request(n, state, samples)
        BY <1>1, <2>2, <2>3, <2>4, <2>6, <3>1
      <3>2. CASE q \in requests
        <4>1. q.of \in Nat /\ q.samples \subseteq Nat /\ q.of <= published
              /\ \A m \in q.samples : m <= published /\ m \notin offLimits
          BY <3>2 DEF AnalysisInv, AnalysisTypes, Calls, Asked
        <4>2. CASE analysis = None
          BY <1>1, <2>2, <2>3, <2>5, <4>1, <4>2 DEF n
        <4>3. CASE analysis # None
          BY <1>1, <2>2, <2>3, <2>5, <3>2, <4>1, <4>3 DEF n, AnalysisInv, Asked
        <4> QED
          BY <4>2, <4>3
      <3> QED
        BY <2>5, <3>1, <3>2
    <2> QED
      BY <1>3, <2>7, <2>8, <2>9 DEF AnalysisInv, Asked
  <1>7. analysis # None => enabled = "on" /\ Listening
    BY DEF AnalysisInv, Analysing
  <1>8. CASE enabled = "on"
    <2>1. Observe(n, p)
      BY <1>8 DEF Publish, n
    <2> QED
      BY <1>4, <1>5, <1>6, <1>7, <1>8, <2>1 DEF Observe
  <1> QED
    BY <1>4, <1>7, <1>8 DEF Publish

(* A request ends: its answer shows only in the State that asked for it.   *)
LEMMA EndedAnalysis ==
  ASSUME AnalysisInv, NEW q \in requests, Answer(q) \/ NoAnswer(q)
  PROVE  AnalysisInv'
  <1>1. /\ requests' = requests \ {q}
        /\ UNCHANGED <<up, published, paused, config, reloading, configs, switchVars, offLimits, floor>>
    BY DEF Answer, NoAnswer, Done, hubVars
  <1>2. q \in Calls
    BY DEF AnalysisInv, AnalysisTypes
  <1>3. CASE analysis = None
    <2>1. analysis' = None
      BY <1>3 DEF Answer, NoAnswer, OfCurrentState
    <2> QED
      BY <1>1, <2>1 DEF AnalysisInv, AnalysisTypes, Analysing, Asked, SwitchKept, switchVars
  <1>4. CASE analysis # None
    <2>1. analysis \in States
      BY <1>4 DEF AnalysisInv, AnalysisTypes
    <2>2. /\ analysis' \in States /\ analysis'.id = analysis.id /\ analysis'.samples = analysis.samples
          /\ \/ analysis'.result = analysis.result
             \/ /\ analysis.id = q.of /\ config # None /\ config.id = q.config
                /\ analysis'.result = [config |-> q.config, samples |-> q.samples]
      <3> DEFINE result == [config |-> q.config, samples |-> q.samples]
      <3>1. result \in Results
        BY <1>2 DEF Calls, Results
      <3>2. /\ [analysis EXCEPT !.busy = FALSE] \in States
            /\ [analysis EXCEPT !.busy = FALSE, !.result = analysis.result] \in States
            /\ [analysis EXCEPT !.busy = FALSE, !.result = result] \in States
        BY <2>1, <3>1 DEF States
      <3>3. CASE UNCHANGED analysis
        BY <2>1, <3>3
      <3>4. CASE analysis' = [analysis EXCEPT !.busy = FALSE] \/ analysis' = [analysis EXCEPT !.busy = FALSE, !.result = @]
        BY <2>1, <3>2, <3>4 DEF States
      <3>5. CASE /\ analysis.id = q.of /\ config # None /\ config.id = q.config
                 /\ analysis' = [analysis EXCEPT !.busy = FALSE, !.result = result]
        BY <2>1, <3>2, <3>5 DEF States
      <3> QED
        BY <1>4, <3>3, <3>4, <3>5 DEF Answer, NoAnswer, OfCurrentState
    <2>3. AnalysisTypes'
      BY <1>1, <2>2 DEF AnalysisInv, AnalysisTypes, switchVars
    <2>4. analysis'.result # None =>
              config.id = analysis'.result.config /\ \A n \in analysis'.result.samples : n > floor
      BY <1>4, <2>2 DEF AnalysisInv, Analysing, Asked
    <2>5. Analysing'
      BY <1>1, <1>4, <2>2, <2>4 DEF AnalysisInv, Analysing, Listening, switchVars
    <2>6. Asked'
      BY <1>1, <1>4, <2>2 DEF AnalysisInv, Asked
    <2> QED
      BY <1>1, <2>3, <2>5, <2>6 DEF AnalysisInv, SwitchKept, switchVars
  <1> QED
    BY <1>3, <1>4

LEMMA AbortedFacts ==
  ASSUME requests \subseteq Calls, NEW which
  PROVE  /\ Aborted(which) \subseteq Calls
         /\ \A a \in Aborted(which) : \E q \in requests : a.of = q.of /\ a.samples = q.samples
  BY DEF Aborted, Calls

(* Steps that only abort requests, or also drop the State. *)
LEMMA AbortingAnalysis ==
  ASSUME AnalysisInv, NEW which, requests' = requests \/ requests' = Aborted(which),
         analysis' = None \/ UNCHANGED <<analysis, up, enabled, config, paused, floor>>,
         AnalysisTypes', SwitchKept', UNCHANGED <<published, offLimits>>
  PROVE  AnalysisInv'
  <1>1. \A a \in requests' : \E q \in requests : a.of = q.of /\ a.samples = q.samples
    BY AbortedFacts DEF AnalysisInv, AnalysisTypes
  <1>2. Analysing'
    BY DEF AnalysisInv, Analysing, Listening
  <1>3. Asked'
    BY <1>1 DEF AnalysisInv, Asked
  <1> QED
    BY <1>2, <1>3 DEF AnalysisInv

LEMMA SwitchStepAnalysis ==
  ASSUME StreamInv, AnalysisInv, NEW v \in Switches, SetModule(v)
  PROVE  AnalysisInv'
  <1>1. published \in Nat /\ UNCHANGED <<up, published, config, reloading, configs, offLimits>>
    BY DEF StreamInv, HubTypes, SetModule, hubVars
  <1>2. CASE v = "on"
    <2>1. /\ file' = "on" /\ enabled' = "on" /\ answered' = "on" /\ paused' = FALSE
          /\ UNCHANGED <<analysis, requests, floor>>
      BY <1>2 DEF SetModule, SetTenantEnabled, Persist
    <2>2. AnalysisTypes'
      BY <1>1, <2>1 DEF AnalysisInv, AnalysisTypes, Switches
    <2>3. Analysing' /\ Asked' /\ SwitchKept'
      BY <1>1, <2>1 DEF AnalysisInv, Analysing, Asked, SwitchKept, Listening
    <2> QED
      BY <2>2, <2>3 DEF AnalysisInv
  <1>3. CASE v = "off"
    <2>1. /\ file' = "off" /\ enabled' = "off" /\ answered' = "off" /\ paused' = TRUE /\ floor' = published
          /\ requests' = requests \/ requests' = Aborted({twinRequest})
          /\ analysis' = IF config = None THEN analysis ELSE None
      BY <1>3 DEF SetModule, SetTenantEnabled, Persist
    <2>2. analysis' = None
      BY <2>1 DEF AnalysisInv, Analysing, Listening
    <2>3. requests' \subseteq Calls
      BY <2>1, AbortedFacts DEF AnalysisInv, AnalysisTypes
    <2>4. AnalysisTypes' /\ SwitchKept'
      BY <1>1, <2>1, <2>2, <2>3 DEF AnalysisInv, AnalysisTypes, SwitchKept, Switches
    <2> QED
      BY <1>1, <2>1, <2>2, <2>4, AbortingAnalysis
  <1> QED
    BY <1>2, <1>3 DEF Switches

LEMMA DownAnalysis ==
  ASSUME AnalysisInv, Crash \/ \E v \in Switches : CrashInSet(v)
  PROVE  AnalysisInv'
  <1>1. Down
    BY DEF Crash, CrashInSet
  <1>2. AnalysisTypes'
    BY <1>1 DEF Crash, CrashInSet, Down, AnalysisInv, AnalysisTypes, Switches, switchVars
  <1>3. Analysing' /\ Asked'
    BY <1>1 DEF Down, Analysing, Asked
  <1>4. SwitchKept'
    BY <1>1 DEF Crash, CrashInSet, Down, AnalysisInv, SwitchKept, switchVars
  <1> QED
    BY <1>2, <1>3, <1>4 DEF AnalysisInv

LEMMA AnalysisStepAnalysis ==
  ASSUME StreamInv, AnalysisInv, AnalysisNext
  PROVE  AnalysisInv'
  <1>0. published \in Nat
    BY DEF StreamInv, HubTypes
  <1>1. ASSUME NEW q \in requests, Timeout(q)
        PROVE  AnalysisInv'
    <2>1. /\ requests' = Aborted({q.id})
          /\ UNCHANGED <<up, published, paused, config, reloading, analysis, configs, switchVars, offLimits, floor>>
      BY <1>1 DEF Timeout, hubVars
    <2>2. AnalysisTypes' /\ SwitchKept'
      BY <2>1, AbortedFacts DEF AnalysisInv, AnalysisTypes, SwitchKept, switchVars
    <2> QED
      BY <2>1, <2>2, AbortingAnalysis DEF switchVars
  <1>2. CASE Disconnect
    <2>1. /\ requests' = Aborted({q.id : q \in requests}) /\ analysis' = None
          /\ config' = None /\ reloading' = TRUE /\ floor' = published
          /\ UNCHANGED <<up, published, paused, configs, switchVars, offLimits>> /\ up
      BY <1>2 DEF Disconnect, hubVars
    <2>2. AnalysisTypes' /\ SwitchKept'
      BY <1>0, <2>1, AbortedFacts DEF AnalysisInv, AnalysisTypes, SwitchKept, switchVars
    <2> QED
      BY <2>1, <2>2, AbortingAnalysis
  <1>3. ASSUME NEW s \in BOOLEAN, Configure(s)
        PROVE  AnalysisInv'
    <2>1. /\ configs' = configs + 1 /\ config' = [id |-> configs', scoped |-> s] /\ reloading' = FALSE
          /\ UNCHANGED <<up, published, paused, analysis, requests, switchVars, offLimits, floor>>
          /\ reloading
      BY <1>3 DEF Configure, hubVars
    <2>2. analysis = None
      BY <2>1 DEF AnalysisInv, SwitchKept, Analysing, Listening
    <2>3. AnalysisTypes'
      <3>1. config' \in Configs /\ configs' \in Nat
        BY <2>1 DEF AnalysisInv, AnalysisTypes, Configs
      <3> QED
        BY <2>1, <2>2, <3>1 DEF AnalysisInv, AnalysisTypes, switchVars
    <2>4. SwitchKept'
      BY <2>1 DEF AnalysisInv, SwitchKept, switchVars
    <2> QED
      BY <2>1, <2>2, <2>3, <2>4, AbortingAnalysis
  <1>4. CASE Restart
    <2>1. /\ ~up /\ up' = TRUE /\ enabled' = file /\ reloading' = TRUE /\ floor' = published
          /\ UNCHANGED <<published, file, answered, paused, config, analysis, requests, configs, offLimits>>
      BY <1>4 DEF Restart, hubVars
    <2>2. analysis = None
      BY <2>1 DEF AnalysisInv, Analysing
    <2>3. AnalysisTypes' /\ SwitchKept'
      BY <1>0, <2>1, <2>2 DEF AnalysisInv, AnalysisTypes, SwitchKept
    <2> QED
      BY <2>1, <2>2, <2>3, AbortingAnalysis
  <1> QED
    BY <1>1, <1>2, <1>3, <1>4, EndedAnalysis, SwitchStepAnalysis, DownAnalysis DEF AnalysisNext, Switches

LEMMA LiveInit == Init => StreamInv /\ AnalysisInv
  <1> SUFFICES ASSUME Init PROVE StreamInv /\ AnalysisInv
    OBVIOUS
  <1>1. StreamInv
    BY LiveAssumption
    DEF Init, NoStream, StreamInv, HubTypes, Streams, Streamed, GrantedInTime, StreamInOrder
  <1>2. AnalysisInv
    <2>1. AnalysisTypes
      <3>1. /\ up = TRUE /\ reloading = TRUE /\ paused = FALSE /\ configs = 0 /\ published = 0 /\ floor = 0
            /\ file = "on" /\ enabled = "on" /\ answered = "on"
            /\ config = None /\ analysis = None /\ requests = {} /\ offLimits = {}
        BY DEF Init
      <3>2. requests \subseteq Calls /\ offLimits \subseteq 1..published /\ floor \in 0..published
        BY <3>1
      <3> QED
        BY <3>1, <3>2 DEF AnalysisTypes, Switches
    <2>2. Analysing /\ Asked /\ SwitchKept
      BY DEF Init, Analysing, Asked, SwitchKept
    <2> QED
      BY <2>1, <2>2 DEF AnalysisInv
  <1> QED
    BY <1>1, <1>2

LEMMA LiveStep == StreamInv /\ AnalysisInv /\ [Next]_vars => (StreamInv /\ AnalysisInv)'
  <1> SUFFICES ASSUME StreamInv, AnalysisInv, [Next]_vars PROVE (StreamInv /\ AnalysisInv)'
    OBVIOUS
  <1>1. CASE UNCHANGED vars
    BY <1>1 DEF vars, hubVars, aiVars, switchVars, StreamInv, HubTypes, Streamed, GrantedInTime, StreamInOrder,
                AnalysisInv, AnalysisTypes, Analysing, Asked, SwitchKept, Listening
  <1>2. CASE StreamNext
    BY <1>2, StreamStepStream, StreamStepAnalysis
  <1>3. CASE AnalysisNext
    BY <1>3, AnalysisStepStream, AnalysisStepAnalysis
  <1>4. CASE \E p \in Payloads : Publish(p)
    BY <1>4, PublishStream, PublishAnalysis
  <1> QED
    BY <1>1, <1>2, <1>3, <1>4 DEF Next

(* The inductive invariant of the hub, its streams and the analysis.       *)
THEOREM LiveInvariance == Spec => [](StreamInv /\ AnalysisInv)
  BY LiveInit, LiveStep, PTL DEF Spec

(* Every stream writes the hub's events in order and none twice.           *)
THEOREM StreamsInOrder == Spec => []StreamInOrder
  <1>1. StreamInv => StreamInOrder
    BY DEF StreamInv
  <1> QED
    BY <1>1, LiveInvariance, PTL

(* assertManagementRead comes after the item is taken: a manager who lost  *)
(* the rights is sent nothing published later.                             *)
THEOREM RevokedAtOnce == Spec => []RevokedSeesNoMore
  <1>1. StreamInv => RevokedSeesNoMore
    BY DEF StreamInv, GrantedInTime, RevokedSeesNoMore
  <1> QED
    BY <1>1, LiveInvariance, PTL

(* latest() returns nothing that a reload, an encrypted message or a pause *)
(* has made obsolete, however late the provider answers.                   *)
THEOREM LateAnswersNeverShow == Spec => []ExposedIsCurrent
  <1>1. AnalysisInv => ExposedIsCurrent
    BY DEF AnalysisInv, Analysing, Listening, Exposed, ExposedIsCurrent
  <1> QED
    BY <1>1, LiveInvariance, PTL

(* What was published while the owner had AI off is never sent to the      *)
(* provider, across restarts that forget pausedTenants.                    *)
THEOREM OffMeansOff == Spec => []PauseHolds
  <1>1. AnalysisInv => PauseHolds
    BY DEF AnalysisInv, Analysing, Asked, SwitchKept, Exposed, PauseHolds
  <1> QED
    BY <1>1, LiveInvariance, PTL

-------------------------------------------------------------------------------
(* Authority. *)
Stages == {"idle", "policy", "twin", "lookup", "read", "resume", "wait", "filter", "recheck"}
Maybe == Grants \cup {Nil}
Reqs == [at : Stages, began : Nat, since : Nat, owner : BOOLEAN, read : Maybe, rev : Nat,
         challenge : Nat \cup {Nil}]

(* What the history says of the present. *)
ChainInv ==
    /\ guard \in Guards /\ now \in Nat /\ changes \in Nat /\ owner \in BOOLEAN /\ grant \in Maybe
    /\ present \in [Grants -> Int] /\ owned \in Int
    /\ \A g \in Grants : present[g] <= now
    /\ grant # Nil => present[grant] = now
    /\ owned <= now /\ (owner => owned = now)

(* A grant that the chain recorded at a time or later. *)
Backed(g, since) == g \in Maybe /\ since \in Nat /\ (g # Nil => present[g] >= since)

(* What a request has read was on the chain after it asked. *)
RequestOK(q) ==
    /\ q.began <= now /\ q.since <= now /\ q.rev <= changes
    /\ q.owner => owned >= q.began
    /\ q.at = "resume" => Backed(q.read, q.since)
    /\ q.at = "recheck" /\ q.rev = changes => q.read = grant

RequestsInv == req \in [Requests -> Reqs] /\ \A r \in Requests : RequestOK(req[r])

(* An entry lives for the period of its guard, from when it was asked for  *)
(* (roles) or from when the answer came.                                   *)
Remembers(e, kind) ==
    /\ Backed(e.value, e.since) /\ e.done \in Nat
    /\ kind = "role" => e.done = e.since
    /\ kind # "public" => e.expires = e.done + Ttl[kind]

EntriesInv ==
    /\ guard # "idle" /\ cache # Nil => Remembers(cache, guard)
    /\ guard = "session" => \A s \in sessions : Remembers(s, "session")

(* A challenge is open, being answered, or spent.                          *)
Answering(r) == guard = "session" /\ req[r].at \in {"read", "resume"}

LoginInv ==
    /\ issued \in 0..MaxChallenges
    /\ opened \in [1..MaxChallenges -> 0..1]
    /\ \A c \in 1..MaxChallenges : c > issued => opened[c] = 0
    /\ \A c \in challenges : c.id \in 1..issued /\ opened[c.id] = 0
    /\ \A c, d \in challenges : c.id = d.id => c = d
    /\ \A r \in Requests : Answering(r) =>
          /\ req[r].challenge \in 1..issued /\ opened[req[r].challenge] = 0
          /\ \A c \in challenges : c.id # req[r].challenge
    /\ \A r, q \in Requests : Answering(r) /\ Answering(q) /\ req[r].challenge = req[q].challenge => r = q
    /\ IsFiniteSet(challenges) /\ Cardinality(challenges) <= Capacity
    /\ IsFiniteSet(sessions) /\ Cardinality(sessions) <= Capacity

AuthInv == ChainInv /\ RequestsInv /\ EntriesInv /\ LoginInv /\ ActsOnRecentAuthority

LEMMA PeriodFacts == AuthInv /\ guard # "idle" => Ttl[guard] \in Nat \ {0}
  BY AuthorityAssumption DEF AuthInv, ChainInv

LEMMA IdleFacts == AuthInv => Idle \in Reqs /\ RequestOK(Idle) /\ Idle.at = "idle"
  BY DEF AuthInv, ChainInv, Idle, Reqs, Stages, Maybe, RequestOK

LEMMA StartFacts ==
  ASSUME AuthInv
  PROVE  /\ \A at \in {"policy", "twin"} :
                [Idle EXCEPT !.at = at, !.began = now] \in Reqs /\ RequestOK([Idle EXCEPT !.at = at, !.began = now])
         /\ [Idle EXCEPT !.at = "read", !.since = now] \in Reqs
            /\ RequestOK([Idle EXCEPT !.at = "read", !.since = now])
         /\ [Idle EXCEPT !.at = "wait"] \in Reqs /\ RequestOK([Idle EXCEPT !.at = "wait"])
  <1>1. /\ now \in Nat /\ changes \in Nat /\ Idle \in Reqs
        /\ Idle.began = 0 /\ Idle.since = 0 /\ Idle.rev = 0 /\ ~Idle.owner
    BY IdleFacts DEF AuthInv, ChainInv, Idle
  <1>2. ASSUME NEW q \in Reqs, q.at \in {"policy", "twin", "read", "wait"}, q.began \in {0, now}, q.since \in {0, now},
               q.rev = 0, ~q.owner
        PROVE  RequestOK(q)
    BY <1>1, <1>2 DEF RequestOK
  <1>3. ASSUME NEW at \in {"policy", "twin"}
        PROVE  [Idle EXCEPT !.at = at, !.began = now] \in Reqs /\ RequestOK([Idle EXCEPT !.at = at, !.began = now])
    <2> DEFINE q == [Idle EXCEPT !.at = at, !.began = now]
    <2>1. q \in Reqs /\ q.at = at /\ q.began = now /\ q.since = 0 /\ q.rev = 0 /\ ~q.owner
      BY <1>1 DEF Reqs, Stages
    <2> HIDE DEF q
    <2> QED
      BY <1>2, <2>1 DEF q
  <1>4. [Idle EXCEPT !.at = "read", !.since = now] \in Reqs /\ RequestOK([Idle EXCEPT !.at = "read", !.since = now])
    <2> DEFINE q == [Idle EXCEPT !.at = "read", !.since = now]
    <2>1. q \in Reqs /\ q.at = "read" /\ q.began = 0 /\ q.since = now /\ q.rev = 0 /\ ~q.owner
      BY <1>1 DEF Reqs, Stages
    <2> HIDE DEF q
    <2> QED
      BY <1>2, <2>1 DEF q
  <1>5. [Idle EXCEPT !.at = "wait"] \in Reqs /\ RequestOK([Idle EXCEPT !.at = "wait"])
    <2> DEFINE q == [Idle EXCEPT !.at = "wait"]
    <2>1. q \in Reqs /\ q.at = "wait" /\ q.began = 0 /\ q.since = 0 /\ q.rev = 0 /\ ~q.owner
      BY <1>1 DEF Reqs, Stages
    <2> HIDE DEF q
    <2> QED
      BY <1>2, <2>1 DEF q
  <1> QED
    BY <1>3, <1>4, <1>5

LEMMA DecideFacts ==
  ASSUME NEW r, NEW g, NEW t, NEW since, NEW done, Decide(r, g, t, since, done), UNCHANGED <<guard, chainVars>>,
         g # Nil => present[g] + Ttl[guard] + (done - since) > t
  PROVE  ActsOnRecentAuthority' /\ req' = [req EXCEPT ![r] = Idle]
  <1>1. CASE Holds(g, t)
    BY <1>1 DEF Decide, Granted, Holds, ActsOnRecentAuthority, chainVars
  <1>2. CASE ~Holds(g, t)
    BY <1>2 DEF Decide, ActsOnRecentAuthority
  <1> QED
    BY <1>1, <1>2

LEMMA OwnerFacts ==
  ASSUME NEW t, NEW since, NEW done, decision' = Granted(Nil, t, since, done), UNCHANGED owned, owned >= since
  PROVE  ActsOnRecentAuthority'
  BY DEF Granted, ActsOnRecentAuthority

(* Steps of requests, while the chain does not change. *)
Still == UNCHANGED <<guard, chainVars>>

LEMMA EntriesFrame ==
  ASSUME EntriesInv, Still, UNCHANGED <<cache, sessions>>
  PROVE  EntriesInv'
  BY DEF Still, chainVars, EntriesInv, Remembers, Backed

LEMMA LoginFrame ==
  ASSUME LoginInv, UNCHANGED <<guard, login>>,
         \A r \in Requests : Answering(r)' => Answering(r) /\ req'[r].challenge = req[r].challenge
  PROVE  LoginInv'
  BY DEF LoginInv, login

LEMMA RequestStep ==
  ASSUME AuthInv, Still, NEW r \in Requests, NEW q \in Reqs, RequestOK(q), req' = [req EXCEPT ![r] = q]
  PROVE  ChainInv' /\ RequestsInv'
  <1>1. ChainInv'
    BY DEF AuthInv, ChainInv, Still, chainVars
  <1>2. req' \in [Requests -> Reqs] /\ \A x \in Requests : req'[x] \in {q, req[x]}
    BY DEF AuthInv, RequestsInv
  <1>3. \A x \in Requests : RequestOK(req[x])'
    BY <1>2 DEF AuthInv, RequestsInv, RequestOK, Backed, Still, chainVars
  <1> QED
    BY <1>1, <1>2, <1>3 DEF RequestsInv

LEMMA RequestsEnd ==
  ASSUME AuthInv, Still, NEW all, req' = [w \in Requests |-> IF w \in all THEN Idle ELSE req[w]]
  PROVE  /\ ChainInv' /\ RequestsInv'
         /\ \A r \in Requests : Answering(r)' => Answering(r) /\ req'[r].challenge = req[r].challenge
  <1>1. ChainInv'
    BY DEF AuthInv, ChainInv, Still, chainVars
  <1>2. req' \in [Requests -> Reqs] /\ \A x \in Requests : req'[x] = Idle \/ req'[x] = req[x]
    BY IdleFacts DEF AuthInv, RequestsInv
  <1>3. \A x \in Requests : RequestOK(req[x])'
    BY <1>2, IdleFacts DEF AuthInv, RequestsInv, RequestOK, Backed, Still, chainVars
  <1>4. \A r \in Requests : Answering(r)' => Answering(r) /\ req'[r].challenge = req[r].challenge
    BY <1>2, IdleFacts DEF Answering, Still
  <1> QED
    BY <1>1, <1>2, <1>3, <1>4 DEF RequestsInv

(* One request goes on; no login is involved. *)
LEMMA QuietStep ==
  ASSUME AuthInv, Still, UNCHANGED login, NEW r \in Requests, NEW q \in Reqs, RequestOK(q),
         req' = [req EXCEPT ![r] = q],
         q.at \in {"read", "resume"} => guard # "session" \/ (Answering(r) /\ q.challenge = req[r].challenge),
         EntriesInv', ActsOnRecentAuthority'
  PROVE  AuthInv'
  <1>1. ChainInv' /\ RequestsInv'
    BY RequestStep
  <1>2. \A x \in Requests : x # r => req'[x] = req[x]
    BY DEF AuthInv, RequestsInv
  <1>3. req'[r] = q
    BY DEF AuthInv, RequestsInv
  <1>4. \A x \in Requests : Answering(x)' => Answering(x) /\ req'[x].challenge = req[x].challenge
    BY <1>2, <1>3 DEF Answering, Still
  <1>5. LoginInv'
    BY <1>4, LoginFrame DEF AuthInv, Still
  <1> QED
    BY <1>1, <1>5 DEF AuthInv

LEMMA EndStep ==
  ASSUME AuthInv, Still, UNCHANGED login, NEW r \in Requests, req' = [req EXCEPT ![r] = Idle],
         EntriesInv', ActsOnRecentAuthority'
  PROVE  AuthInv'
  BY QuietStep, IdleFacts

LEMMA Captured ==
  ASSUME AuthInv, NEW r \in Requests, NEW kind, Capture(r, kind)
  PROVE  AuthInv'
  <1> DEFINE q == [req[r] EXCEPT !.at = "resume", !.read = grant]
  <1>1. /\ req[r] \in Reqs /\ RequestOK(req[r]) /\ now \in Nat /\ grant \in Maybe
        /\ grant # Nil => present[grant] = now
    BY DEF AuthInv, RequestsInv, ChainInv
  <1>2. /\ q \in Reqs /\ q.at = "resume" /\ q.read = grant /\ q.since = req[r].since /\ q.began = req[r].began
        /\ q.owner = req[r].owner /\ q.rev = req[r].rev /\ q.challenge = req[r].challenge
        /\ req[r].since \in Nat
    BY <1>1 DEF Reqs, Stages
  <1>3. req' = [req EXCEPT ![r] = q] /\ req[r].at = "read" /\ Still /\ UNCHANGED <<cache, login>> /\ decision' = Nil
    BY DEF Capture, At, Still
  <1> HIDE DEF q
  <1>4. RequestOK(q)
    BY <1>1, <1>2 DEF RequestOK, Backed
  <1>5. EntriesInv' /\ ActsOnRecentAuthority'
    BY <1>3, EntriesFrame DEF AuthInv, login, ActsOnRecentAuthority
  <1>6. guard # "session" \/ (Answering(r) /\ q.challenge = req[r].challenge)
    BY <1>2, <1>3 DEF Answering
  <1> QED
    BY <1>2, <1>3, <1>4, <1>5, <1>6, QuietStep

LEMMA RefuseAuth ==
  ASSUME AuthInv, NEW r \in Requests, Refuse(r)
  PROVE  AuthInv'
  <1>1. Still /\ UNCHANGED <<cache, login>> /\ decision' = Nil
    BY DEF Refuse, Still
  <1>2. EntriesInv' /\ ActsOnRecentAuthority'
    BY <1>1, EntriesFrame DEF AuthInv, login, ActsOnRecentAuthority
  <1>3. PICK all : req' = [w \in Requests |-> IF w \in all THEN Idle ELSE req[w]]
    BY DEF Refuse
  <1> QED
    BY <1>1, <1>2, <1>3, RequestsEnd, LoginFrame DEF AuthInv, Still

(* The role policy. *)
LEMMA RoleAsked ==
  ASSUME AuthInv, NEW r \in Requests, AskRole(r) \/ PolicyRights(r) \/ ReadTwin(r)
  PROVE  AuthInv'
  <1>1. Still /\ UNCHANGED <<cache, login>> /\ guard = "role"
    BY DEF AskRole, PolicyRights, ReadTwin, Still
  <1>2. EntriesInv'
    BY <1>1, EntriesFrame DEF AuthInv, login
  <1>3. /\ req[r] \in Reqs /\ RequestOK(req[r]) /\ now \in Nat /\ changes \in Nat /\ owner \in BOOLEAN
        /\ owner => owned = now
    BY DEF AuthInv, RequestsInv, ChainInv
  <1>4. CASE AskRole(r)
    <2>1. PICK at \in {"policy", "twin"} : req' = [req EXCEPT ![r] = [Idle EXCEPT !.at = at, !.began = now]]
      BY <1>4 DEF AskRole
    <2> DEFINE q == [Idle EXCEPT !.at = at, !.began = now]
    <2>2. q \in Reqs /\ RequestOK(q)
      BY <1>3, StartFacts
    <2>3. ActsOnRecentAuthority'
      BY <1>4 DEF AskRole, ActsOnRecentAuthority
    <2> HIDE DEF q
    <2> QED
      BY <1>1, <1>2, <2>1, <2>2, <2>3, QuietStep DEF q
  <1>5. CASE PolicyRights(r) /\ owner
    <2>1. ActsOnRecentAuthority'
      BY <1>1, <1>3, <1>5, OwnerFacts DEF PolicyRights, RequestOK, Still, chainVars
    <2> QED
      BY <1>1, <1>2, <1>5, <2>1, EndStep DEF PolicyRights
  <1>6. CASE PolicyRights(r) /\ ~owner
    <2> DEFINE q == [req[r] EXCEPT !.at = "twin"]
    <2>1. q \in Reqs /\ RequestOK(q) /\ q.at = "twin"
      BY <1>3 DEF Reqs, Stages, RequestOK
    <2>2. req' = [req EXCEPT ![r] = q] /\ ActsOnRecentAuthority'
      BY <1>6 DEF PolicyRights, ActsOnRecentAuthority
    <2> HIDE DEF q
    <2> QED
      BY <1>1, <1>2, <2>1, <2>2, QuietStep
  <1>7. CASE ReadTwin(r)
    <2> DEFINE q == [req[r] EXCEPT !.at = "lookup", !.owner = owner]
    <2>1. q \in Reqs /\ RequestOK(q) /\ q.at = "lookup"
      BY <1>3 DEF Reqs, Stages, RequestOK
    <2>2. req' = [req EXCEPT ![r] = q] /\ ActsOnRecentAuthority'
      BY <1>7 DEF ReadTwin, ActsOnRecentAuthority
    <2> HIDE DEF q
    <2> QED
      BY <1>1, <1>2, <2>1, <2>2, QuietStep
  <1> QED
    BY <1>4, <1>5, <1>6, <1>7

LEMMA AssertAllowedFacts ==
  ASSUME AuthInv, Still, NEW r \in Requests, NEW g, NEW t, NEW since, AssertAllowed(r, g, t, since), since \in Nat,
         g # Nil => present[g] + Ttl[guard] + (since - since) > t
  PROVE  ActsOnRecentAuthority' /\ req' = [req EXCEPT ![r] = Idle]
  <1>1. CASE req[r].owner
    <2>1. owned >= req[r].began
      BY <1>1 DEF AuthInv, RequestsInv, RequestOK
    <2> QED
      BY <1>1, <2>1, OwnerFacts DEF AssertAllowed, Still, chainVars
  <1>2. CASE ~req[r].owner
    BY <1>2, DecideFacts DEF AssertAllowed, Still
  <1> QED
    BY <1>1, <1>2

LEMMA RoleLookedUp ==
  ASSUME AuthInv, NEW r \in Requests, LookupRole(r)
  PROVE  AuthInv'
  <1>1. Still /\ UNCHANGED <<cache, login>> /\ guard = "role"
    BY DEF LookupRole, Still
  <1>2. EntriesInv'
    BY <1>1, EntriesFrame DEF AuthInv, login
  <1>3. CASE cache # Nil /\ cache.expires > now
    <2>1. /\ Backed(cache.value, cache.since) /\ cache.expires = cache.since + Ttl[guard]
          /\ present \in [Grants -> Int] /\ now \in Nat /\ Ttl[guard] \in Nat
      BY <1>1, <1>3, PeriodFacts DEF AuthInv, EntriesInv, Remembers, ChainInv
    <2>2. cache.value # Nil => present[cache.value] + Ttl[guard] + (cache.since - cache.since) > now
      BY <1>3, <2>1 DEF Backed, Maybe
    <2>3. AssertAllowed(r, cache.value, now, cache.since)
      BY <1>3 DEF LookupRole
    <2> QED
      BY <1>1, <1>2, <2>1, <2>2, <2>3, AssertAllowedFacts, EndStep DEF Backed
  <1>4. CASE ~(cache # Nil /\ cache.expires > now)
    <2> DEFINE q == [req[r] EXCEPT !.at = "read", !.since = now]
    <2>1. req[r] \in Reqs /\ RequestOK(req[r]) /\ now \in Nat
      BY DEF AuthInv, RequestsInv, ChainInv
    <2>2. /\ q \in Reqs /\ q.at = "read" /\ q.since = now /\ q.began = req[r].began
          /\ q.owner = req[r].owner /\ q.rev = req[r].rev
      BY <2>1 DEF Reqs, Stages
    <2>3. req' = [req EXCEPT ![r] = q] /\ decision' = Nil
      BY <1>4 DEF LookupRole
    <2> HIDE DEF q
    <2>4. RequestOK(q)
      BY <2>1, <2>2 DEF RequestOK
    <2> QED
      BY <1>1, <1>2, <2>2, <2>3, <2>4, QuietStep DEF ActsOnRecentAuthority
  <1> QED
    BY <1>3, <1>4

LEMMA RoleStored ==
  ASSUME AuthInv, NEW r \in Requests, StoreGrants(r)
  PROVE  AuthInv'
  <1> DEFINE s == req[r].since
             g == req[r].read
  <1>1. /\ Still /\ UNCHANGED login /\ guard = "role"
        /\ cache' = [value |-> g, expires |-> s + Ttl["role"], since |-> s, done |-> s]
        /\ AssertAllowed(r, g, s, s)
    BY DEF StoreGrants, Still
  <1>2. Backed(g, s) /\ present \in [Grants -> Int] /\ Ttl[guard] \in Nat \ {0}
    BY <1>1, PeriodFacts DEF StoreGrants, At, AuthInv, RequestsInv, RequestOK, ChainInv
  <1> HIDE DEF s, g
  <1>3. EntriesInv'
    BY <1>1, <1>2 DEF EntriesInv, Remembers, Backed, Still, chainVars
  <1>4. g # Nil => present[g] + Ttl[guard] + (s - s) > s
    BY <1>2 DEF Backed, Maybe
  <1> QED
    BY <1>1, <1>2, <1>3, <1>4, AssertAllowedFacts, EndStep DEF Backed

(* Messages of connectors. *)
LEMMA ConnectorAsked ==
  ASSUME AuthInv, NEW r \in Requests, AskConnector(r)
  PROVE  AuthInv'
  <1>1. Still /\ UNCHANGED <<cache, login>> /\ guard = "connector"
    BY DEF AskConnector, Still
  <1>2. EntriesInv'
    BY <1>1, EntriesFrame DEF AuthInv, login
  <1>3. CASE cache # Nil /\ cache.expires > now
    <2>1. /\ Backed(cache.value, cache.since) /\ cache.done \in Nat /\ cache.expires = cache.done + Ttl[guard]
          /\ present \in [Grants -> Int] /\ now \in Nat /\ Ttl[guard] \in Nat
      BY <1>1, <1>3, PeriodFacts DEF AuthInv, EntriesInv, Remembers, ChainInv
    <2>2. cache.value # Nil => present[cache.value] + Ttl[guard] + (cache.done - cache.since) > now
      BY <1>3, <2>1 DEF Backed, Maybe
    <2>3. Decide(r, cache.value, now, cache.since, cache.done)
      BY <1>3 DEF AskConnector
    <2> QED
      BY <1>1, <1>2, <2>2, <2>3, DecideFacts, EndStep DEF Still
  <1>4. CASE ~(cache # Nil /\ cache.expires > now)
    <2>1. PICK q \in {[Idle EXCEPT !.at = "read", !.since = now], [Idle EXCEPT !.at = "wait"]} :
              req' = [req EXCEPT ![r] = q]
      BY <1>4 DEF AskConnector
    <2>2. q \in Reqs /\ RequestOK(q) /\ decision' = Nil
      BY <1>4, StartFacts DEF AskConnector
    <2> QED
      BY <1>1, <1>2, <2>1, <2>2, QuietStep DEF ActsOnRecentAuthority
  <1> QED
    BY <1>3, <1>4

LEMMA ConnectorVerified ==
  ASSUME AuthInv, NEW r \in Requests, VerifiedSubscription(r)
  PROVE  AuthInv'
  <1> DEFINE s == req[r].since
             g == req[r].read
             all == {r} \cup {w \in Requests : At(w, "wait")}
  <1>1. /\ Still /\ UNCHANGED login /\ guard = "connector"
        /\ cache' = IF g # Nil THEN [value |-> g, expires |-> now + Ttl["connector"], since |-> s, done |-> now] ELSE cache
        /\ req' = [w \in Requests |-> IF w \in all THEN Idle ELSE req[w]]
        /\ decision' = IF g # Nil THEN Granted(g, now, s, now) ELSE Nil
    BY DEF VerifiedSubscription, Still
  <1>2. Backed(g, s) /\ present \in [Grants -> Int] /\ Ttl[guard] \in Nat \ {0} /\ now \in Nat
    BY <1>1, PeriodFacts DEF VerifiedSubscription, At, AuthInv, RequestsInv, RequestOK, ChainInv
  <1> HIDE DEF s, g, all
  <1>3. EntriesInv'
    BY <1>1, <1>2 DEF AuthInv, EntriesInv, Remembers, Backed, Still, chainVars
  <1>4. ActsOnRecentAuthority'
    <2>1. g # Nil => present[g] + Ttl[guard] + (now - s) > now
      BY <1>2 DEF Backed, Maybe
    <2> QED
      BY <1>1, <2>1 DEF ActsOnRecentAuthority, Granted, Holds, Still, chainVars
  <1> QED
    BY <1>1, <1>3, <1>4, RequestsEnd, LoginFrame DEF AuthInv, Still

(* Anonymous reads and streams. *)
LEMMA PublicAsked ==
  ASSUME AuthInv, NEW r \in Requests, AskPublic(r)
  PROVE  AuthInv'
  <1>1. Still /\ UNCHANGED <<cache, login>> /\ guard = "public"
    BY DEF AskPublic, Still
  <1>2. EntriesInv'
    BY <1>1, EntriesFrame DEF AuthInv, login
  <1>3. CASE ~canonical /\ cache # Nil /\ now - cache.done < Ttl["public"]
    <2>1. /\ Backed(cache.value, cache.since) /\ cache.done \in Nat /\ now - cache.done < Ttl[guard]
          /\ present \in [Grants -> Int] /\ now \in Nat /\ Ttl[guard] \in Nat
      BY <1>1, <1>3, PeriodFacts DEF AuthInv, EntriesInv, Remembers, ChainInv
    <2>2. cache.value # Nil => present[cache.value] + Ttl[guard] + (cache.done - cache.since) > now
      BY <2>1 DEF Backed, Maybe
    <2>3. Decide(r, cache.value, now, cache.since, cache.done)
      BY <1>3 DEF AskPublic, LookupPublic
    <2> QED
      BY <1>1, <1>2, <2>2, <2>3, DecideFacts, EndStep DEF Still
  <1>4. CASE ~(~canonical /\ cache # Nil /\ now - cache.done < Ttl["public"])
    <2>1. req' = [req EXCEPT ![r] = [Idle EXCEPT !.at = "read", !.since = now]] /\ decision' = Nil
      BY <1>4 DEF AskPublic, LookupPublic
    <2> QED
      BY <1>1, <1>2, <2>1, StartFacts, QuietStep DEF ActsOnRecentAuthority
  <1> QED
    BY <1>3, <1>4

LEMMA PublicStored ==
  ASSUME AuthInv, NEW r \in Requests, StorePublicAccess(r)
  PROVE  AuthInv'
  <1> DEFINE s == req[r].since
             g == req[r].read
  <1>1. /\ Still /\ UNCHANGED login /\ guard = "public"
        /\ cache' = IF canonical THEN cache ELSE [value |-> g, since |-> s, done |-> now]
        /\ \/ Decide(r, g, now, s, now)
           \/ req' = [req EXCEPT ![r].at = "filter"] /\ decision' = Nil
    BY DEF StorePublicAccess, Still
  <1>2. Backed(g, s) /\ present \in [Grants -> Int] /\ Ttl[guard] \in Nat \ {0} /\ now \in Nat
    BY <1>1, PeriodFacts DEF StorePublicAccess, At, AuthInv, RequestsInv, RequestOK, ChainInv
  <1>3. req[r] \in Reqs /\ RequestOK(req[r])
    BY DEF AuthInv, RequestsInv
  <1> HIDE DEF s, g
  <1>4. EntriesInv'
    BY <1>1, <1>2 DEF AuthInv, EntriesInv, Remembers, Backed, Still, chainVars
  <1>5. CASE Decide(r, g, now, s, now)
    <2>1. g # Nil => present[g] + Ttl[guard] + (now - s) > now
      BY <1>2 DEF Backed, Maybe
    <2> QED
      BY <1>1, <1>4, <1>5, <2>1, DecideFacts, EndStep DEF Still
  <1>6. CASE req' = [req EXCEPT ![r].at = "filter"] /\ decision' = Nil
    <2> DEFINE q == [req[r] EXCEPT !.at = "filter"]
    <2>1. q \in Reqs /\ RequestOK(q) /\ q.at = "filter"
      BY <1>3 DEF Reqs, Stages, RequestOK
    <2>2. req' = [req EXCEPT ![r] = q]
      BY <1>6
    <2> HIDE DEF q
    <2> QED
      BY <1>1, <1>4, <1>6, <2>1, <2>2, QuietStep DEF ActsOnRecentAuthority
  <1> QED
    BY <1>1, <1>5, <1>6

LEMMA PublicFiltered ==
  ASSUME AuthInv, NEW r \in Requests, FilterPublic(r)
  PROVE  AuthInv'
  <1>1. Still /\ UNCHANGED <<cache, login>> /\ guard = "public" /\ decision' = Nil
    BY DEF FilterPublic, Still
  <1>2. EntriesInv' /\ ActsOnRecentAuthority'
    BY <1>1, EntriesFrame DEF AuthInv, login, ActsOnRecentAuthority
  <1>3. req[r] \in Reqs /\ RequestOK(req[r]) /\ grant \in Maybe /\ changes \in Nat
    BY DEF AuthInv, RequestsInv, ChainInv
  <1> DEFINE q == [req[r] EXCEPT !.at = "recheck", !.read = grant, !.rev = changes]
  <1>4. /\ q \in Reqs /\ q.at = "recheck" /\ q.read = grant /\ q.rev = changes
        /\ q.began = req[r].began /\ q.since = req[r].since /\ q.owner = req[r].owner
    BY <1>3 DEF Reqs, Stages
  <1>5. req' = [req EXCEPT ![r] = Idle] \/ req' = [req EXCEPT ![r] = q]
    BY DEF FilterPublic
  <1> HIDE DEF q
  <1>6. RequestOK(q)
    BY <1>3, <1>4 DEF RequestOK
  <1> QED
    BY <1>1, <1>2, <1>4, <1>5, <1>6, QuietStep, EndStep

LEMMA PublicRechecked ==
  ASSUME AuthInv, NEW r \in Requests, RecheckPublic(r)
  PROVE  AuthInv'
  <1> DEFINE g == IF req[r].rev = changes THEN req[r].read ELSE Nil
  <1>1. /\ Still /\ UNCHANGED <<cache, login>> /\ guard = "public" /\ req[r].at = "recheck"
        /\ Decide(r, g, now, now, now)
    BY DEF RecheckPublic, Still, At
  <1>2. EntriesInv'
    BY <1>1, EntriesFrame DEF AuthInv, login
  <1>3. g = Nil \/ g = grant
    BY <1>1 DEF AuthInv, RequestsInv, RequestOK
  <1> HIDE DEF g
  <1>4. Ttl[guard] \in Nat \ {0} /\ now \in Nat /\ (grant # Nil => present[grant] = now)
    BY <1>1, PeriodFacts DEF AuthInv, ChainInv
  <1>5. g # Nil => present[g] + Ttl[guard] + (now - now) > now
    BY <1>3, <1>4
  <1> QED
    BY <1>1, <1>2, <1>5, DecideFacts, EndStep DEF Still

(* The DID login. *)
LEMMA LiveFacts ==
  ASSUME NEW S, IsFiniteSet(S)
  PROVE  Live(S) \subseteq S /\ IsFiniteSet(Live(S)) /\ Cardinality(Live(S)) <= Cardinality(S)
  <1>1. Live(S) \subseteq S
    BY DEF Live
  <1> QED
    BY <1>1, FS_Subset

LEMMA LoginShrinks ==
  ASSUME LoginInv, UNCHANGED <<guard, issued, opened>>, challenges' \subseteq challenges, sessions' \subseteq sessions,
         \A r \in Requests : Answering(r)' => Answering(r) /\ req'[r].challenge = req[r].challenge
  PROVE  LoginInv'
  <1>1. /\ IsFiniteSet(challenges') /\ Cardinality(challenges') <= Cardinality(challenges)
        /\ IsFiniteSet(sessions') /\ Cardinality(sessions') <= Cardinality(sessions)
    BY FS_Subset DEF LoginInv
  <1>2. /\ Cardinality(challenges) \in Nat /\ Cardinality(challenges') \in Nat
        /\ Cardinality(sessions) \in Nat /\ Cardinality(sessions') \in Nat /\ Capacity \in Nat
    BY <1>1, FS_CardinalityType, AuthorityAssumption DEF LoginInv
  <1>3. Cardinality(challenges') <= Capacity /\ Cardinality(sessions') <= Capacity
    BY <1>1, <1>2 DEF LoginInv
  <1> QED
    BY <1>1, <1>3 DEF LoginInv

LEMMA SessionsShrink ==
  ASSUME EntriesInv, Still, UNCHANGED cache, sessions' \subseteq sessions
  PROVE  EntriesInv'
  BY DEF Still, chainVars, EntriesInv, Remembers, Backed

LEMMA ChallengeIssued ==
  ASSUME AuthInv, Challenge
  PROVE  AuthInv'
  <1>1. /\ Still /\ UNCHANGED <<cache, req, opened>> /\ decision' = Nil /\ issued' = issued + 1
           /\ issued < MaxChallenges
        /\ Cardinality(Live(challenges)) < Capacity /\ sessions' = Live(sessions)
    BY DEF Challenge, Still
  <1>2. PICK c : c.id = issued + 1 /\ challenges' = Live(challenges) \cup {c}
    BY <1>1 DEF Challenge
  <1>3. /\ issued \in Nat /\ MaxChallenges \in Nat /\ Capacity \in Nat /\ issued <= MaxChallenges
        /\ IsFiniteSet(challenges) /\ IsFiniteSet(sessions)
    BY AuthorityAssumption DEF AuthInv, LoginInv
  <1>4. IsFiniteSet(challenges') /\ Cardinality(challenges') <= Capacity
    <2>1. IsFiniteSet(Live(challenges)) /\ Cardinality(Live(challenges)) \in Nat
      BY <1>3, LiveFacts, FS_CardinalityType
    <2>2. IsFiniteSet(challenges')
          /\ Cardinality(challenges') \in {Cardinality(Live(challenges)), Cardinality(Live(challenges)) + 1}
      BY <1>2, <2>1, FS_AddElement
    <2> QED
      BY <1>1, <1>3, <2>1, <2>2
  <1>5. IsFiniteSet(sessions') /\ Cardinality(sessions') <= Capacity
    <2>1. /\ IsFiniteSet(Live(sessions)) /\ Cardinality(Live(sessions)) \in Nat /\ Cardinality(sessions) \in Nat
          /\ Cardinality(Live(sessions)) <= Cardinality(sessions)
      BY <1>3, LiveFacts, FS_CardinalityType
    <2> QED
      BY <1>1, <1>3, <2>1 DEF AuthInv, LoginInv
  <1>6. ChainInv' /\ RequestsInv'
    BY <1>1 DEF AuthInv, ChainInv, RequestsInv, RequestOK, Backed, Still, chainVars
  <1>7. EntriesInv' /\ ActsOnRecentAuthority'
    BY <1>1, SessionsShrink DEF AuthInv, Live, ActsOnRecentAuthority
  <1>8. LoginInv'
    <2>1. \A d \in challenges' : d = c \/ (d \in challenges /\ d.id \in 1..issued)
      BY <1>2 DEF Live, AuthInv, LoginInv
    <2>2. issued' \in 0..MaxChallenges /\ issued' \in 1..MaxChallenges /\ c.id = issued' /\ c.id > issued
          /\ \A i \in 1..issued : i \in 1..issued' /\ i # c.id
      BY <1>1, <1>2, <1>3
    <2>3. opened[c.id] = 0
      BY <2>2 DEF AuthInv, LoginInv
    <2>4. \A d \in challenges' : d.id \in 1..issued' /\ opened[d.id] = 0
      BY <1>3, <2>1, <2>2, <2>3 DEF AuthInv, LoginInv
    <2>5. \A d, e \in challenges' : d.id = e.id => d = e
      BY <2>1, <2>2 DEF AuthInv, LoginInv
    <2>6. \A r \in Requests : Answering(r) =>
              /\ req[r].challenge \in 1..issued' /\ opened[req[r].challenge] = 0
              /\ \A d \in challenges' : d.id # req[r].challenge
      BY <2>1, <2>2 DEF AuthInv, LoginInv
    <2>7. \A i \in 1..MaxChallenges : i > issued' => opened[i] = 0
      BY <1>1, <1>3 DEF AuthInv, LoginInv
    <2> QED
      BY <1>1, <1>4, <1>5, <2>2, <2>4, <2>5, <2>6, <2>7 DEF AuthInv, LoginInv, Answering, Still
  <1> QED
    BY <1>6, <1>7, <1>8 DEF AuthInv

LEMMA ChallengeAnswered ==
  ASSUME AuthInv, NEW r \in Requests, NEW c \in challenges, Verify(r, c)
  PROVE  AuthInv'
  <1>1. /\ Still /\ UNCHANGED <<cache, sessions, issued, opened>> /\ decision' = Nil /\ guard = "session"
        /\ challenges' = challenges \ {c} /\ req[r].at = "idle"
    BY DEF Verify, Still, At
  <1>2. EntriesInv' /\ ActsOnRecentAuthority'
    BY <1>1, EntriesFrame DEF AuthInv, ActsOnRecentAuthority
  <1>3. /\ now \in Nat /\ changes \in Nat /\ issued \in Nat /\ c.id \in 1..issued
        /\ Idle.began = 0 /\ Idle.since = 0 /\ Idle.rev = 0 /\ ~Idle.owner /\ Idle \in Reqs
    BY AuthorityAssumption, IdleFacts DEF AuthInv, ChainInv, LoginInv, Idle
  <1>4. CASE UNCHANGED req
    <2>1. ChainInv' /\ RequestsInv'
      BY <1>1, <1>4 DEF AuthInv, ChainInv, RequestsInv, RequestOK, Backed, Still, chainVars
    <2>2. LoginInv'
      BY <1>1, <1>4, LoginShrinks DEF AuthInv, Answering, Still
    <2> QED
      BY <1>2, <2>1, <2>2 DEF AuthInv
  <1>5. CASE req' = [req EXCEPT ![r] = [Idle EXCEPT !.at = "read", !.since = now, !.challenge = c.id]]
    <2> DEFINE q == [Idle EXCEPT !.at = "read", !.since = now, !.challenge = c.id]
    <2>0. c.id \in Nat
      BY <1>3
    <2>1. q \in Reqs /\ q.at = "read" /\ q.since = now /\ q.began = 0 /\ q.rev = 0 /\ ~q.owner /\ q.challenge = c.id
      BY <1>3, <2>0 DEF Reqs, Stages
    <2>2. req' = [req EXCEPT ![r] = q]
      BY <1>5
    <2> HIDE DEF q
    <2>3. RequestOK(q)
      BY <1>3, <2>1 DEF RequestOK
    <2>4. ChainInv' /\ RequestsInv'
      BY <1>1, <2>1, <2>2, <2>3, RequestStep
    <2>5. req'[r] = q /\ \A x \in Requests : x # r => req'[x] = req[x]
      BY <2>2 DEF AuthInv, RequestsInv
    <2>6. \A x \in Requests : Answering(x)' => x = r \/ (Answering(x) /\ req'[x].challenge = req[x].challenge /\ x # r)
      BY <1>1, <2>5 DEF Answering, Still
    <2>7. IsFiniteSet(challenges') /\ Cardinality(challenges') <= Capacity
      <3>1. IsFiniteSet(challenges') /\ Cardinality(challenges') <= Cardinality(challenges)
        BY <1>1, FS_Subset DEF AuthInv, LoginInv
      <3>2. Cardinality(challenges) \in Nat /\ Cardinality(challenges') \in Nat /\ Capacity \in Nat
        BY <3>1, FS_CardinalityType, AuthorityAssumption DEF AuthInv, LoginInv
      <3> QED
        BY <3>1, <3>2 DEF AuthInv, LoginInv
    <2>8. \A x \in Requests : Answering(x)' =>
              /\ req'[x].challenge \in 1..issued /\ opened[req'[x].challenge] = 0
              /\ \A d \in challenges' : d.id # req'[x].challenge
      BY <1>1, <1>3, <2>1, <2>5, <2>6 DEF AuthInv, LoginInv
    <2>9. \A x, y \in Requests : Answering(x)' /\ Answering(y)' /\ req'[x].challenge = req'[y].challenge => x = y
      BY <2>1, <2>5, <2>6 DEF AuthInv, LoginInv
    <2>10. LoginInv'
      BY <1>1, <2>7, <2>8, <2>9 DEF AuthInv, LoginInv
    <2> QED
      BY <1>2, <2>4, <2>10 DEF AuthInv
  <1> QED
    BY <1>4, <1>5 DEF Verify

LEMMA SessionOpened ==
  ASSUME AuthInv, NEW r \in Requests, OpenSession(r)
  PROVE  AuthInv'
  <1> DEFINE c == req[r].challenge
  <1>1. /\ Still /\ UNCHANGED <<cache, issued>> /\ decision' = Nil /\ guard = "session" /\ req[r].at = "resume"
        /\ req' = [req EXCEPT ![r] = Idle]
    BY DEF OpenSession, Still, At, login
  <1>2. ChainInv' /\ RequestsInv' /\ ActsOnRecentAuthority'
    BY <1>1, RequestStep, IdleFacts DEF ActsOnRecentAuthority
  <1>3. /\ \A x \in Requests : x # r => req'[x] = req[x]
        /\ \A x \in Requests : Answering(x)' => Answering(x) /\ x # r /\ req'[x].challenge = req[x].challenge
    BY <1>1, IdleFacts DEF Answering, Still, AuthInv, RequestsInv
  <1>4. CASE challenges' \subseteq challenges /\ sessions' \subseteq sessions /\ UNCHANGED opened
    BY <1>1, <1>2, <1>3, <1>4, SessionsShrink, LoginShrinks DEF AuthInv, Still
  <1>5. CASE /\ challenges' = Live(challenges) /\ Cardinality(Live(sessions)) < Capacity /\ req[r].read # Nil
             /\ sessions' = Live(sessions) \cup
                    {[id |-> c, value |-> req[r].read, expires |-> now + Ttl["session"], since |-> req[r].since, done |-> now]}
             /\ opened' = [opened EXCEPT ![c] = @ + 1]
    <2>1. Backed(req[r].read, req[r].since) /\ now \in Nat
      BY <1>1 DEF AuthInv, ChainInv, RequestsInv, RequestOK
    <2>2. PICK s : Remembers(s, "session") /\ sessions' = Live(sessions) \cup {s}
      BY <1>5, <2>1 DEF Remembers
    <2>3. EntriesInv'
      <3>1. \A x \in sessions' : Remembers(x, "session")
        BY <1>1, <2>2 DEF Live, AuthInv, EntriesInv
      <3> QED
        BY <1>1, <3>1 DEF AuthInv, EntriesInv, Remembers, Backed, Still, chainVars
    <2>4. IsFiniteSet(sessions') /\ Cardinality(sessions') <= Capacity
      <3>1. IsFiniteSet(Live(sessions)) /\ Cardinality(Live(sessions)) \in Nat /\ Capacity \in Nat
        BY LiveFacts, FS_CardinalityType, AuthorityAssumption DEF AuthInv, LoginInv
      <3>2. IsFiniteSet(sessions')
            /\ Cardinality(sessions') \in {Cardinality(Live(sessions)), Cardinality(Live(sessions)) + 1}
        BY <2>2, <3>1, FS_AddElement
      <3> QED
        BY <1>5, <3>1, <3>2
    <2>5. IsFiniteSet(challenges') /\ Cardinality(challenges') <= Capacity
      <3>1. /\ IsFiniteSet(challenges') /\ Cardinality(challenges') <= Cardinality(challenges)
            /\ Cardinality(challenges) \in Nat /\ Cardinality(challenges') \in Nat /\ Capacity \in Nat
        BY <1>5, LiveFacts, FS_CardinalityType, AuthorityAssumption DEF AuthInv, LoginInv
      <3> QED
        BY <3>1 DEF AuthInv, LoginInv
    <2>6. Answering(r)
      BY <1>1 DEF Answering
    <2>7. /\ c \in 1..issued /\ issued \in 0..MaxChallenges /\ MaxChallenges \in Nat /\ opened[c] = 0
          /\ opened \in [1..MaxChallenges -> 0..1]
      BY <2>6, AuthorityAssumption DEF AuthInv, LoginInv
    <2> HIDE DEF c
    <2>8. /\ opened' \in [1..MaxChallenges -> 0..1]
          /\ \A i \in 1..MaxChallenges : i # c => opened'[i] = opened[i]
          /\ \A i \in 1..issued : i \in 1..MaxChallenges
          /\ ~(c > issued)
      BY <1>5, <2>7
    <2>9. \A d \in challenges' : d \in challenges /\ d.id # c
      BY <1>5, <2>6 DEF Live, c, AuthInv, LoginInv
    <2>10. \A x \in Requests : Answering(x) /\ x # r => req[x].challenge # c
      BY <2>6 DEF c, AuthInv, LoginInv
    <2>11. LoginInv'
      BY <1>1, <1>3, <2>4, <2>5, <2>8, <2>9, <2>10 DEF AuthInv, LoginInv
    <2> QED
      BY <1>2, <2>3, <2>11 DEF AuthInv
  <1> QED
    BY <1>4, <1>5 DEF OpenSession, login, Live

LEMMA SessionUsed ==
  ASSUME AuthInv, NEW r \in Requests, NEW s \in sessions, UseSession(r, s)
  PROVE  AuthInv'
  <1>1. /\ Still /\ UNCHANGED <<cache, issued, opened>> /\ guard = "session"
        /\ challenges' \subseteq challenges /\ sessions' \subseteq sessions
    BY DEF UseSession, Still, Live
  <1>2. EntriesInv'
    BY <1>1, SessionsShrink DEF AuthInv
  <1>3. CASE s \in sessions'
    <2>1. Decide(r, s.value, now, s.since, s.done) /\ s.expires > now
      BY <1>3 DEF UseSession, Live
    <2>2. /\ Backed(s.value, s.since) /\ s.done \in Nat /\ s.expires = s.done + Ttl[guard]
          /\ present \in [Grants -> Int] /\ now \in Nat /\ Ttl[guard] \in Nat
      BY <1>1, PeriodFacts DEF AuthInv, EntriesInv, Remembers, ChainInv
    <2>3. s.value # Nil => present[s.value] + Ttl[guard] + (s.done - s.since) > now
      BY <2>1, <2>2 DEF Backed, Maybe
    <2>4. ActsOnRecentAuthority' /\ req' = [req EXCEPT ![r] = Idle]
      BY <1>1, <2>1, <2>3, DecideFacts DEF Still
    <2>5. ChainInv' /\ RequestsInv'
      BY <1>1, <2>4, RequestStep, IdleFacts
    <2>6. \A x \in Requests : Answering(x)' => Answering(x) /\ req'[x].challenge = req[x].challenge
      BY <1>1, <2>4, IdleFacts DEF Answering, Still, AuthInv, RequestsInv
    <2> QED
      BY <1>1, <1>2, <2>4, <2>5, <2>6, LoginShrinks DEF AuthInv, Still
  <1>4. CASE s \notin sessions'
    <2>1. UNCHANGED req /\ decision' = Nil
      BY <1>4 DEF UseSession
    <2>2. ChainInv' /\ RequestsInv' /\ ActsOnRecentAuthority'
      BY <1>1, <2>1 DEF AuthInv, ChainInv, RequestsInv, RequestOK, Backed, Still, chainVars, ActsOnRecentAuthority
    <2> QED
      BY <1>1, <1>2, <2>1, <2>2, LoginShrinks DEF AuthInv, Still, Answering
  <1> QED
    BY <1>3, <1>4

LEMMA LoggedOut ==
  ASSUME AuthInv, NEW s \in sessions, Logout(s)
  PROVE  AuthInv'
  <1>1. /\ Still /\ UNCHANGED <<cache, req, issued, opened>> /\ decision' = Nil
        /\ challenges' \subseteq challenges /\ sessions' \subseteq sessions
    BY DEF Logout, Still
  <1>2. ChainInv' /\ RequestsInv' /\ ActsOnRecentAuthority'
    BY <1>1 DEF AuthInv, ChainInv, RequestsInv, RequestOK, Backed, Still, chainVars, ActsOnRecentAuthority
  <1> QED
    BY <1>1, <1>2, SessionsShrink, LoginShrinks DEF AuthInv, Still, Answering

(* The clock and the chain. *)
LEMMA WorldMoves ==
  ASSUME AuthInv, Tick \/ Change
  PROVE  AuthInv'
  <1>1. UNCHANGED <<guard, cache, req, login>> /\ decision' = Nil
    BY DEF Tick, Change
  <1>2. /\ now \in Nat /\ changes \in Nat /\ owner \in BOOLEAN /\ grant \in Maybe
        /\ present \in [Grants -> Int] /\ owned \in Int /\ Nil \notin Grants
        /\ \A g \in Grants : present[g] <= now
        /\ grant # Nil => present[grant] = now
        /\ owned <= now /\ (owner => owned = now)
    BY AuthorityAssumption DEF AuthInv, ChainInv
  <1>3. /\ now' \in Nat /\ now' >= now /\ changes' \in Nat /\ owner' \in BOOLEAN /\ grant' \in Maybe
        /\ present' \in [Grants -> Int] /\ owned' \in Int
        /\ \A g \in Grants : present[g] <= present'[g] /\ present'[g] <= now'
        /\ grant' # Nil => present'[grant'] = now'
        /\ owned <= owned' /\ owned' <= now' /\ (owner' => owned' = now')
        /\ \/ changes' = changes /\ grant' = grant
           \/ changes' = changes + 1
    <2>1. CASE Tick
      <3>1. /\ now' = now + 1 /\ UNCHANGED <<grant, owner, changes>>
            /\ present' = [g \in Grants |-> IF g = grant THEN now' ELSE present[g]]
            /\ owned' = IF owner THEN now' ELSE owned
        BY <2>1 DEF Tick
      <3> QED
        BY <1>2, <3>1 DEF Maybe
    <2>2. CASE Change
      <3>1. /\ now' = now /\ changes' = changes + 1 /\ owner' \in BOOLEAN
            /\ present' = [g \in Grants |-> IF g = grant' THEN now ELSE present[g]]
            /\ owned' = IF owner' THEN now ELSE owned
        BY <1>2, <2>2 DEF Change
      <3>2. grant' \in Maybe
        <4>1. (CHOOSE g \in Grants : TRUE) \in Grants
          BY AuthorityAssumption
        <4> QED
          BY <1>2, <2>2, <4>1 DEF Change, Recordable, Maybe
      <3> QED
        BY <1>2, <3>1, <3>2 DEF Maybe
    <2> QED
      BY <2>1, <2>2
  <1>4. ChainInv'
    BY <1>1, <1>3 DEF AuthInv, ChainInv
  <1>5. \A g, since : Backed(g, since) => Backed(g, since)'
    BY <1>2, <1>3 DEF Backed, Maybe
  <1>6. RequestsInv'
    <2>1. ASSUME NEW q \in Reqs, RequestOK(q)
          PROVE  RequestOK(q)'
      BY <1>2, <1>3, <1>5, <2>1 DEF RequestOK, Reqs
    <2>2. req' = req
      BY <1>1
    <2> QED
      BY <2>1, <2>2 DEF AuthInv, RequestsInv, RequestOK, Backed
  <1>7. EntriesInv'
    BY <1>1, <1>5 DEF AuthInv, EntriesInv, Remembers, login
  <1>8. LoginInv'
    BY <1>1 DEF AuthInv, LoginInv, Answering, login
  <1>9. ActsOnRecentAuthority'
    BY <1>1 DEF ActsOnRecentAuthority
  <1> QED
    BY <1>4, <1>6, <1>7, <1>8, <1>9 DEF AuthInv

LEMMA AuthBegins == AuthInit => AuthInv
  <1> SUFFICES ASSUME AuthInit PROVE AuthInv
    OBVIOUS
  <1>1. MaxTime \in Nat /\ MaxChallenges \in Nat /\ Capacity \in Nat /\ Grants # {} /\ Nil \notin Grants
    BY AuthorityAssumption
  <1>2. /\ guard \in Guards /\ now = 1 /\ changes = 0 /\ owner = FALSE /\ owned = Never
        /\ cache = Nil /\ sessions = {} /\ challenges = {} /\ issued = 0 /\ decision = Nil
        /\ present = [g \in Grants |-> IF g = grant THEN now ELSE Never]
        /\ req = [r \in Requests |-> Idle] /\ opened = [c \in 1..MaxChallenges |-> 0]
    BY DEF AuthInit
  <1>3. Never \in Int /\ Never <= 1
    BY <1>1 DEF Never
  <1>4. grant \in Maybe
    <2>1. (CHOOSE g \in Grants : TRUE) \in Grants
      BY <1>1
    <2> QED
      BY <2>1 DEF AuthInit, Recordable, Maybe
  <1>5. ChainInv
    <2>1. present \in [Grants -> Int] /\ \A g \in Grants : present[g] <= 1 /\ (g = grant => present[g] = 1)
      BY <1>2, <1>3
    <2> QED
      BY <1>1, <1>2, <1>3, <1>4, <2>1 DEF ChainInv, Maybe
  <1>6. Idle \in Reqs /\ RequestOK(Idle) /\ Idle.at = "idle"
    BY <1>2 DEF Idle, Reqs, Stages, Maybe, RequestOK
  <1>7. RequestsInv
    BY <1>2, <1>6 DEF RequestsInv
  <1>8. LoginInv
    <2>1. IsFiniteSet({}) /\ Cardinality({}) = 0
      BY FS_EmptySet
    <2> QED
      BY <1>1, <1>2, <1>6, <2>1 DEF LoginInv, Answering
  <1>9. EntriesInv /\ ActsOnRecentAuthority
    BY <1>2 DEF EntriesInv, ActsOnRecentAuthority
  <1> QED
    BY <1>5, <1>7, <1>8, <1>9 DEF AuthInv

LEMMA AuthSteps == AuthInv /\ [AuthNext]_authVars => AuthInv'
  <1> SUFFICES ASSUME AuthInv, [AuthNext]_authVars PROVE AuthInv'
    OBVIOUS
  <1>1. CASE UNCHANGED authVars
    BY <1>1 DEF authVars, chainVars, login, AuthInv, ChainInv, RequestsInv, RequestOK, Backed, EntriesInv,
       Remembers,
                LoginInv, Answering, ActsOnRecentAuthority, Holds
  <1>2. CASE Tick \/ Change
    BY <1>2, WorldMoves
  <1>3. ASSUME NEW r \in Requests,
               \/ Refuse(r)
               \/ AskRole(r) \/ PolicyRights(r) \/ ReadTwin(r) \/ LookupRole(r) \/ ReadGrants(r) \/ StoreGrants(r)
        PROVE  AuthInv'
    BY <1>3, RefuseAuth, RoleAsked, RoleLookedUp, Captured, RoleStored DEF ReadGrants
  <1>4. ASSUME NEW r \in Requests,
               \/ AskConnector(r) \/ ReadSubscription(r) \/ VerifiedSubscription(r)
               \/ AskPublic(r) \/ ReadPublicAccess(r) \/ StorePublicAccess(r)
               \/ FilterPublic(r) \/ RecheckPublic(r)
        PROVE  AuthInv'
    BY <1>4, ConnectorAsked, ConnectorVerified, Captured, PublicAsked, PublicStored, PublicFiltered, PublicRechecked
    DEF ReadSubscription, ReadPublicAccess
  <1>5. ASSUME NEW r \in Requests,
               \/ ReadController(r) \/ OpenSession(r)
               \/ \E c \in challenges : Verify(r, c)
               \/ \E s \in sessions : UseSession(r, s)
        PROVE  AuthInv'
    BY <1>5, Captured, SessionOpened, ChallengeAnswered, SessionUsed DEF ReadController
  <1>6. CASE Challenge \/ \E s \in sessions : Logout(s)
    BY <1>6, ChallengeIssued, LoggedOut
  <1> QED
    BY <1>1, <1>2, <1>3, <1>4, <1>5, <1>6 DEF AuthNext

(* The inductive invariant of the decisions about authority. *)
THEOREM AuthInvariance == AuthSpec => []AuthInv
  BY AuthBegins, AuthSteps, PTL DEF AuthSpec

(* Each guard goes by what the chain recorded no longer ago than its       *)
(* period, whatever reads overtake each other or share their answers.      *)
THEOREM AuthorityIsRecent == AuthSpec => []ActsOnRecentAuthority
  <1>1. AuthInv => ActsOnRecentAuthority
    BY DEF AuthInv
  <1> QED
    BY <1>1, AuthInvariance, PTL

(* A challenge of the DID login opens one session at most, and challenges  *)
(* and sessions stay within their capacity.                                *)
THEOREM ChallengeOpensOnce == AuthSpec => []LoginIsSingleUse
  <1>1. AuthInv => LoginIsSingleUse
    BY DEF AuthInv, LoginInv, LoginIsSingleUse
  <1> QED
    BY <1>1, AuthInvariance, PTL
===============================================================================
