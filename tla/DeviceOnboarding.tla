---------------------------- MODULE DeviceOnboarding ----------------------------
(***************************************************************************)
(* DeviceWorkbench for one device: register, ingest, revoke, classify and  *)
(* rotate, on any number of server processes that share the encrypted      *)
(* record store, the tenant file, the broker's password file and ACL, and  *)
(* the chain.  A record is replaced by compare-and-set on its revision; the *)
(* tenant file is rewritten as a whole, also by calls for other devices    *)
(* and by the revocation of the whole tenant; the busy set and the latest  *)
(* sample belong to one process.                                           *)
(***************************************************************************)
EXTENDS Naturals

CONSTANTS
    Ops,               \* calls; a call that issues credentials names them after itself
    Servers,           \* server processes
    MaxCrashes,        \* bound on crashes of a process
    First,             \* the credentials of a device enrolled before
    None               \* no credentials

ASSUME DeviceAssumption ==
    /\ MaxCrashes \in Nat
    /\ Servers # {}
    /\ First \notin Ops
    /\ None \notin Ops \cup {First}

VARIABLES
    rec,               \* the device record in the store
    entry,             \* the device's entry in the tenant file
    broker,            \* its credentials in the broker's password file
    admitted,          \* the broker's ACL lets it publish
    submitted,         \* how often a Twin creation was submitted for the device
    twins,             \* how many of them took effect
    busy,              \* per process: an operation on the device runs
    sample,            \* per process: it holds a sample of the device
    pc,                \* where each call is
    kind,              \* what it does
    at,                \* the process that serves it
    seen,              \* the record it last read or wrote
    shown,             \* the credentials an ingestion presents
    stale,             \* they had been voided when it began
    held,              \* the device's entry in the tenant file it has read
    accepted,          \* the ingestion was accepted
    voided,            \* history: credentials a call has invalidated
    spared,            \* history: voided while the tenant file had no entry
    disturbed,         \* history: another call has touched the device's access
    crashes

access == <<entry, admitted, held, spared, disturbed>>

vars == <<rec, broker, submitted, twins, busy, sample, pc, kind, at, seen,
          shown, stale, accepted, voided, crashes,
                   access>>

Ingesting == {"http", "mqtt"}
Exclusive == {"revoke", "classify", "rotate"}
Issuing == {"register", "rotate"}
Foreign == {"other", "tenant"}     \* for another device; revoking the tenant
Kinds == Ingesting \cup Exclusive \cup Issuing \cup Foreign
Credentials == Ops \cup {First}

Absent == [rev |-> 0, state |-> "absent", cred |-> None, file |-> FALSE,
           pending |-> FALSE, revoked |-> FALSE]

Enrolled(state) == [Absent EXCEPT !.rev = 1, !.state = state, !.cred = First, !.file = TRUE]

(* Before the first enrolment, or with a device that is already known;     *)
(* another call may have dropped its entry from the tenant file.           *)
Init ==
    /\ \E state \in {"absent", "waiting", "created"} :
          IF state = "absent"
          THEN /\ rec = Absent /\ twins = 0 /\ submitted = 0
               /\ entry = "none" /\ broker = None /\ admitted = FALSE
          ELSE /\ rec = Enrolled(state)
               /\ entry \in {"active", "none"} /\ broker = First /\ admitted = TRUE
               /\ twins = IF state = "created" THEN 1 ELSE 0
               /\ submitted = twins
    /\ busy = [s \in Servers |-> FALSE]
    /\ sample = [s \in Servers |-> FALSE]
    /\ pc = [o \in Ops |-> "new"]
    /\ kind = [o \in Ops |-> "none"]
    /\ at = [o \in Ops |-> CHOOSE s \in Servers : TRUE]
    /\ seen = [o \in Ops |-> Absent]
    /\ shown = [o \in Ops |-> None]
    /\ stale = [o \in Ops |-> FALSE]
    /\ held = [o \in Ops |-> "none"]
    /\ accepted = [o \in Ops |-> FALSE]
    /\ voided = {} /\ spared = {} /\ disturbed = (rec # Absent /\ entry = "none")
    /\ crashes = 0

Over == {"new", "done", "failed"}
Running == {o \in Ops : pc[o] \notin Over}

(* deviceCredentials hands out the file of a record in this state. *)
Recoverable == rec.state = "created" /\ rec.file /\ ~rec.revoked /\ ~rec.pending

(* The broker lets a client in whose password it knows and whom its ACL    *)
(* names.                                                                  *)
Accepts == IF admitted THEN broker ELSE None

(* Credentials someone outside holds: answered by register or rotate, or   *)
(* downloaded.                                                             *)
HandedOut ==
    {First} \cup {o \in Ops : kind[o] \in {"register", "rotate"} /\ pc[o] = "done"}
            \cup (IF Recoverable THEN {rec.cred} ELSE {})

(* Faulty variants (names ending in Fault) change one definition the way a *)
(* plausible bug would; no specification uses them.                        *)
-------------------------------------------------------------------------------
(* The end of a call: the finally block clears the busy flag. *)
End(o, how) ==
    /\ pc' = [pc EXCEPT ![o] = how]
    /\ busy' = IF kind[o] \in Exclusive THEN [busy EXCEPT ![at[o]] = FALSE] ELSE busy
    /\ seen' = [seen EXCEPT ![o] = Absent]

(* PlantService.put on the revision the call has seen: it succeeds, or it  *)
(* throws, for a conflict or an error, possibly after the record changed.  *)
Save(o, document, next) ==
    LET stored == [document EXCEPT !.rev = rec.rev + 1] IN
    \/ /\ seen[o].rev = rec.rev
       /\ rec' = stored
       /\ \/ /\ pc' = [pc EXCEPT ![o] = next]
             /\ seen' = [seen EXCEPT ![o] = stored]
             /\ busy' = busy
          \/ End(o, "failed")
    \/ /\ rec' = rec
       /\ End(o, "failed")

(* register makes a new device, every other call finds one or answers 404; *)
(* revoke, classify and rotate are refused while another of them runs on   *)
(* the device in the same process; only a created device has credentials   *)
(* to rotate.  The calls for others do not look at the device.             *)
Admitted(o, k, s) ==
    /\ k \notin Foreign => ((k = "register") <=> (rec.state = "absent"))
    /\ k = "register" => \A q \in Ops : kind[q] # "register"
    /\ k = "rotate" => rec.state = "created"
    /\ k \in Exclusive => ~busy[s]

(* A call arrives; an ingestion shows the credentials it holds. *)
Begin(o, k, s) ==
    /\ pc[o] = "new"
    /\ Admitted(o, k, s)
    /\ busy' = IF k \in Exclusive THEN [busy EXCEPT ![s] = TRUE] ELSE busy
    /\ kind' = [kind EXCEPT ![o] = k]
    /\ at' = [at EXCEPT ![o] = s]
    /\ \E c \in HandedOut :
          /\ k = "mqtt" => Accepts = c
          /\ shown' = [shown EXCEPT ![o] = IF k \in Ingesting THEN c ELSE None]
          /\ stale' = [stale EXCEPT ![o] =
                /\ k \in Ingesting
                /\ c \in voided
                /\ k = "mqtt" => c \notin spared]
    /\ pc' = [pc EXCEPT ![o] = CASE k = "register" -> "enrol"
                                 [] k \in Foreign -> "readFile"
                                 [] OTHER -> "read"]
    /\ UNCHANGED <<rec, broker, submitted, twins, sample, seen, accepted, voided, crashes,
                   access>>

-------------------------------------------------------------------------------
(* TenantRegistry: every change to a tenant's credentials reads the tenant *)
(* file, writes it back as a whole, calls mosquitto_passwd and rewrites    *)
(* the ACL from the file as it has written it.                             *)
Rewriting(o) == pc[o] \in {"writeFile", "password", "acl"}

(* The device's entry in the file a call writes back. *)
Written(o) ==
    CASE kind[o] \in Issuing -> "active"
      [] kind[o] \in {"revoke", "tenant"} /\ held[o] # "none" -> "revoked"
      [] OTHER -> held[o]

(* revoke forgets the sample before it reads the tenant file. *)
Forgotten(o) ==
    IF kind[o] = "revoke" /\ pc[o] = "readFile" THEN [sample EXCEPT ![at[o]] = FALSE] ELSE sample

(* The device's access is in other hands once its tenant is revoked or     *)
(* another call rewrites the file while credentials are issued; issuing    *)
(* them with no other call under way puts it in order again.               *)
ReadFile(o) ==
    /\ pc[o] = "readFile"
    /\ held' = [held EXCEPT ![o] = entry]
    /\ disturbed' =
          CASE kind[o] \in Issuing -> \E q \in Ops : kind[q] \in Foreign /\ Rewriting(q)
            [] kind[o] = "tenant" -> TRUE
            [] kind[o] = "other" -> disturbed \/ \E q \in Ops : kind[q] \in Issuing /\ Rewriting(q)
            [] OTHER -> disturbed
    /\ sample' = Forgotten(o)
    /\ pc' = [pc EXCEPT ![o] = "writeFile"]
    /\ UNCHANGED <<rec, broker, submitted, twins, busy, kind, at, seen, shown, stale, accepted, voided,
                   crashes, entry, admitted, spared>>

WriteFile(o) ==
    /\ pc[o] = "writeFile"
    /\ entry' = Written(o)
    /\ pc' = [pc EXCEPT ![o] = "password"]
    /\ UNCHANGED <<rec, broker, submitted, twins, busy, sample, kind, at, seen, shown, stale, accepted,
                   voided, crashes, admitted, held, spared, disturbed>>

(* A device without an entry keeps its password when it is revoked; the    *)
(* revocation of the tenant deletes those of the entries still active.     *)
Password(o) ==
    /\ pc[o] = "password"
    /\ broker' = CASE kind[o] \in Issuing -> o
                   [] kind[o] = "revoke" /\ held[o] # "none" -> None
                   [] kind[o] = "tenant" /\ held[o] = "active" -> None
                   [] OTHER -> broker
    /\ voided' = IF kind[o] = "revoke" THEN voided \cup {seen[o].cred} ELSE voided
    /\ spared' = IF kind[o] = "revoke" /\ held[o] = "none" THEN spared \cup {seen[o].cred} ELSE spared
    /\ pc' = [pc EXCEPT ![o] = "acl"]
    /\ UNCHANGED <<rec, submitted, twins, busy, sample, kind, at, seen, shown, stale, accepted, crashes,
                   entry, admitted, held, disturbed>>

WriteAcl(o) ==
    /\ pc[o] = "acl"
    /\ admitted' = (Written(o) = "active")
    /\ CASE kind[o] = "register" -> pc' = [pc EXCEPT ![o] = "enrolRead"] /\ UNCHANGED <<busy, seen>>
         [] kind[o] = "rotate" -> pc' = [pc EXCEPT ![o] = "rotateSave"] /\ UNCHANGED <<busy, seen>>
         [] OTHER -> End(o, "done")
    /\ UNCHANGED <<rec, broker, submitted, twins, sample, kind, at, shown, stale, accepted, voided, crashes,
                   entry, held, spared, disturbed>>

(* The ACL is written in place: a write that fails, or dies with its       *)
(* process, leaves the old text, none, or a part of the new.               *)
Torn(writers) ==
    /\ admitted' \in BOOLEAN
    /\ admitted' => admitted \/ \E o \in writers : Written(o) = "active"
    /\ writers = {} => admitted' = admitted
    /\ disturbed' = (disturbed \/ \E o \in writers : kind[o] \in Foreign)

AclFails(o) ==
    /\ pc[o] = "acl"
    /\ Torn({o})
    /\ End(o, "failed")
    /\ UNCHANGED <<rec, broker, submitted, twins, sample, kind, at, shown, stale, accepted, voided, crashes,
                   entry, held, spared>>

-------------------------------------------------------------------------------
(* register: the record, the broker, the record again with the file. *)
Enrol(o) ==
    /\ pc[o] = "enrol"
    /\ Save(o, [Absent EXCEPT !.state = "waiting", !.cred = o], "readFile")
    /\ UNCHANGED <<broker, submitted, twins, sample, kind, at, shown, stale, accepted, voided, crashes,
                   access>>

EnrolRead(o) ==
    /\ pc[o] = "enrolRead"
    /\ seen' = [seen EXCEPT ![o] = rec]
    /\ pc' = [pc EXCEPT ![o] = "enrolFile"]
    /\ UNCHANGED <<rec, broker, submitted, twins, busy, sample, kind, at, shown, stale, accepted, voided, crashes,
                   access>>

EnrolFile(o) ==
    /\ pc[o] = "enrolFile"
    /\ Save(o, [seen[o] EXCEPT !.file = TRUE], "done")
    /\ UNCHANGED <<broker, submitted, twins, sample, kind, at, shown, stale, accepted, voided, crashes,
                   access>>

(* The other calls read the record first. *)
Read(o) ==
    /\ pc[o] = "read"
    /\ seen' = [seen EXCEPT ![o] = rec]
    /\ pc' = [pc EXCEPT ![o] = IF kind[o] \in Ingesting THEN "accept" ELSE kind[o]]
    /\ UNCHANGED <<rec, broker, submitted, twins, busy, sample, kind, at, shown, stale, accepted, voided, crashes,
                   access>>

AdmissibleFault(o) == kind[o] = "http" => seen[o].cred = shown[o]

(* The checks of ingest; HTTP presents a token, MQTT has passed the broker. *)
Admissible(o) ==
    /\ ~seen[o].pending
    /\ ~seen[o].revoked
    /\ kind[o] = "http" => seen[o].cred = shown[o]

Accept(o) ==
    /\ pc[o] = "accept"
    /\ accepted' = [accepted EXCEPT ![o] = Admissible(o)]
    /\ sample' = IF Admissible(o) THEN [sample EXCEPT ![at[o]] = TRUE] ELSE sample
    /\ End(o, IF Admissible(o) THEN "done" ELSE "failed")
    /\ UNCHANGED <<rec, broker, submitted, twins, kind, at, shown, stale, voided, crashes, access>>

-------------------------------------------------------------------------------
(* revoke *)
Revoke(o) ==
    /\ pc[o] = "revoke"
    /\ Save(o, [seen[o] EXCEPT !.revoked = TRUE], "readFile")
    /\ UNCHANGED <<broker, submitted, twins, sample, kind, at, shown, stale, accepted, voided, crashes,
                   access>>

-------------------------------------------------------------------------------
(* classify: a revoked device or one without a sample is refused, a        *)
(* created one exported, one under creation left to an operator.           *)
ClassifyRefused(o) ==
    /\ pc[o] = "classify"
    /\ End(o, IF seen[o].state = "created" /\ ~seen[o].revoked THEN "done" ELSE "failed")
    /\ UNCHANGED <<rec, broker, submitted, twins, sample, kind, at, shown, stale, accepted, voided, crashes,
                   access>>

ClassifyFault(o) ==
    /\ pc[o] = "classify"
    /\ ~seen[o].revoked
    /\ seen[o].state \in {"waiting", "creating"}
    /\ sample[at[o]]
    /\ Save(o, [seen[o] EXCEPT !.state = "creating"], "create")
    /\ UNCHANGED <<broker, submitted, twins, sample, kind, at, shown, stale, accepted, voided, crashes,
                   access>>

(* The subscription is checked, then the marker is saved. *)
Classify(o) ==
    /\ pc[o] = "classify"
    /\ ~seen[o].revoked
    /\ seen[o].state = "waiting"
    /\ sample[at[o]]
    /\ Save(o, [seen[o] EXCEPT !.state = "creating"], "create")
    /\ UNCHANGED <<broker, submitted, twins, sample, kind, at, shown, stale, accepted, voided, crashes,
                   access>>

(* The creation is submitted; an error may hide a Twin that exists. *)
CreateTwin(o, effect, answered) ==
    /\ pc[o] = "create"
    /\ answered => effect
    /\ submitted' = submitted + 1
    /\ twins' = IF effect THEN twins + 1 ELSE twins
    /\ IF answered
       THEN pc' = [pc EXCEPT ![o] = "createSave"] /\ UNCHANGED <<busy, seen>>
       ELSE End(o, "failed")
    /\ UNCHANGED <<rec, broker, sample, kind, at, shown, stale, accepted, voided, crashes,
                   access>>

CreateSave(o) ==
    /\ pc[o] = "createSave"
    /\ Save(o, [seen[o] EXCEPT !.state = "created"], "export")
    /\ UNCHANGED <<broker, submitted, twins, sample, kind, at, shown, stale, accepted, voided, crashes,
                   access>>

Export(o) ==
    /\ pc[o] = "export"
    /\ End(o, "done")
    /\ UNCHANGED <<rec, broker, submitted, twins, sample, kind, at, shown, stale, accepted, voided, crashes,
                   access>>

-------------------------------------------------------------------------------
RotateFault(o) ==
    /\ pc[o] = "rotate"
    /\ Save(o, [seen[o] EXCEPT !.file = TRUE, !.cred = o, !.revoked = FALSE], "readFile")
    /\ UNCHANGED <<broker, submitted, twins, sample, kind, at, shown, stale, accepted, voided, crashes,
                   access>>

(* rotate: the new file is saved as pending, the broker gets the new       *)
(* password, the record is released.                                       *)
Rotate(o) ==
    /\ pc[o] = "rotate"
    /\ Save(o, [seen[o] EXCEPT !.pending = TRUE, !.file = TRUE, !.cred = o], "readFile")
    /\ UNCHANGED <<broker, submitted, twins, sample, kind, at, shown, stale, accepted, voided, crashes,
                   access>>

RotateSave(o) ==
    /\ pc[o] = "rotateSave"
    /\ Save(o, [seen[o] EXCEPT !.pending = FALSE, !.revoked = FALSE], "rotated")
    /\ UNCHANGED <<broker, submitted, twins, sample, kind, at, shown, stale, accepted, voided, crashes,
                   access>>

Rotated(o) ==
    /\ pc[o] = "rotated"
    /\ sample' = [sample EXCEPT ![at[o]] = FALSE]
    /\ voided' = IF rec.cred = o THEN voided \cup (HandedOut \ {o}) ELSE voided
    /\ End(o, "done")
    /\ UNCHANGED <<rec, broker, submitted, twins, kind, at, shown, stale, accepted, crashes, access>>

(* Reading the store, the tenant file or the password tool throws. *)
Throws(o) ==
    /\ pc[o] \in {"read", "enrolRead", "readFile", "writeFile", "password"}
    /\ sample' = Forgotten(o)
    /\ End(o, "failed")
    /\ UNCHANGED <<rec, broker, submitted, twins, kind, at, shown, stale, accepted, voided, crashes, access>>

(* The sample is dropped after 15 minutes, or for another device's. *)
Expire(s) ==
    /\ sample[s]
    /\ sample' = [sample EXCEPT ![s] = FALSE]
    /\ UNCHANGED <<rec, broker, submitted, twins, busy, pc, kind, at, seen, shown, stale,
                   accepted, voided, crashes,
                   access>>

(* A process dies: its calls, its busy flag and its sample are gone. *)
Crash(s) ==
    /\ crashes < MaxCrashes
    /\ crashes' = crashes + 1
    /\ pc' = [o \in Ops |-> IF o \in Running /\ at[o] = s THEN "failed" ELSE pc[o]]
    /\ busy' = [busy EXCEPT ![s] = FALSE]
    /\ sample' = [sample EXCEPT ![s] = FALSE]
    /\ Torn({o \in Ops : at[o] = s /\ pc[o] = "acl"})
    /\ UNCHANGED <<rec, broker, submitted, twins, kind, at, seen, shown, stale, accepted, voided,
                   entry, held, spared>>

Next ==
    \/ \E o \in Ops :
          \/ \E k \in Kinds, s \in Servers : Begin(o, k, s)
          \/ Enrol(o) \/ EnrolRead(o) \/ EnrolFile(o)
          \/ Read(o) \/ Accept(o)
          \/ Revoke(o) \/ ReadFile(o) \/ WriteFile(o) \/ Password(o)
          \/ WriteAcl(o) \/ AclFails(o)
          \/ ClassifyRefused(o) \/ Classify(o) \/ CreateSave(o) \/ Export(o)
          \/ \E effect, answered \in BOOLEAN : CreateTwin(o, effect, answered)
          \/ Rotate(o) \/ RotateSave(o) \/ Rotated(o)
          \/ Throws(o)
    \/ \E s \in Servers : Expire(s) \/ Crash(s)

Spec == Init /\ [][Next]_vars

-------------------------------------------------------------------------------
(* "A persisted `creating` marker blocks repeat chain submissions after an *)
(* ambiguous result": at most one Twin creation is ever submitted for a    *)
(* device, whatever crashed, failed or ran on another server.              *)
OneSubmission == submitted <= 1

(* "Revoking a device blocks HTTP and MQTT ingestion": an ingestion that   *)
(* begins with credentials a revocation or rotation was answered for is    *)
(* never accepted.  Excepted are MQTT credentials the broker still knows   *)
(* because the device had no entry in the tenant file when it was revoked. *)
VoidedIsRejected == \A o \in Ops : accepted[o] => ~stale[o]

(* "Persist encrypted first, fail closed until broker rotation and final   *)
(* save succeed": credentials that can be downloaded are the ones the      *)
(* broker accepts, and never others.  It may accept none once the tenant   *)
(* was revoked, another call rewrote the tenant file while credentials     *)
(* were issued, or one left the ACL torn.                                  *)
FailsClosed == Recoverable => Accepts = rec.cred \/ (disturbed /\ Accepts = None)

(* FailsClosed as far as the busy flag goes: while one process serves the  *)
(* calls.                                                                  *)
FailsClosedLocally ==
    (\A o, q \in Ops : "none" \notin {kind[o], kind[q]} => at[o] = at[q]) => FailsClosed

===============================================================================
