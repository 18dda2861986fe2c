------------------------- MODULE DeviceOnboardingProofs -------------------------
(***************************************************************************)
(* Proofs about DeviceOnboarding for any number of calls, server processes *)
(* and crashes.                                                            *)
(***************************************************************************)
EXTENDS DeviceOnboarding, TLAPS

USE DEF access

Enrolling == {"enrol", "enrolRead", "enrolFile"}
Revoking == {"revoke"}
Classifying == {"classify", "create", "createSave", "export"}
Rotating == {"rotate", "rotateSave", "rotated"}
Filing == {"readFile", "writeFile", "password", "acl"}
Phases == Over \cup {"read", "accept"} \cup Enrolling \cup Revoking \cup Classifying \cup Rotating \cup Filing

Entries == {"none", "active", "revoked"}

States == {"absent", "waiting", "creating", "created"}
Records == [rev : Nat, state : States, cred : Credentials \cup {None}, file : BOOLEAN,
            pending : BOOLEAN, revoked : BOOLEAN]

TypeOK ==
    /\ rec \in Records
    /\ broker \in Credentials \cup {None}
    /\ submitted \in Nat
    /\ twins \in Nat
    /\ busy \in [Servers -> BOOLEAN]
    /\ sample \in [Servers -> BOOLEAN]
    /\ pc \in [Ops -> Phases]
    /\ kind \in [Ops -> Kinds \cup {"none"}]
    /\ at \in [Ops -> Servers]
    /\ seen \in [Ops -> Records]
    /\ shown \in [Ops -> Credentials \cup {None}]
    /\ stale \in [Ops -> BOOLEAN]
    /\ accepted \in [Ops -> BOOLEAN]
    /\ voided \in SUBSET (Credentials \cup {None})
    /\ crashes \in Nat
    /\ entry \in Entries
    /\ admitted \in BOOLEAN
    /\ held \in [Ops -> Entries]
    /\ spared \in SUBSET (Credentials \cup {None})
    /\ disturbed \in BOOLEAN

(* Where a call is tells which operation it serves. *)
PhaseFitsKind ==
    \A o \in Ops :
        /\ pc[o] = "new" <=> kind[o] = "none"
        /\ pc[o] \in Enrolling => kind[o] = "register"
        /\ pc[o] \in {"read"} \cup Revoking \cup Classifying \cup Rotating => kind[o] # "register"
        /\ pc[o] = "accept" => kind[o] \in Ingesting
        /\ pc[o] \in Revoking => kind[o] = "revoke"
        /\ pc[o] \in Classifying => kind[o] = "classify"
        /\ pc[o] \in Rotating => kind[o] = "rotate"
        /\ pc[o] \in Filing => kind[o] \in Issuing \cup Foreign \cup {"revoke"}
        /\ pc[o] = "read" => kind[o] \notin Foreign

(* A call holds the current record or an older one; a record that is not   *)
(* there has no revision.                                                  *)
SeenIsHistory ==
    /\ rec.rev = 0 <=> rec.state = "absent"
    /\ rec.state = "absent" => rec = Absent
    /\ \A o \in Ops :
          /\ seen[o].rev <= rec.rev
          /\ seen[o].rev = rec.rev => seen[o] = rec
          /\ pc[o] \in {"new", "read", "enrol"} => seen[o] = Absent
          /\ kind[o] \notin {"none", "register"} \cup Foreign => rec.state # "absent"

(* The marker "creating" is set once and before the only submission.       *)
MarkerBeforeSubmission ==
    /\ submitted <= 1
    /\ rec.state \in {"absent", "waiting"} => submitted = 0
    /\ \A o \in Ops :
          /\ pc[o] = "create" => submitted = 0 /\ rec.state \notin {"absent", "waiting"}
          /\ pc[o] \in {"create", "createSave"} => seen[o].state = "creating"
          /\ kind[o] = "rotate" => rec.state = "created"
    /\ \A o, q \in Ops : pc[o] = "create" /\ pc[q] = "create" => o = q

(* The busy flag: one call at a time of revoke, classify and rotate in     *)
(* each process.                                                           *)
Exclusively(o) == kind[o] \in Exclusive /\ o \in Running

OneAtATime ==
    /\ \A o \in Ops : Exclusively(o) => busy[at[o]]
    /\ \A o, q \in Ops : Exclusively(o) /\ Exclusively(q) /\ at[o] = at[q] => o = q

(* Nobody knows the credentials of a call that has not stored them. *)
Unissued(o) == kind[o] \notin {"register", "rotate"} \/ pc[o] \in {"enrol", "read", "rotate"}

UnissuedIsUnknown ==
    \A o \in Ops : Unissued(o) =>
        /\ o \notin voided /\ o # rec.cred /\ o # broker
        /\ \A q \in Ops : seen[q].cred # o

(* Until the registration is answered nobody outside can use the device:   *)
(* no sample arrives, so it is not classified, nor are its credentials     *)
(* rotated.                                                                *)
Unanswered(o) == kind[o] = "register" /\ pc[o] # "done"

(* A revocation, or a rotation, that has changed the record. *)
InRevocation(o) == kind[o] = "revoke" /\ pc[o] \in Filing
InRotation(o) == kind[o] = "rotate" /\ pc[o] \in Filing \cup {"rotateSave"}

RegistrationFirst ==
    /\ rec = Absent => broker = None /\ \A s \in Servers : ~sample[s]
    /\ \A o, q \in Ops : kind[o] = "register" /\ kind[q] = "register" => o = q
    /\ \A o \in Ops : Unanswered(o) =>
        /\ rec.state \in {"absent", "waiting"} /\ ~rec.pending
        /\ rec = Absent \/ rec.cred = o
        /\ broker \in {None, o}
        /\ \A s \in Servers : ~sample[s]
        /\ \A q \in Ops :
              /\ kind[q] \notin {"mqtt", "rotate"}
              /\ shown[q] \in {None, First}
              /\ kind[q] = "http" => shown[q] = First
              /\ pc[q] = "accept" => seen[q].cred = o
              /\ pc[q] \notin {"create", "createSave", "export"}
              /\ InRevocation(q) => rec.revoked
        /\ pc[o] = "enrol" => rec = Absent
        /\ pc[o] \in (Enrolling \ {"enrol"}) \cup Filing => rec.cred = o /\ ~rec.file

(* The record is never released under credentials an answered call has     *)
(* invalidated: a rotation cannot save when a revocation came in between.  *)
VoidStaysRevoked ==
    /\ rec.cred \in voided => rec.revoked
    /\ \A o \in Ops :
          /\ InRotation(o) => seen[o].cred = o /\ seen[o].pending
          /\ InRotation(o) /\ o \in voided => seen[o].rev # rec.rev
          /\ InRevocation(o) /\ rec.cred = seen[o].cred => rec.revoked
    /\ \A o, q \in Ops :
          InRotation(o) /\ InRevocation(q) /\ seen[q].cred = o =>
              seen[o].rev # rec.rev

(* Void credentials that the broker accepts are those of a device that was *)
(* revoked during its registration, which can only be registered anew, or  *)
(* of a rotation that nobody was answered, or spared.                      *)
Unreleased(o) == kind[o] = "rotate" /\ pc[o] \notin {"rotated", "done"}

Placed(p) == kind[p] = "rotate" /\ pc[p] \in {"acl", "rotateSave", "rotated"}

VoidAtBroker ==
    /\ broker \in voided \ spared /\ broker # None =>
          /\ broker # First
          /\ kind[broker] = "register" => rec.revoked /\ rec.state = "waiting"
          /\ kind[broker] # "register" => Unreleased(broker)
    /\ \A p \in Ops :
          Placed(p) /\ rec.cred = p =>
              broker \in {None, p} \/ (broker # First /\ Unreleased(broker))

(* What an ingestion with void credentials finds in the record. *)
StaleIsRefused ==
    \A o \in Ops :
        /\ pc[o] = "new" => ~accepted[o] /\ shown[o] = None
        /\ kind[o] \in Foreign => shown[o] = None
        /\ stale[o] => shown[o] \in voided
        /\ stale[o] /\ kind[o] = "mqtt" /\ pc[o] \in {"read", "accept"} =>
              rec.revoked /\ rec.state = "waiting"
        /\ stale[o] /\ pc[o] = "accept" =>
              seen[o].revoked \/ (kind[o] = "http" /\ seen[o].cred # shown[o])

(* With one process, the password file follows the record.                 *)
Local == \A o, q \in Ops : "none" \notin {kind[o], kind[q]} => at[o] = at[q]
Usable == rec.file /\ ~rec.revoked /\ ~rec.pending

BrokerFollows ==
    Local =>
        /\ Usable => broker \in {rec.cred, None}
        /\ \A o \in Ops :
              /\ InRotation(o) => rec.pending /\ rec.cred = o
              /\ InRotation(o) /\ Placed(o) => broker \in {o, None}
              /\ InRevocation(o) => rec.revoked

IndInv ==
    /\ TypeOK /\ PhaseFitsKind /\ SeenIsHistory
    /\ MarkerBeforeSubmission /\ OneAtATime /\ UnissuedIsUnknown /\ RegistrationFirst
    /\ VoidStaysRevoked /\ VoidAtBroker /\ StaleIsRefused /\ BrokerFollows
    /\ VoidedIsRejected

-------------------------------------------------------------------------------
(* What the steps of a call have in common: it goes to phase p holding     *)
(* record s, no other call moves, and the busy flag is cleared when it     *)
(* ends.                                                                   *)
Moved(o, p, s) ==
    /\ pc' \in [Ops -> Phases] /\ seen' \in [Ops -> Records]
    /\ pc'[o] = p /\ seen'[o] = s
    /\ \A q \in Ops : q # o => pc'[q] = pc[q] /\ seen'[q] = seen[q]

Freed(o) ==
    /\ busy' \in [Servers -> BOOLEAN]
    /\ \A s \in Servers : s # at[o] \/ kind[o] \notin Exclusive => busy'[s] = busy[s]

Ended(o, how) == Moved(o, how, Absent) /\ Freed(o)

Ongoing(o, p, s) == Moved(o, p, s) /\ busy' = busy

FitsKind(p, k) ==
    /\ p \notin {"new", "read", "enrol"}
    /\ p \in Enrolling => k = "register"
    /\ p \in Revoking \cup Classifying \cup Rotating => k # "register"
    /\ p = "accept" => k \in Ingesting
    /\ p \in Revoking => k = "revoke"
    /\ p \in Classifying => k = "classify"
    /\ p \in Rotating => k = "rotate"
    /\ p \in Filing => k \in Issuing \cup Foreign \cup {"revoke"}

LEMMA AbsentIsRecord == Absent \in Records /\ Absent.rev = 0 /\ Absent.state = "absent" /\ Absent.cred = None
  BY DEF Absent, Records, States

LEMMA EndMoves ==
  ASSUME IndInv, NEW o \in Ops, NEW how \in {"done", "failed"}, End(o, how)
  PROVE  Ended(o, how)
  <1>1. Moved(o, how, Absent)
    BY AbsentIsRecord DEF End, Moved, IndInv, TypeOK, Phases, Over, Filing
  <1>2. Freed(o)
    BY DEF End, Freed, IndInv, TypeOK
  <1> QED
    BY <1>1, <1>2 DEF Ended

(* With one process, revocations, rotations and classifications exclude    *)
(* each other, and so do the calls that issue credentials.                 *)
LEMMA LocalIsExclusive ==
  ASSUME IndInv, Local, NEW o \in Ops, NEW q \in Ops, Exclusively(o), Exclusively(q)
  PROVE  q = o
  BY DEF IndInv, OneAtATime, Exclusively, Exclusive, Local

LEMMA ChangingIsExclusive ==
  ASSUME IndInv, NEW o \in Ops,
         pc[o] \in Revoking \cup Rotating \/ InRevocation(o) \/ InRotation(o)
  PROVE  Exclusively(o)
  BY DEF IndInv, PhaseFitsKind, Exclusively, Exclusive, InRevocation, InRotation, Revoking, Rotating, Filing,
         Running, Over

LEMMA SaveMoves ==
  ASSUME IndInv, NEW o \in Ops, NEW document \in Records, NEW next \in Phases, Save(o, document, next)
  PROVE  \/ /\ seen[o] = rec
            /\ rec' \in Records
            /\ rec' = [document EXCEPT !.rev = rec.rev + 1]
            /\ Ongoing(o, next, rec') \/ Ended(o, "failed")
         \/ rec' = rec /\ Ended(o, "failed")
  <1> DEFINE stored == [document EXCEPT !.rev = rec.rev + 1]
  <1>1. stored \in Records
    <2>1. rec.rev + 1 \in Nat
      BY DEF IndInv, TypeOK, Records
    <2> QED
      BY <2>1 DEF Records
  <1>2. CASE /\ seen[o].rev = rec.rev
             /\ rec' = stored
             /\ pc' = [pc EXCEPT ![o] = next]
             /\ seen' = [seen EXCEPT ![o] = stored]
             /\ busy' = busy
    <2>1. seen[o] = rec
      BY <1>2 DEF IndInv, SeenIsHistory, Foreign
    <2>2. Ongoing(o, next, rec')
      <3> HIDE DEF stored
      <3> QED
        BY <1>1, <1>2 DEF Ongoing, Moved, IndInv, TypeOK
    <2> QED
      BY <1>1, <1>2, <2>1, <2>2
  <1>3. CASE seen[o].rev = rec.rev /\ rec' = stored /\ End(o, "failed")
    BY <1>1, <1>3, EndMoves DEF IndInv, SeenIsHistory, Foreign
  <1>4. CASE rec' = rec /\ End(o, "failed")
    BY <1>4, EndMoves
  <1> QED
    BY <1>2, <1>3, <1>4 DEF Save

(* The parts of the invariant that every step of a running call keeps in   *)
(* the same way.                                                           *)
LEMMA MoveInv ==
  ASSUME IndInv, NEW o \in Ops, NEW p \in Phases, NEW s \in Records, o \in Running,
         Moved(o, p, s), FitsKind(p, kind[o]), UNCHANGED <<kind, at>>,
         rec' = rec \/ (rec' \in Records /\ rec'.rev = rec.rev + 1 /\ rec'.state # "absent"),
         s \in {Absent, seen[o], rec'},
         s = seen[o] => rec' = rec \/ s = Absent,
         IF p \in Over THEN Freed(o) ELSE busy' = busy
  PROVE  PhaseFitsKind' /\ SeenIsHistory' /\ OneAtATime'
  <1> USE DEF IndInv
  <1>1. PhaseFitsKind'
    BY DEF PhaseFitsKind, Moved, FitsKind, Running, Over, TypeOK, Ingesting, Enrolling, Revoking, Classifying,
           Rotating, Filing, Issuing, Foreign
  <1>2. SeenIsHistory'
    <2>1. rec'.rev \in Nat /\ rec.rev \in Nat /\ \A q \in Ops : seen[q].rev \in Nat
      BY DEF TypeOK, Records
    <2>2. /\ rec'.rev = 0 <=> rec'.state = "absent"
          /\ rec'.state = "absent" => rec' = Absent
      BY <2>1 DEF SeenIsHistory, Foreign
    <2>3. /\ seen'[o].rev <= rec'.rev
          /\ seen'[o].rev = rec'.rev => seen'[o] = rec'
      BY <2>1, <2>2, AbsentIsRecord DEF SeenIsHistory, Moved, Foreign
    <2>4. ASSUME NEW q \in Ops, q # o
          PROVE  /\ seen'[q].rev <= rec'.rev
                 /\ seen'[q].rev = rec'.rev => seen'[q] = rec'
      BY <2>1, <2>4 DEF SeenIsHistory, Moved, Foreign
    <2>5. ASSUME NEW q \in Ops
          PROVE  /\ pc'[q] \in {"new", "read", "enrol"} => seen'[q] = Absent
                 /\ kind'[q] \notin {"none", "register"} \cup Foreign => rec'.state # "absent"
      BY <2>5 DEF SeenIsHistory, Moved, FitsKind, Foreign
    <2> QED
      BY <2>2, <2>3, <2>4, <2>5 DEF SeenIsHistory, Foreign
  <1>3. OneAtATime'
    BY DEF OneAtATime, Exclusively, Running, Over, Moved, Freed, TypeOK
  <1> QED
    BY <1>1, <1>2, <1>3

LEMMA EndedInv ==
  ASSUME IndInv, NEW o \in Ops, NEW how \in {"done", "failed"}, o \in Running,
         how = "done" => kind[o] \notin Issuing,
         Ended(o, how), admitted' \in BOOLEAN, disturbed' \in BOOLEAN,
         sample' = sample \/ \E s \in Servers : sample' = [sample EXCEPT ![s] = FALSE],
         UNCHANGED <<rec, broker, submitted, twins, kind, at, shown, stale, accepted, voided, crashes,
                     entry, held, spared>>
  PROVE  IndInv'
  <1> USE DEF IndInv
  <1>1. PhaseFitsKind' /\ SeenIsHistory' /\ OneAtATime'
    <2>1. FitsKind(how, kind[o]) /\ how \in Phases /\ how \in Over
      BY DEF FitsKind, Enrolling, Revoking, Classifying, Rotating, Phases, Over, Filing, Issuing, Foreign
    <2> QED
      BY <2>1, MoveInv, AbsentIsRecord DEF Ended
  <1>2. TypeOK'
    BY DEF TypeOK, Ended, Moved, Freed
  <1>3. MarkerBeforeSubmission'
    BY DEF MarkerBeforeSubmission, Ended, Moved
  <1>4. UnissuedIsUnknown'
    BY AbsentIsRecord, DeviceAssumption DEF UnissuedIsUnknown, Unissued, Ended, Moved
  <1>5. RegistrationFirst'
    <2>1. \A s \in Servers : ~sample[s] => ~sample'[s]
      BY DEF TypeOK
    <2> QED
      BY <2>1 DEF RegistrationFirst, Unanswered, Enrolling, Ended, Moved, PhaseFitsKind, Running, Over, Filing,
             Issuing, Foreign, InRevocation
  <1>6. VoidStaysRevoked'
    BY DEF VoidStaysRevoked, Ended, Moved, InRotation, InRevocation, Filing
  <1>7. VoidAtBroker'
    BY DEF VoidAtBroker, Unreleased, Ended, Moved, TypeOK, Credentials, Placed, Issuing
  <1>8. StaleIsRefused' /\ VoidedIsRejected'
    BY DEF StaleIsRefused, VoidedIsRejected, Ended, Moved
  <1>9. BrokerFollows'
    BY DEF BrokerFollows, Local, Usable, Ended, Moved, InRotation, InRevocation, Placed, Filing
  <1> QED
    BY <1>1, <1>2, <1>3, <1>4, <1>5, <1>6, <1>7, <1>8, <1>9

(* A call that stored its version of the record: it knew the latest one.   *)
Stored(o, next) ==
    /\ seen[o] = rec
    /\ rec' \in Records /\ rec'.rev = rec.rev + 1 /\ rec'.state # "absent"
    /\ rec'.cred = rec.cred \/ (rec'.cred = o /\ kind[o] \in {"register", "rotate"})
    /\ Ongoing(o, next, rec') \/ Ended(o, "failed")
    /\ UNCHANGED <<broker, submitted, twins, sample, kind, at, shown, stale, accepted, voided, crashes, access>>

LEMMA StoredInv ==
  ASSUME IndInv, NEW o \in Ops, NEW next \in Phases, o \in Running, FitsKind(next, kind[o]),
         next # "rotate", Stored(o, next)
  PROVE  TypeOK' /\ PhaseFitsKind' /\ SeenIsHistory' /\ OneAtATime' /\ UnissuedIsUnknown' /\ VoidedIsRejected'
  <1> USE DEF IndInv
  <1>1. PhaseFitsKind' /\ SeenIsHistory' /\ OneAtATime'
    <2>1. CASE Ongoing(o, next, rec')
      <3>1. Freed(o)
        BY <2>1 DEF Freed, Ongoing, TypeOK
      <3> QED
        BY <2>1, <3>1, MoveInv DEF Stored, Ongoing
    <2>2. CASE Ended(o, "failed")
      <3>1. FitsKind("failed", kind[o]) /\ "failed" \in Phases /\ "failed" \in Over
        BY DEF FitsKind, Enrolling, Revoking, Classifying, Rotating, Phases, Over, Filing, Issuing, Foreign
      <3> QED
        BY <2>2, <3>1, MoveInv, AbsentIsRecord DEF Stored, Ended
    <2> QED
      BY <2>1, <2>2 DEF Stored
  <1>2. TypeOK'
    BY DEF TypeOK, Stored, Ongoing, Ended, Moved, Freed
  <1>3. UnissuedIsUnknown'
    <2>1. \A q \in Ops : q # o => pc'[q] = pc[q] /\ seen'[q] = seen[q]
      BY DEF Stored, Ongoing, Ended, Moved
    <2>2. seen'[o].cred \in {None, rec'.cred}
      BY AbsentIsRecord DEF Stored, Ongoing, Ended, Moved
    <2>3. ~Unissued(o)' \/ rec'.cred = rec.cred
      BY DEF Unissued, Stored, Ongoing, Ended, Moved, FitsKind, Filing, Issuing, Foreign
    <2>4. Unissued(o)' => Unissued(o)
      BY DEF Unissued, Stored, Ongoing, Ended, Moved, FitsKind, Filing, Issuing, Foreign
    <2>5. \A q \in Ops : q # o => (Unissued(q)' <=> Unissued(q))
      BY <2>1 DEF Unissued, Stored
    <2> QED
      BY <2>1, <2>2, <2>3, <2>4, <2>5, DeviceAssumption DEF UnissuedIsUnknown, Stored
  <1>4. VoidedIsRejected'
    BY DEF VoidedIsRejected, Stored
  <1> QED
    BY <1>1, <1>2, <1>3, <1>4

-------------------------------------------------------------------------------
(* TenantRegistry *)

(* A step through the tenant file that places no credentials. *)
LEMMA FiledInv ==
  ASSUME IndInv, NEW o \in Ops, NEW p \in Phases,
         pc[o] \in Filing, p \in {"writeFile", "password", "acl", "enrolRead", "rotateSave"},
         p = "acl" => kind[o] \notin Issuing,
         p \in {"enrolRead", "rotateSave"} => pc[o] = "acl",
         Moved(o, p, seen[o]), FitsKind(p, kind[o]), busy' = busy,
         broker' \in {broker, None},
         sample' = sample \/ \E s \in Servers : sample' = [sample EXCEPT ![s] = FALSE],
         entry' \in Entries, admitted' \in BOOLEAN, held' \in [Ops -> Entries], disturbed' \in BOOLEAN,
         UNCHANGED <<rec, submitted, twins, kind, at, shown, stale, accepted, voided, crashes, spared>>
  PROVE  IndInv'
  <1> USE DEF IndInv
  <1>1. PhaseFitsKind' /\ SeenIsHistory' /\ OneAtATime'
    <2>1. o \in Running /\ seen[o] \in Records /\ p \notin Over
      BY DEF Running, Over, Filing, TypeOK
    <2> QED
      BY <2>1, MoveInv
  <1>2. TypeOK'
    BY DEF TypeOK, Moved
  <1>3. MarkerBeforeSubmission'
    BY DEF MarkerBeforeSubmission, Moved
  <1>4. UnissuedIsUnknown'
    BY AbsentIsRecord, DeviceAssumption DEF UnissuedIsUnknown, Unissued, Moved, Filing
  <1>5. RegistrationFirst'
    BY DEF RegistrationFirst, Unanswered, InRevocation, Enrolling, Filing, Moved, PhaseFitsKind, TypeOK
  <1>6. VoidStaysRevoked'
    BY DEF VoidStaysRevoked, InRotation, InRevocation, Filing, Moved
  <1>7. VoidAtBroker'
    BY DEF VoidAtBroker, Unreleased, Placed, Filing, Issuing, FitsKind, Enrolling, Rotating, Moved, TypeOK,
           Credentials
  <1>8. StaleIsRefused' /\ VoidedIsRejected'
    BY DEF StaleIsRefused, VoidedIsRejected, Moved, Filing
  <1>9. BrokerFollows'
    BY DEF BrokerFollows, Local, Usable, InRotation, InRevocation, Placed, Filing, Issuing, FitsKind,
           Enrolling, Rotating, Moved
  <1> QED
    BY <1>1, <1>2, <1>3, <1>4, <1>5, <1>6, <1>7, <1>8, <1>9

LEMMA WrittenIsEntry == ASSUME TypeOK, NEW o \in Ops PROVE Written(o) \in Entries
  BY DEF Written, TypeOK, Entries

LEMMA ReadFileInv ==
  ASSUME IndInv, NEW o \in Ops, ReadFile(o)
  PROVE  IndInv'
  <1> USE DEF IndInv
  <1>1. Moved(o, "writeFile", seen[o]) /\ "writeFile" \in Phases /\ FitsKind("writeFile", kind[o])
    BY DEF ReadFile, Moved, TypeOK, Phases, Filing, FitsKind, PhaseFitsKind, Enrolling, Revoking, Classifying,
           Rotating
  <1>2. held' \in [Ops -> Entries] /\ disturbed' \in BOOLEAN
    BY DEF ReadFile, TypeOK
  <1>3. sample' = sample \/ \E s \in Servers : sample' = [sample EXCEPT ![s] = FALSE]
    BY DEF ReadFile, Forgotten, TypeOK
  <1> QED
    BY <1>1, <1>2, <1>3, FiledInv DEF ReadFile, Filing, TypeOK

LEMMA WriteFileInv ==
  ASSUME IndInv, NEW o \in Ops, WriteFile(o)
  PROVE  IndInv'
  <1> USE DEF IndInv
  <1>1. Moved(o, "password", seen[o]) /\ "password" \in Phases /\ FitsKind("password", kind[o])
    BY DEF WriteFile, Moved, TypeOK, Phases, Filing, FitsKind, PhaseFitsKind, Enrolling, Revoking, Classifying,
           Rotating
  <1> QED
    BY <1>1, WrittenIsEntry, FiledInv DEF WriteFile, Filing, TypeOK

(* The password file takes new credentials, loses those of a revoked       *)
(* device, or is left to the calls for others.                             *)
LEMMA PasswordInv ==
  ASSUME IndInv, NEW o \in Ops, Password(o)
  PROVE  IndInv'
  <1> USE DEF IndInv
  <1>1. /\ Moved(o, "acl", seen[o]) /\ "acl" \in Phases /\ FitsKind("acl", kind[o])
        /\ o \in Running /\ pc[o] \in Filing /\ seen[o] \in Records
    BY DEF Password, Moved, TypeOK, Phases, Filing, FitsKind, PhaseFitsKind, Enrolling, Revoking, Classifying,
           Rotating, Running, Over
  <1>2. kind[o] \in Issuing \cup Foreign \cup {"revoke"}
    BY <1>1 DEF PhaseFitsKind
  <1>3. CASE kind[o] \in Foreign
    BY <1>1, <1>3, FiledInv DEF Password, Foreign, Issuing, TypeOK
  <1>4. CASE kind[o] \in Issuing \cup {"revoke"}
    <2>1. PhaseFitsKind' /\ SeenIsHistory' /\ OneAtATime'
      <3>1. "acl" \notin Over
        BY DEF Over
      <3> QED
        BY <1>1, <3>1, MoveInv DEF Password
    <2>2. /\ broker' \in {broker, None, o}
          /\ kind[o] \in Issuing => broker' = o /\ voided' = voided /\ spared' = spared
          /\ kind[o] = "revoke" =>
                /\ broker' \in {broker, None}
                /\ voided' = voided \cup {seen[o].cred}
                /\ spared \subseteq spared'
                /\ broker' = None \/ seen[o].cred \in spared'
      BY <1>4 DEF Password, Issuing
    <2>3. seen[o].cred \in Credentials \cup {None} /\ o \in Credentials
      BY <1>1 DEF Records, Credentials
    <2>4. TypeOK'
      BY <1>1, <2>2, <2>3 DEF Password, TypeOK, Moved
    <2>5. MarkerBeforeSubmission'
      BY <1>1 DEF Password, MarkerBeforeSubmission, Moved
    <2>6. UnissuedIsUnknown'
      BY <1>1, <2>2, AbsentIsRecord, DeviceAssumption DEF Password, UnissuedIsUnknown, Unissued, Moved, Issuing
    <2>7. RegistrationFirst'
      <3>1. rec # Absent
        BY <1>1, <1>4, AbsentIsRecord, DeviceAssumption DEF RegistrationFirst, Unanswered, SeenIsHistory,
               Filing,
               Issuing, Foreign
      <3>2. \A q \in Ops : Unanswered(q) => broker' \in {None, q}
        BY <1>4, <2>2 DEF RegistrationFirst, Unanswered, Issuing
      <3> QED
        BY <1>1, <3>1, <3>2 DEF Password, RegistrationFirst, Unanswered, InRevocation, Enrolling, Filing, Moved
    <2>8. VoidStaysRevoked'
      BY <1>1, <1>4, <2>2 DEF Password, VoidStaysRevoked, InRotation, InRevocation, Filing, Moved, Issuing
    <2>9. VoidAtBroker'
      <3>1. /\ \A q \in Ops : (Unreleased(q)' <=> Unreleased(q)) /\ (q # o => (Placed(q)' <=> Placed(q)))
            /\ kind' = kind /\ rec' = rec
        BY <1>1 DEF Password, Unreleased, Placed, Moved, Filing
      <3>2. CASE kind[o] = "register"
        <4>1. voided' = voided /\ spared' = spared /\ broker' = o /\ o # First /\ rec.state = "waiting"
          BY <1>1, <2>2, <3>2, AbsentIsRecord, DeviceAssumption DEF Issuing, RegistrationFirst, Unanswered,
                 SeenIsHistory, Filing
        <4>2. o \in voided => rec.revoked
          BY <1>1, <3>2 DEF VoidStaysRevoked, RegistrationFirst, Unanswered, Filing
        <4>3. \A p \in Ops : ~(Placed(p) /\ rec.cred = p)
          BY <3>2, <1>1 DEF RegistrationFirst, Unanswered, Placed, Filing
        <4> QED
          BY <3>1, <3>2, <4>1, <4>2, <4>3 DEF VoidAtBroker, Placed
      <3>3. CASE kind[o] = "rotate"
        BY <1>1, <2>2, <3>1, <3>3, DeviceAssumption DEF VoidAtBroker, Unreleased, Placed, Issuing, Filing
      <3>4. CASE kind[o] = "revoke"
        BY <1>1, <2>2, <3>1, <3>4 DEF VoidAtBroker, Placed, TypeOK, Credentials
      <3> QED
        BY <1>4, <3>2, <3>3, <3>4 DEF Issuing
    <2>10. StaleIsRefused' /\ VoidedIsRejected'
      BY <1>1, <1>4, <2>2 DEF Password, StaleIsRefused, VoidedIsRejected, Moved
    <2>11. BrokerFollows'
      <3>1. /\ \A q \in Ops : (InRotation(q)' <=> InRotation(q)) /\ (InRevocation(q)' <=> InRevocation(q))
            /\ \A q \in Ops : q # o => (Placed(q)' <=> Placed(q))
            /\ UNCHANGED <<kind, at, rec>>
        BY <1>1 DEF Password, InRotation, InRevocation, Placed, Moved, Filing
      <3>2. CASE kind[o] = "register"
        BY <1>1, <2>2, <3>1, <3>2 DEF BrokerFollows, Local, Usable, InRotation, RegistrationFirst, Unanswered,
               Issuing, Filing
      <3>3. CASE kind[o] = "rotate"
        <4>1. InRotation(o) /\ broker' = o
          BY <1>1, <2>2, <3>3 DEF InRotation, Issuing
        <4>2. \A q \in Ops : Local /\ InRotation(q) => q = o
          BY <4>1, LocalIsExclusive, ChangingIsExclusive
        <4> QED
          BY <3>1, <4>1, <4>2 DEF BrokerFollows, Local, Usable
      <3>4. CASE kind[o] = "revoke"
        BY <2>2, <3>1, <3>4 DEF BrokerFollows, Local, Usable, Placed
      <3> QED
        BY <1>4, <3>2, <3>3, <3>4 DEF Issuing
    <2> QED
      BY <2>1, <2>4, <2>5, <2>6, <2>7, <2>8, <2>9, <2>10, <2>11
  <1> QED
    BY <1>2, <1>3, <1>4

LEMMA WriteAclInv ==
  ASSUME IndInv, NEW o \in Ops, WriteAcl(o)
  PROVE  IndInv'
  <1> USE DEF IndInv
  <1> DEFINE next == IF kind[o] = "register" THEN "enrolRead" ELSE "rotateSave"
  <1>1. admitted' \in BOOLEAN /\ pc[o] \in Filing /\ o \in Running
    BY DEF WriteAcl, Filing, Running, Over
  <1>2. CASE kind[o] \in Issuing
    <2>1. Moved(o, next, seen[o]) /\ next \in Phases /\ FitsKind(next, kind[o]) /\ busy' = busy
      BY <1>2 DEF WriteAcl, Issuing, Moved, TypeOK, Phases, Filing, FitsKind, PhaseFitsKind, Enrolling,
             Revoking,
             Classifying, Rotating
    <2> QED
      BY <1>1, <1>2, <2>1, FiledInv DEF WriteAcl, TypeOK
  <1>3. CASE kind[o] \notin Issuing
    <2>1. End(o, "done")
      BY <1>3 DEF WriteAcl, Issuing
    <2> QED
      BY <1>1, <1>3, <2>1, EndMoves, EndedInv DEF WriteAcl, TypeOK
  <1> QED
    BY <1>2, <1>3

LEMMA AclFailsInv ==
  ASSUME IndInv, NEW o \in Ops, AclFails(o)
  PROVE  IndInv'
  <1>1. o \in Running /\ End(o, "failed") /\ admitted' \in BOOLEAN /\ disturbed' \in BOOLEAN
    BY DEF AclFails, Torn, Running, Over
  <1> QED
    BY <1>1, EndMoves, EndedInv DEF AclFails

-------------------------------------------------------------------------------
(* register *)

LEMMA EnrolInv ==
  ASSUME IndInv, NEW o \in Ops, Enrol(o)
  PROVE  IndInv'
  <1> USE DEF IndInv
  <1> DEFINE document == [Absent EXCEPT !.state = "waiting", !.cred = o]
  <1>1. document \in Records /\ "readFile" \in Phases /\ o \in Running /\ FitsKind("readFile", kind[o])
    <2>1. seen[o] \in Records /\ o \in Credentials \cup {None}
      BY DEF TypeOK, Credentials
    <2>2. document \in Records
      BY <2>1 DEF Records, States, Absent
    <2>3. kind[o] # "none" /\ "readFile" \in Phases /\ o \in Running /\ FitsKind("readFile", kind[o])
      BY DEF Enrol, Phases, Running, Over, FitsKind, PhaseFitsKind, Enrolling, Revoking, Classifying,
             Rotating, Filing, Issuing, Foreign
    <2> QED
      BY <2>2, <2>3
  <1>2. CASE rec' = rec /\ Ended(o, "failed")
    BY <1>1, <1>2, EndedInv DEF Enrol, TypeOK
  <1>3. CASE /\ seen[o] = rec
             /\ rec' \in Records
             /\ rec' = [document EXCEPT !.rev = rec.rev + 1]
             /\ Ongoing(o, "readFile", rec') \/ Ended(o, "failed")
    <2>1. /\ Stored(o, "readFile") /\ kind[o] = "register" /\ pc[o] = "enrol" /\ rec = Absent
          /\ rec'.state = "waiting" /\ rec'.cred = o
          /\ ~rec'.pending /\ ~rec'.revoked /\ ~rec'.file
          /\ \A q \in Ops : q # o => kind[q] \in {"none"} \cup Foreign
      <3>1. kind[o] = "register" /\ pc[o] = "enrol" /\ rec = Absent
        BY DEF Enrol, PhaseFitsKind, Enrolling, RegistrationFirst, Unanswered
      <3>2. \A q \in Ops : q # o => kind[q] \in {"none"} \cup Foreign
        BY <3>1, AbsentIsRecord DEF SeenIsHistory, RegistrationFirst
      <3>3. rec'.state = "waiting" /\ rec'.cred = o /\ ~rec'.pending /\ ~rec'.revoked /\ ~rec'.file
            /\ rec'.rev = rec.rev + 1
        BY <1>3 DEF Absent
      <3> QED
        BY <1>3, <3>1, <3>2, <3>3 DEF Stored, Enrol, Issuing
    <2>2. TypeOK' /\ PhaseFitsKind' /\ SeenIsHistory' /\ OneAtATime' /\ UnissuedIsUnknown' /\ VoidedIsRejected'
      BY <1>1, <2>1, StoredInv
    <2>3. MarkerBeforeSubmission'
      BY <2>1, AbsentIsRecord DEF MarkerBeforeSubmission, RegistrationFirst, Unanswered, Stored, Ongoing,
             Ended, Moved, InRevocation, Filing
    <2>4. RegistrationFirst'
      <3>1. /\ kind' = kind /\ broker' = broker /\ sample' = sample /\ shown' = shown
            /\ broker = None /\ \A s \in Servers : ~sample[s]
            /\ pc'[o] \in {"readFile", "failed"}
        BY <2>1 DEF Stored, Ongoing, Ended, Moved, RegistrationFirst
      <3>2. \A q \in Ops : kind'[q] # "register" => kind'[q] \in {"none"} \cup Foreign
        BY <2>1, <3>1
      <3>3. \A q \in Ops : shown[q] \in {None, First}
        BY <2>1 DEF RegistrationFirst, Unanswered
      <3>4. \A q \in Ops : pc'[q] \notin {"accept", "create", "createSave", "export"}
        BY <2>2, <3>1, <3>2 DEF PhaseFitsKind, Classifying, Ingesting, Foreign
      <3>5. rec' # Absent
        BY <2>1, AbsentIsRecord
      <3>6. \A q \in Ops : kind[q] = "register" => q = o
        BY <2>1 DEF Foreign
      <3> QED
        BY <2>1, <3>1, <3>2, <3>3, <3>4, <3>5, <3>6 DEF RegistrationFirst, Unanswered, InRevocation, Foreign
    <2>5. VoidStaysRevoked'
      BY <2>1, AbsentIsRecord DEF VoidStaysRevoked, UnissuedIsUnknown, Unissued, RegistrationFirst,
             Unanswered, PhaseFitsKind, Rotating, SeenIsHistory, Stored, Ongoing, Ended, Moved, Filing,
             Issuing, Foreign, InRevocation, InRotation
    <2>6. VoidAtBroker'
      BY <2>1 DEF VoidAtBroker, Unreleased, RegistrationFirst, Unanswered, UnissuedIsUnknown, Unissued,
             PhaseFitsKind, Rotating, Stored, Ongoing, Ended, Moved, Filing, Issuing, Foreign,
             InRevocation, Placed
    <2>7. StaleIsRefused'
      BY <2>1 DEF StaleIsRefused, RegistrationFirst, Unanswered, Stored, Ongoing, Ended, Moved,
             InRevocation, Filing
    <2>8. BrokerFollows'
      BY <2>1 DEF BrokerFollows, Usable, Stored, InRotation, InRevocation, Foreign
    <2> QED
      BY <2>2, <2>3, <2>4, <2>5, <2>6, <2>7, <2>8
  <1> QED
    BY <1>1, <1>2, <1>3, SaveMoves DEF Enrol

LEMMA EnrolFileInv ==
  ASSUME IndInv, NEW o \in Ops, EnrolFile(o)
  PROVE  IndInv'
  <1> USE DEF IndInv
  <1> DEFINE document == [seen[o] EXCEPT !.file = TRUE]
  <1>1. document \in Records /\ "done" \in Phases /\ o \in Running /\ FitsKind("done", kind[o])
    <2>1. seen[o] \in Records /\ o \in Credentials \cup {None}
      BY DEF TypeOK, Credentials
    <2>2. document \in Records
      BY <2>1 DEF Records, States, Absent
    <2>3. kind[o] # "none" /\ "done" \in Phases /\ o \in Running /\ FitsKind("done", kind[o])
      BY DEF EnrolFile, Phases, Running, Over, FitsKind, PhaseFitsKind, Enrolling, Revoking, Classifying,
             Rotating, Filing, Issuing, Foreign
    <2> QED
      BY <2>2, <2>3
  <1>2. CASE rec' = rec /\ Ended(o, "failed")
    BY <1>1, <1>2, EndedInv DEF EnrolFile, TypeOK
  <1>3. CASE /\ seen[o] = rec
             /\ rec' \in Records
             /\ rec' = [document EXCEPT !.rev = rec.rev + 1]
             /\ Ongoing(o, "done", rec') \/ Ended(o, "failed")
    <2>1. /\ Stored(o, "done") /\ kind[o] = "register" /\ pc[o] = "enrolFile"
          /\ rec'.state = rec.state /\ rec'.cred = rec.cred /\ rec'.pending = rec.pending
             /\ rec'.revoked = rec.revoked /\ rec'.file
          /\ \A q \in Ops : q # o => seen'[q].rev # rec'.rev
      <3>1. kind[o] = "register" /\ pc[o] = "enrolFile" /\ rec.state # "absent"
        BY AbsentIsRecord, DeviceAssumption DEF EnrolFile, PhaseFitsKind, SeenIsHistory, RegistrationFirst,
               Unanswered, Enrolling, Revoking, Classifying, Rotating, Filing, Issuing, Foreign, InRevocation
      <3>2. rec'.state = rec.state /\ rec'.cred = rec.cred /\ rec'.pending = rec.pending
            /\ rec'.revoked = rec.revoked /\ rec'.file
        BY <1>3, <3>1 DEF EnrolFile, TypeOK, Records, MarkerBeforeSubmission
      <3>3. Stored(o, "done")
        BY <1>3, <3>1, <3>2 DEF EnrolFile, Stored, TypeOK, Records
      <3>4. \A q \in Ops : q # o => seen'[q].rev # rec'.rev
        BY <1>3 DEF Ongoing, Ended, Moved, SeenIsHistory, TypeOK, Records, Foreign
      <3> QED
        BY <3>1, <3>2, <3>3, <3>4
    <2>2. TypeOK' /\ PhaseFitsKind' /\ SeenIsHistory' /\ OneAtATime' /\ UnissuedIsUnknown' /\ VoidedIsRejected'
      BY <1>1, <2>1, StoredInv
    <2>3. MarkerBeforeSubmission'
      BY <2>1 DEF MarkerBeforeSubmission, Stored, Ongoing, Ended, Moved
    <2>4. RegistrationFirst'
      BY <2>1, AbsentIsRecord DEF RegistrationFirst, Unanswered, Enrolling, Stored, Ongoing, Ended, Moved,
             PhaseFitsKind, Revoking, Classifying, Rotating, Over, Filing, Issuing, Foreign, InRevocation
    <2>5. VoidStaysRevoked'
      BY <2>1, AbsentIsRecord, DeviceAssumption DEF VoidStaysRevoked, UnissuedIsUnknown, Unissued,
             PhaseFitsKind, Rotating, Revoking, FitsKind, Stored, Ongoing, Ended, Moved, Filing, Issuing,
             Foreign, InRotation, InRevocation
    <2>6. VoidAtBroker'
      BY <1>1, <2>1, <2>2, AbsentIsRecord, DeviceAssumption DEF VoidAtBroker, Unreleased, Stored, Ongoing,
             Ended, Moved, PhaseFitsKind, SeenIsHistory, TypeOK, Enrolling, Revoking, Classifying,
             Rotating, Over,
             RegistrationFirst, Unanswered, Filing, Issuing, Foreign, InRevocation, Placed
    <2>7. StaleIsRefused'
      BY <2>1 DEF StaleIsRefused, Stored, Ongoing, Ended, Moved
    <2>8. BrokerFollows'
      BY <1>1, <2>1, <2>2, AbsentIsRecord, DeviceAssumption DEF BrokerFollows, Local, Usable, Stored, Ongoing,
             Ended, Moved, PhaseFitsKind, SeenIsHistory, TypeOK, Enrolling, Revoking, Classifying,
             Rotating, Over,
             RegistrationFirst, Unanswered, Filing, Issuing, Foreign, InRevocation, InRotation, Placed
    <2> QED
      BY <2>2, <2>3, <2>4, <2>5, <2>6, <2>7, <2>8
  <1> QED
    BY <1>1, <1>2, <1>3, SaveMoves DEF EnrolFile

LEMMA RevokeInv ==
  ASSUME IndInv, NEW o \in Ops, Revoke(o)
  PROVE  IndInv'
  <1> USE DEF IndInv
  <1> DEFINE document == [seen[o] EXCEPT !.revoked = TRUE]
  <1>1. document \in Records /\ "readFile" \in Phases /\ o \in Running /\ FitsKind("readFile", kind[o])
    <2>1. seen[o] \in Records /\ o \in Credentials \cup {None}
      BY DEF TypeOK, Credentials
    <2>2. document \in Records
      BY <2>1 DEF Records, States, Absent
    <2>3. kind[o] # "none" /\ "readFile" \in Phases /\ o \in Running /\ FitsKind("readFile", kind[o])
      BY DEF Revoke, Phases, Running, Over, FitsKind, PhaseFitsKind, Enrolling, Revoking, Classifying,
             Rotating, Filing, Issuing, Foreign
    <2> QED
      BY <2>2, <2>3
  <1>2. CASE rec' = rec /\ Ended(o, "failed")
    BY <1>1, <1>2, EndedInv DEF Revoke, TypeOK
  <1>3. CASE /\ seen[o] = rec
             /\ rec' \in Records
             /\ rec' = [document EXCEPT !.rev = rec.rev + 1]
             /\ Ongoing(o, "readFile", rec') \/ Ended(o, "failed")
    <2>1. /\ Stored(o, "readFile") /\ kind[o] = "revoke" /\ pc[o] = "revoke"
          /\ rec'.state = rec.state /\ rec'.cred = rec.cred /\ rec'.file = rec.file /\ rec'.pending = rec.pending
             /\ rec'.revoked
          /\ \A q \in Ops : q # o => seen'[q].rev # rec'.rev
      <3>1. kind[o] = "revoke" /\ pc[o] = "revoke" /\ rec.state # "absent"
        BY AbsentIsRecord, DeviceAssumption DEF Revoke, PhaseFitsKind, SeenIsHistory, RegistrationFirst,
               Unanswered, Enrolling, Revoking, Classifying, Rotating, Filing, Issuing, Foreign, InRevocation
      <3>2. rec'.state = rec.state /\ rec'.cred = rec.cred /\ rec'.file = rec.file /\ rec'.pending = rec.pending
            /\ rec'.revoked
        BY <1>3, <3>1 DEF Revoke, TypeOK, Records, MarkerBeforeSubmission
      <3>3. Stored(o, "readFile")
        BY <1>3, <3>1, <3>2 DEF Revoke, Stored, TypeOK, Records
      <3>4. \A q \in Ops : q # o => seen'[q].rev # rec'.rev
        BY <1>3 DEF Ongoing, Ended, Moved, SeenIsHistory, TypeOK, Records, Foreign
      <3> QED
        BY <3>1, <3>2, <3>3, <3>4
    <2>2. TypeOK' /\ PhaseFitsKind' /\ SeenIsHistory' /\ OneAtATime' /\ UnissuedIsUnknown' /\ VoidedIsRejected'
      BY <1>1, <2>1, StoredInv
    <2>3. MarkerBeforeSubmission'
      BY <2>1 DEF MarkerBeforeSubmission, Stored, Ongoing, Ended, Moved
    <2>4. RegistrationFirst'
      BY <2>1, AbsentIsRecord DEF RegistrationFirst, Unanswered, Enrolling, Stored, Ongoing, Ended, Moved,
             PhaseFitsKind, Revoking, Classifying, Rotating, Over, Filing, Issuing, Foreign, InRevocation
    <2>5. VoidStaysRevoked'
      BY <2>1, AbsentIsRecord, DeviceAssumption DEF VoidStaysRevoked, UnissuedIsUnknown, Unissued,
             PhaseFitsKind, Rotating, Revoking, FitsKind, Stored, Ongoing, Ended, Moved, Filing, Issuing,
             Foreign, InRotation, InRevocation
    <2>6. VoidAtBroker'
      BY <2>1 DEF TypeOK, VoidAtBroker, Unreleased, Credentials, Stored, Ongoing, Ended, Moved, Placed
    <2>7. StaleIsRefused'
      BY <2>1 DEF StaleIsRefused, Stored, Ongoing, Ended, Moved
    <2>8. BrokerFollows'
      BY <2>1 DEF BrokerFollows, Local, Usable, Stored, Ongoing, Ended, Moved, InRotation, InRevocation,
         Placed, Filing
    <2> QED
      BY <2>2, <2>3, <2>4, <2>5, <2>6, <2>7, <2>8
  <1> QED
    BY <1>1, <1>2, <1>3, SaveMoves DEF Revoke

LEMMA ClassifyInv ==
  ASSUME IndInv, NEW o \in Ops, Classify(o)
  PROVE  IndInv'
  <1> USE DEF IndInv
  <1> DEFINE document == [seen[o] EXCEPT !.state = "creating"]
  <1>1. document \in Records /\ "create" \in Phases /\ o \in Running /\ FitsKind("create", kind[o])
    <2>1. seen[o] \in Records /\ o \in Credentials \cup {None}
      BY DEF TypeOK, Credentials
    <2>2. document \in Records
      BY <2>1 DEF Records, States, Absent
    <2>3. kind[o] # "none" /\ "create" \in Phases /\ o \in Running /\ FitsKind("create", kind[o])
      BY DEF Classify, Phases, Running, Over, FitsKind, PhaseFitsKind, Enrolling, Revoking, Classifying,
             Rotating, Filing, Issuing, Foreign
    <2> QED
      BY <2>2, <2>3
  <1>2. CASE rec' = rec /\ Ended(o, "failed")
    BY <1>1, <1>2, EndedInv DEF Classify, TypeOK
  <1>3. CASE /\ seen[o] = rec
             /\ rec' \in Records
             /\ rec' = [document EXCEPT !.rev = rec.rev + 1]
             /\ Ongoing(o, "create", rec') \/ Ended(o, "failed")
    <2>1. /\ Stored(o, "create") /\ kind[o] = "classify" /\ pc[o] = "classify"
          /\ rec'.cred = rec.cred /\ rec'.file = rec.file /\ rec'.pending = rec.pending
             /\ rec'.revoked = rec.revoked /\ rec.state = "waiting" /\ rec'.state = "creating" /\ ~rec.revoked
             /\ sample[at[o]]
          /\ \A q \in Ops : q # o => seen'[q].rev # rec'.rev
      <3>1. kind[o] = "classify" /\ pc[o] = "classify" /\ rec.state # "absent"
        BY AbsentIsRecord, DeviceAssumption DEF Classify, PhaseFitsKind, SeenIsHistory, RegistrationFirst,
               Unanswered, Enrolling, Revoking, Classifying, Rotating, Filing, Issuing, Foreign, InRevocation
      <3>2. rec'.cred = rec.cred /\ rec'.file = rec.file /\ rec'.pending = rec.pending /\ rec'.revoked = rec.revoked
            /\ rec.state = "waiting" /\ rec'.state = "creating" /\ ~rec.revoked /\ sample[at[o]]
        BY <1>3, <3>1 DEF Classify, TypeOK, Records, MarkerBeforeSubmission
      <3>3. Stored(o, "create")
        BY <1>3, <3>1, <3>2 DEF Classify, Stored, TypeOK, Records
      <3>4. \A q \in Ops : q # o => seen'[q].rev # rec'.rev
        BY <1>3 DEF Ongoing, Ended, Moved, SeenIsHistory, TypeOK, Records, Foreign
      <3> QED
        BY <3>1, <3>2, <3>3, <3>4
    <2>2. TypeOK' /\ PhaseFitsKind' /\ SeenIsHistory' /\ OneAtATime' /\ UnissuedIsUnknown' /\ VoidedIsRejected'
      BY <1>1, <2>1, StoredInv
    <2>3. MarkerBeforeSubmission'
      BY <2>1 DEF MarkerBeforeSubmission, Stored, Ongoing, Ended, Moved
    <2>4. RegistrationFirst'
      BY <1>1, <2>1, <2>2, AbsentIsRecord, DeviceAssumption DEF RegistrationFirst, Unanswered, Enrolling,
             Stored, Ongoing, Ended, Moved, PhaseFitsKind, SeenIsHistory, TypeOK, Revoking, Classifying,
             Rotating,
             Over, Filing, Issuing, Foreign, InRevocation
    <2>5. VoidStaysRevoked'
      BY <2>1, AbsentIsRecord, DeviceAssumption DEF VoidStaysRevoked, UnissuedIsUnknown, Unissued,
             PhaseFitsKind, Rotating, Revoking, FitsKind, Stored, Ongoing, Ended, Moved, Filing, Issuing,
             Foreign, InRotation, InRevocation
    <2>6. VoidAtBroker'
      BY <2>1 DEF TypeOK, VoidAtBroker, Unreleased, Credentials, Stored, Ongoing, Ended, Moved, Placed
    <2>7. StaleIsRefused'
      BY <2>1 DEF StaleIsRefused, Stored, Ongoing, Ended, Moved
    <2>8. BrokerFollows'
      BY <2>1 DEF BrokerFollows, Local, Usable, Stored, Ongoing, Ended, Moved, InRotation, InRevocation,
         Placed, Filing
    <2> QED
      BY <2>2, <2>3, <2>4, <2>5, <2>6, <2>7, <2>8
  <1> QED
    BY <1>1, <1>2, <1>3, SaveMoves DEF Classify

LEMMA CreateSaveInv ==
  ASSUME IndInv, NEW o \in Ops, CreateSave(o)
  PROVE  IndInv'
  <1> USE DEF IndInv
  <1> DEFINE document == [seen[o] EXCEPT !.state = "created"]
  <1>1. document \in Records /\ "export" \in Phases /\ o \in Running /\ FitsKind("export", kind[o])
    <2>1. seen[o] \in Records /\ o \in Credentials \cup {None}
      BY DEF TypeOK, Credentials
    <2>2. document \in Records
      BY <2>1 DEF Records, States, Absent
    <2>3. kind[o] # "none" /\ "export" \in Phases /\ o \in Running /\ FitsKind("export", kind[o])
      BY DEF CreateSave, Phases, Running, Over, FitsKind, PhaseFitsKind, Enrolling, Revoking, Classifying,
             Rotating, Filing, Issuing, Foreign
    <2> QED
      BY <2>2, <2>3
  <1>2. CASE rec' = rec /\ Ended(o, "failed")
    BY <1>1, <1>2, EndedInv DEF CreateSave, TypeOK
  <1>3. CASE /\ seen[o] = rec
             /\ rec' \in Records
             /\ rec' = [document EXCEPT !.rev = rec.rev + 1]
             /\ Ongoing(o, "export", rec') \/ Ended(o, "failed")
    <2>1. /\ Stored(o, "export") /\ kind[o] = "classify" /\ pc[o] = "createSave"
          /\ rec'.cred = rec.cred /\ rec'.file = rec.file /\ rec'.pending = rec.pending
             /\ rec'.revoked = rec.revoked /\ rec.state = "creating" /\ rec'.state = "created"
          /\ \A q \in Ops : q # o => seen'[q].rev # rec'.rev
      <3>1. kind[o] = "classify" /\ pc[o] = "createSave" /\ rec.state # "absent"
        BY AbsentIsRecord, DeviceAssumption DEF CreateSave, PhaseFitsKind, SeenIsHistory, RegistrationFirst,
               Unanswered, Enrolling, Revoking, Classifying, Rotating, Filing, Issuing, Foreign, InRevocation
      <3>2. rec'.cred = rec.cred /\ rec'.file = rec.file /\ rec'.pending = rec.pending /\ rec'.revoked = rec.revoked
            /\ rec.state = "creating" /\ rec'.state = "created"
        BY <1>3, <3>1 DEF CreateSave, TypeOK, Records, MarkerBeforeSubmission
      <3>3. Stored(o, "export")
        BY <1>3, <3>1, <3>2 DEF CreateSave, Stored, TypeOK, Records
      <3>4. \A q \in Ops : q # o => seen'[q].rev # rec'.rev
        BY <1>3 DEF Ongoing, Ended, Moved, SeenIsHistory, TypeOK, Records, Foreign
      <3> QED
        BY <3>1, <3>2, <3>3, <3>4
    <2>2. TypeOK' /\ PhaseFitsKind' /\ SeenIsHistory' /\ OneAtATime' /\ UnissuedIsUnknown' /\ VoidedIsRejected'
      BY <1>1, <2>1, StoredInv
    <2>3. MarkerBeforeSubmission'
      BY <2>1 DEF MarkerBeforeSubmission, Stored, Ongoing, Ended, Moved
    <2>4. RegistrationFirst'
      BY <2>1, AbsentIsRecord DEF RegistrationFirst, Unanswered, Enrolling, Stored, Ongoing, Ended, Moved,
             PhaseFitsKind, Revoking, Classifying, Rotating, Over, Filing, Issuing, Foreign, InRevocation
    <2>5. VoidStaysRevoked'
      BY <2>1, AbsentIsRecord, DeviceAssumption DEF VoidStaysRevoked, UnissuedIsUnknown, Unissued,
             PhaseFitsKind, Rotating, Revoking, FitsKind, Stored, Ongoing, Ended, Moved, Filing, Issuing,
             Foreign, InRotation, InRevocation
    <2>6. VoidAtBroker'
      BY <2>1 DEF TypeOK, VoidAtBroker, Unreleased, Credentials, Stored, Ongoing, Ended, Moved, Placed
    <2>7. StaleIsRefused'
      BY <2>1 DEF StaleIsRefused, Stored, Ongoing, Ended, Moved
    <2>8. BrokerFollows'
      BY <2>1 DEF BrokerFollows, Local, Usable, Stored, Ongoing, Ended, Moved, InRotation, InRevocation,
         Placed, Filing
    <2> QED
      BY <2>2, <2>3, <2>4, <2>5, <2>6, <2>7, <2>8
  <1> QED
    BY <1>1, <1>2, <1>3, SaveMoves DEF CreateSave

LEMMA RotateInv ==
  ASSUME IndInv, NEW o \in Ops, Rotate(o)
  PROVE  IndInv'
  <1> USE DEF IndInv
  <1> DEFINE document == [seen[o] EXCEPT !.pending = TRUE, !.file = TRUE, !.cred = o]
  <1>1. document \in Records /\ "readFile" \in Phases /\ o \in Running /\ FitsKind("readFile", kind[o])
    <2>1. seen[o] \in Records /\ o \in Credentials \cup {None}
      BY DEF TypeOK, Credentials
    <2>2. document \in Records
      BY <2>1 DEF Records, States, Absent
    <2>3. kind[o] # "none" /\ "readFile" \in Phases /\ o \in Running /\ FitsKind("readFile", kind[o])
      BY DEF Rotate, Phases, Running, Over, FitsKind, PhaseFitsKind, Enrolling, Revoking, Classifying,
             Rotating, Filing, Issuing, Foreign
    <2> QED
      BY <2>2, <2>3
  <1>2. CASE rec' = rec /\ Ended(o, "failed")
    BY <1>1, <1>2, EndedInv DEF Rotate, TypeOK
  <1>3. CASE /\ seen[o] = rec
             /\ rec' \in Records
             /\ rec' = [document EXCEPT !.rev = rec.rev + 1]
             /\ Ongoing(o, "readFile", rec') \/ Ended(o, "failed")
    <2>1. /\ Stored(o, "readFile") /\ kind[o] = "rotate" /\ pc[o] = "rotate"
          /\ rec'.state = rec.state /\ rec'.revoked = rec.revoked /\ rec'.pending /\ rec'.file /\ rec'.cred = o
             /\ rec.state = "created"
          /\ \A q \in Ops : q # o => seen'[q].rev # rec'.rev
      <3>1. kind[o] = "rotate" /\ pc[o] = "rotate" /\ rec.state # "absent"
        BY AbsentIsRecord, DeviceAssumption DEF Rotate, PhaseFitsKind, SeenIsHistory, RegistrationFirst,
               Unanswered, Enrolling, Revoking, Classifying, Rotating, Filing, Issuing, Foreign, InRevocation
      <3>2. rec'.state = rec.state /\ rec'.revoked = rec.revoked /\ rec'.pending /\ rec'.file /\ rec'.cred = o
            /\ rec.state = "created"
        BY <1>3, <3>1 DEF Rotate, TypeOK, Records, MarkerBeforeSubmission
      <3>3. Stored(o, "readFile")
        BY <1>3, <3>1, <3>2 DEF Rotate, Stored, TypeOK, Records
      <3>4. \A q \in Ops : q # o => seen'[q].rev # rec'.rev
        BY <1>3 DEF Ongoing, Ended, Moved, SeenIsHistory, TypeOK, Records, Foreign
      <3> QED
        BY <3>1, <3>2, <3>3, <3>4
    <2>2. TypeOK' /\ PhaseFitsKind' /\ SeenIsHistory' /\ OneAtATime' /\ UnissuedIsUnknown' /\ VoidedIsRejected'
      BY <1>1, <2>1, StoredInv
    <2>3. MarkerBeforeSubmission'
      BY <2>1 DEF MarkerBeforeSubmission, Stored, Ongoing, Ended, Moved
    <2>4. RegistrationFirst'
      BY <2>1, AbsentIsRecord DEF RegistrationFirst, Unanswered, Enrolling, Stored, Ongoing, Ended, Moved,
             PhaseFitsKind, Revoking, Classifying, Rotating, Over, Filing, Issuing, Foreign, InRevocation
    <2>5. VoidStaysRevoked'
      BY <2>1, AbsentIsRecord, DeviceAssumption DEF VoidStaysRevoked, UnissuedIsUnknown, Unissued,
             PhaseFitsKind, Rotating, Revoking, FitsKind, Stored, Ongoing, Ended, Moved, Filing, Issuing,
             Foreign, InRotation, InRevocation
    <2>6. VoidAtBroker'
      BY <2>1 DEF TypeOK, VoidAtBroker, Unreleased, Credentials, Stored, Ongoing, Ended, Moved, Placed
    <2>7. StaleIsRefused'
      BY <2>1 DEF StaleIsRefused, Stored, Ongoing, Ended, Moved
    <2>8. BrokerFollows'
      <3>1. rec'.pending /\ rec'.cred = o
        BY <2>1
      <3>2. /\ pc'[o] \in {"readFile", "failed"} /\ \A q \in Ops : q # o => pc'[q] = pc[q]
            /\ UNCHANGED <<kind, at>>
        BY <2>1 DEF Stored, Ongoing, Ended, Moved
      <3>3. \A q \in Ops : Local /\ (InRevocation(q) \/ InRotation(q)) => q = o
        BY <2>1, LocalIsExclusive, ChangingIsExclusive DEF Rotating
      <3> QED
        BY <2>1, <3>1, <3>2, <3>3 DEF BrokerFollows, Local, Usable, InRotation, InRevocation, Placed
    <2> QED
      BY <2>2, <2>3, <2>4, <2>5, <2>6, <2>7, <2>8
  <1> QED
    BY <1>1, <1>2, <1>3, SaveMoves DEF Rotate

LEMMA RotateSaveInv ==
  ASSUME IndInv, NEW o \in Ops, RotateSave(o)
  PROVE  IndInv'
  <1> USE DEF IndInv
  <1> DEFINE document == [seen[o] EXCEPT !.pending = FALSE, !.revoked = FALSE]
  <1>1. document \in Records /\ "rotated" \in Phases /\ o \in Running /\ FitsKind("rotated", kind[o])
    <2>1. seen[o] \in Records /\ o \in Credentials \cup {None}
      BY DEF TypeOK, Credentials
    <2>2. document \in Records
      BY <2>1 DEF Records, States, Absent
    <2>3. kind[o] # "none" /\ "rotated" \in Phases /\ o \in Running /\ FitsKind("rotated", kind[o])
      BY DEF RotateSave, Phases, Running, Over, FitsKind, PhaseFitsKind, Enrolling, Revoking, Classifying,
             Rotating, Filing, Issuing, Foreign
    <2> QED
      BY <2>2, <2>3
  <1>2. CASE rec' = rec /\ Ended(o, "failed")
    BY <1>1, <1>2, EndedInv DEF RotateSave, TypeOK
  <1>3. CASE /\ seen[o] = rec
             /\ rec' \in Records
             /\ rec' = [document EXCEPT !.rev = rec.rev + 1]
             /\ Ongoing(o, "rotated", rec') \/ Ended(o, "failed")
    <2>1. /\ Stored(o, "rotated") /\ kind[o] = "rotate" /\ pc[o] = "rotateSave"
          /\ rec'.state = rec.state /\ rec'.cred = rec.cred /\ rec'.file = rec.file /\ ~rec'.pending
             /\ ~rec'.revoked /\ rec.cred = o /\ rec.state = "created"
          /\ \A q \in Ops : q # o => seen'[q].rev # rec'.rev
      <3>1. kind[o] = "rotate" /\ pc[o] = "rotateSave" /\ rec.state # "absent"
        BY AbsentIsRecord, DeviceAssumption DEF RotateSave, PhaseFitsKind, SeenIsHistory, RegistrationFirst,
               Unanswered, Enrolling, Revoking, Classifying, Rotating, Filing, Issuing, Foreign, InRevocation
      <3>2. rec'.state = rec.state /\ rec'.cred = rec.cred /\ rec'.file = rec.file /\ ~rec'.pending /\ ~rec'.revoked
            /\ rec.cred = o /\ rec.state = "created"
        BY <1>3, <3>1 DEF RotateSave, TypeOK, Records, MarkerBeforeSubmission, VoidStaysRevoked, InRotation,
           InRevocation, Filing
      <3>3. Stored(o, "rotated")
        BY <1>3, <3>1, <3>2 DEF RotateSave, Stored, TypeOK, Records
      <3>4. \A q \in Ops : q # o => seen'[q].rev # rec'.rev
        BY <1>3 DEF Ongoing, Ended, Moved, SeenIsHistory, TypeOK, Records, Foreign
      <3> QED
        BY <3>1, <3>2, <3>3, <3>4
    <2>2. TypeOK' /\ PhaseFitsKind' /\ SeenIsHistory' /\ OneAtATime' /\ UnissuedIsUnknown' /\ VoidedIsRejected'
      BY <1>1, <2>1, StoredInv
    <2>3. MarkerBeforeSubmission'
      BY <2>1 DEF MarkerBeforeSubmission, Stored, Ongoing, Ended, Moved
    <2>4. RegistrationFirst'
      BY <2>1, AbsentIsRecord DEF RegistrationFirst, Unanswered, Enrolling, Stored, Ongoing, Ended, Moved,
             PhaseFitsKind, Revoking, Classifying, Rotating, Over, Filing, Issuing, Foreign, InRevocation
    <2>5. VoidStaysRevoked'
      BY <2>1, AbsentIsRecord, DeviceAssumption DEF VoidStaysRevoked, UnissuedIsUnknown, Unissued,
             PhaseFitsKind, Rotating, Revoking, FitsKind, Stored, Ongoing, Ended, Moved, Filing, Issuing,
             Foreign, InRotation, InRevocation
    <2>6. VoidAtBroker'
      BY <2>1 DEF TypeOK, VoidStaysRevoked, VoidAtBroker, Unreleased, Credentials, Stored, Ongoing, Ended,
         Moved, InRotation, InRevocation, Filing, Placed
    <2>7. StaleIsRefused'
      BY <2>1 DEF StaleIsRefused, Stored, Ongoing, Ended, Moved
    <2>8. BrokerFollows'
      BY <1>1, <2>1, <2>2, AbsentIsRecord, DeviceAssumption DEF BrokerFollows, Local, Usable, Stored, Ongoing,
             Ended, Moved, PhaseFitsKind, SeenIsHistory, TypeOK, Enrolling, Revoking, Classifying,
             Rotating, Over,
             OneAtATime, Exclusively, Running, Exclusive, Filing, Issuing, Foreign, InRotation,
             InRevocation, Placed
    <2> QED
      BY <2>2, <2>3, <2>4, <2>5, <2>6, <2>7, <2>8
  <1> QED
    BY <1>1, <1>2, <1>3, SaveMoves DEF RotateSave

LEMMA EnrolReadInv ==
  ASSUME IndInv, NEW o \in Ops, EnrolRead(o)
  PROVE  IndInv'
  <1> USE DEF IndInv
  <1>1. /\ Moved(o, "enrolFile", rec) /\ FitsKind("enrolFile", kind[o]) /\ o \in Running
        /\ "enrolFile" \in Phases /\ rec \in Records /\ Freed(o)
    BY AbsentIsRecord DEF EnrolRead, Moved, Freed, FitsKind, PhaseFitsKind, TypeOK, Phases, Kinds, Enrolling,
           Revoking, Classifying, Rotating, Over, Running, Ingesting, Exclusive, Credentials, Filing,
           Issuing, Foreign
  <1>2. PhaseFitsKind' /\ SeenIsHistory' /\ OneAtATime'
    BY <1>1, MoveInv DEF EnrolRead, Over
  <1>3. TypeOK'
    BY <1>1, <1>2 DEF EnrolRead, TypeOK, Phases, Moved, Freed, Ended, Filing
  <1>4. MarkerBeforeSubmission'
    BY <1>1 DEF EnrolRead, MarkerBeforeSubmission, Moved, Ended
  <1>5. UnissuedIsUnknown'
    BY <1>1 DEF EnrolRead, UnissuedIsUnknown, Unissued, Moved, Ended
  <1>6. RegistrationFirst'
    BY <1>1 DEF EnrolRead, RegistrationFirst, Unanswered, Enrolling, Moved, Ended, InRevocation, Filing
  <1>7. VoidStaysRevoked'
    BY <1>1 DEF EnrolRead, VoidStaysRevoked, Moved, Ended, InRotation, InRevocation, Filing
  <1>8. VoidAtBroker'
    BY <1>1 DEF EnrolRead, VoidAtBroker, Unreleased, Moved, Ended, Placed
  <1>9. StaleIsRefused'
    BY <1>1 DEF EnrolRead, StaleIsRefused, Moved, Ended
  <1>10. BrokerFollows'
    BY <1>1 DEF EnrolRead, BrokerFollows, Local, Usable, Moved, Ended, InRotation, InRevocation, Placed, Filing
  <1>11. VoidedIsRejected'
    BY <1>1 DEF EnrolRead, VoidedIsRejected, Moved, Ended
  <1> QED
    BY <1>1, <1>2, <1>3, <1>4, <1>5, <1>6, <1>7, <1>8, <1>9, <1>10, <1>11

-------------------------------------------------------------------------------
(* ingest *)

LEMMA ReadInv ==
  ASSUME IndInv, NEW o \in Ops, Read(o)
  PROVE  IndInv'
  <1> USE DEF IndInv
  <1> DEFINE p == IF kind[o] \in Ingesting THEN "accept" ELSE kind[o]
  <1>1. /\ Moved(o, p, rec) /\ FitsKind(p, kind[o]) /\ o \in Running
        /\ p \in Phases /\ rec \in Records /\ Freed(o)
    BY AbsentIsRecord DEF Read, Moved, Freed, FitsKind, PhaseFitsKind, TypeOK, Phases, Kinds, Enrolling,
           Revoking, Classifying, Rotating, Over, Running, Ingesting, Exclusive, Credentials, Filing,
           Issuing, Foreign
  <1>2. PhaseFitsKind' /\ SeenIsHistory' /\ OneAtATime'
    BY <1>1, MoveInv DEF Read, Over
  <1>3. TypeOK'
    BY <1>1, <1>2 DEF Read, TypeOK, Phases, Moved, Freed, Ended, Filing
  <1>4. MarkerBeforeSubmission'
    BY <1>1, <1>2, AbsentIsRecord, DeviceAssumption DEF Read, MarkerBeforeSubmission, Moved, Ended,
           PhaseFitsKind, SeenIsHistory, TypeOK, Enrolling, Revoking, Classifying, Rotating, Over, Filing,
           Issuing, Foreign
  <1>5. UnissuedIsUnknown'
    BY <1>1 DEF Read, UnissuedIsUnknown, Unissued, Moved, Ended
  <1>6. RegistrationFirst'
    BY <1>1, <1>2, AbsentIsRecord, DeviceAssumption DEF Read, RegistrationFirst, Unanswered, Enrolling, Moved,
           Ended, PhaseFitsKind, SeenIsHistory, TypeOK, Revoking, Classifying, Rotating, Over, Filing,
           Issuing, Foreign, InRevocation
  <1>7. VoidStaysRevoked'
    BY <1>1, <1>2, AbsentIsRecord, DeviceAssumption DEF Read, VoidStaysRevoked, Moved, Ended, PhaseFitsKind,
           SeenIsHistory, TypeOK, Enrolling, Revoking, Classifying, Rotating, Over, Filing, Issuing,
           Foreign, InRotation, InRevocation
  <1>8. VoidAtBroker'
    BY <1>1, <1>2, AbsentIsRecord, DeviceAssumption DEF Read, VoidAtBroker, Unreleased, Moved, Ended,
           PhaseFitsKind, SeenIsHistory, TypeOK, Enrolling, Revoking, Classifying, Rotating, Over, Filing,
           Issuing, Foreign, Placed
  <1>9. StaleIsRefused'
    BY DEF Read, TypeOK, Kinds, VoidStaysRevoked, StaleIsRefused, Ingesting, Exclusive, Issuing, Foreign
  <1>10. BrokerFollows'
    BY <1>1, <1>2, AbsentIsRecord, DeviceAssumption DEF Read, BrokerFollows, Local, Usable, Moved, Ended,
           PhaseFitsKind, SeenIsHistory, TypeOK, Enrolling, Revoking, Classifying, Rotating, Over, Filing,
           Issuing, Foreign, InRotation, InRevocation, Placed
  <1>11. VoidedIsRejected'
    BY <1>1 DEF Read, VoidedIsRejected, Moved, Ended
  <1> QED
    BY <1>1, <1>2, <1>3, <1>4, <1>5, <1>6, <1>7, <1>8, <1>9, <1>10, <1>11

LEMMA AcceptInv ==
  ASSUME IndInv, NEW o \in Ops, Accept(o)
  PROVE  IndInv'
  <1> USE DEF IndInv
  <1> DEFINE how == IF Admissible(o) THEN "done" ELSE "failed"
  <1>1. Ended(o, how) /\ o \in Running /\ FitsKind(how, kind[o]) /\ how \in Phases \cap Over
    BY EndMoves DEF Accept, FitsKind, PhaseFitsKind, Phases, Enrolling, Revoking, Classifying, Rotating, Over,
           Running, Ingesting, Exclusive, Credentials, Filing, Issuing, Foreign
  <1>2. PhaseFitsKind' /\ SeenIsHistory' /\ OneAtATime'
    BY <1>1, MoveInv, AbsentIsRecord DEF Accept, Ended
  <1>3. TypeOK'
    BY <1>1, <1>2 DEF Accept, TypeOK, Phases, Moved, Freed, Ended, Admissible, Filing
  <1>4. MarkerBeforeSubmission'
    BY <1>1 DEF Accept, MarkerBeforeSubmission, Moved, Ended, Admissible
  <1>5. UnissuedIsUnknown'
    BY <1>1, <1>2, AbsentIsRecord, DeviceAssumption DEF Accept, UnissuedIsUnknown, Unissued, Ended, Moved, Over
  <1>6. RegistrationFirst'
    BY <1>1, AbsentIsRecord, DeviceAssumption DEF Accept, PhaseFitsKind, SeenIsHistory, RegistrationFirst,
           Unanswered, Ingesting, Moved, Ended, Admissible, Filing, Issuing, Foreign, InRevocation
  <1>7. VoidStaysRevoked'
    BY <1>1, <1>2, AbsentIsRecord, DeviceAssumption DEF Accept, VoidStaysRevoked, Ended, Moved, Over,
           PhaseFitsKind, Rotating, Revoking, Filing, Issuing, Foreign, InRotation, InRevocation
  <1>8. VoidAtBroker'
    BY <1>1 DEF Accept, TypeOK, PhaseFitsKind, VoidAtBroker, Unreleased, Ingesting, Credentials, Moved,
       Ended, Filing, Issuing, Foreign, Placed
  <1>9. StaleIsRefused'
    BY <1>1 DEF Accept, StaleIsRefused, Moved, Ended, Admissible
  <1>10. BrokerFollows'
    BY <1>1 DEF Accept, BrokerFollows, Local, Usable, Moved, Ended, Admissible, InRotation, InRevocation,
       Placed, Filing
  <1>11. VoidedIsRejected'
    BY DEF Accept, StaleIsRefused, VoidedIsRejected, Admissible
  <1> QED
    BY <1>1, <1>2, <1>3, <1>4, <1>5, <1>6, <1>7, <1>8, <1>9, <1>10, <1>11

-------------------------------------------------------------------------------
(* classify *)

LEMMA ClassifyRefusedInv ==
  ASSUME IndInv, NEW o \in Ops, ClassifyRefused(o)
  PROVE  IndInv'
  <1> USE DEF IndInv
  <1>1. PICK how \in {"done", "failed"} : End(o, how)
    BY DEF ClassifyRefused
  <1>2. o \in Running /\ (how = "done" => kind[o] \notin Issuing)
    BY <1>1 DEF ClassifyRefused, Running, Over, PhaseFitsKind, Enrolling, Classifying, Filing, Issuing, Foreign
  <1> QED
    BY <1>1, <1>2, EndMoves, EndedInv DEF ClassifyRefused, TypeOK

LEMMA CreateTwinInv ==
  ASSUME IndInv, NEW o \in Ops, NEW effect \in BOOLEAN, NEW answered \in BOOLEAN, CreateTwin(o, effect, answered)
  PROVE  IndInv'
  <1> USE DEF IndInv
  <1>1. PICK p \in {"createSave", "failed"}, r \in {seen[o], Absent} :
            /\ Moved(o, p, r)
            /\ p = "createSave" => r = seen[o] /\ busy' = busy
            /\ p = "failed" => Freed(o)
    <2>1. CASE answered
      BY <2>1 DEF CreateTwin, Moved, Freed, TypeOK, Phases, Classifying, Filing
    <2>2. CASE ~answered
      BY <2>2, EndMoves DEF CreateTwin, Ended
    <2> QED
      BY <2>1, <2>2
  <1>2. /\ o \in Running /\ FitsKind(p, kind[o]) /\ p \in Phases /\ r \in Records /\ Freed(o)
        /\ p \in Over <=> p = "failed"
    BY <1>1, AbsentIsRecord DEF CreateTwin, Freed, FitsKind, PhaseFitsKind, TypeOK, Phases, Running, Over,
           Enrolling, Revoking, Classifying, Rotating, Filing, Issuing, Foreign
  <1>3. PhaseFitsKind' /\ SeenIsHistory' /\ OneAtATime'
    BY <1>1, <1>2, MoveInv DEF CreateTwin
  <1>4. TypeOK'
    BY <1>1, <1>2, <1>3 DEF CreateTwin, TypeOK, Phases, Moved, Freed, Filing
  <1>5. MarkerBeforeSubmission'
    BY <1>1 DEF CreateTwin, MarkerBeforeSubmission, Moved
  <1>6. UnissuedIsUnknown'
    BY <1>1, <1>2, <1>3, AbsentIsRecord, DeviceAssumption DEF CreateTwin, UnissuedIsUnknown, Unissued, Moved,
           PhaseFitsKind, SeenIsHistory, TypeOK, Enrolling, Revoking, Classifying, Rotating, Over, Filing,
           Issuing, Foreign
  <1>7. RegistrationFirst'
    BY <1>1 DEF CreateTwin, RegistrationFirst, Unanswered, Enrolling, Moved, InRevocation, Filing
  <1>8. VoidStaysRevoked'
    BY <1>1 DEF CreateTwin, VoidStaysRevoked, Moved, InRotation, InRevocation, Filing
  <1>9. VoidAtBroker'
    BY <1>1 DEF CreateTwin, TypeOK, VoidAtBroker, Unreleased, Credentials, Moved, Placed
  <1>10. StaleIsRefused'
    BY <1>1 DEF CreateTwin, StaleIsRefused, Moved
  <1>11. BrokerFollows'
    BY <1>1 DEF CreateTwin, BrokerFollows, Local, Usable, Moved, InRotation, InRevocation, Placed, Filing
  <1>12. VoidedIsRejected'
    BY <1>1 DEF CreateTwin, VoidedIsRejected, Moved
  <1> QED
    BY <1>3, <1>4, <1>5, <1>6, <1>7, <1>8, <1>9, <1>10, <1>11, <1>12

LEMMA ExportInv ==
  ASSUME IndInv, NEW o \in Ops, Export(o)
  PROVE  IndInv'
  <1> USE DEF IndInv
  <1>1. PICK how \in {"done", "failed"} : End(o, how)
    BY DEF Export
  <1>2. o \in Running /\ (how = "done" => kind[o] \notin Issuing)
    BY <1>1 DEF Export, Running, Over, PhaseFitsKind, Enrolling, Classifying, Filing, Issuing, Foreign
  <1> QED
    BY <1>1, <1>2, EndMoves, EndedInv DEF Export, TypeOK

-------------------------------------------------------------------------------
(* rotate *)

LEMMA RotatedInv ==
  ASSUME IndInv, NEW o \in Ops, Rotated(o)
  PROVE  IndInv'
  <1> USE DEF IndInv
  <1>1. Ended(o, "done") /\ o \in Running /\ FitsKind("done", kind[o]) /\ "done" \in Phases \cap Over
    BY EndMoves DEF Rotated, FitsKind, PhaseFitsKind, Phases, Enrolling, Revoking, Classifying, Rotating,
           Over, Running, Ingesting, Exclusive, Credentials, Filing, Issuing, Foreign
  <1>2. PhaseFitsKind' /\ SeenIsHistory' /\ OneAtATime'
    BY <1>1, MoveInv, AbsentIsRecord DEF Rotated, Ended
  <1>3. TypeOK'
    BY <1>1 DEF Rotated, TypeOK, Credentials, Moved, Freed, Ended, HandedOut
  <1>4. MarkerBeforeSubmission'
    BY <1>1 DEF Rotated, MarkerBeforeSubmission, Moved, Ended, HandedOut, Recoverable
  <1>5. UnissuedIsUnknown'
    BY <1>1, <1>2, AbsentIsRecord, DeviceAssumption DEF Rotated, UnissuedIsUnknown, Unissued, Ended, Moved,
           PhaseFitsKind, Rotating, HandedOut, Recoverable, Filing, Issuing, Foreign
  <1>6. RegistrationFirst'
    BY <1>1 DEF Rotated, RegistrationFirst, Unanswered, Enrolling, Moved, Ended, HandedOut, Recoverable,
       InRevocation, Filing
  <1>7. VoidStaysRevoked'
    BY <1>1, <1>2, AbsentIsRecord, DeviceAssumption DEF Rotated, VoidStaysRevoked, Ended, Moved, Over,
           PhaseFitsKind, Rotating, Revoking, HandedOut, Recoverable, Filing, Issuing, Foreign, InRotation,
           InRevocation
  <1>8. VoidAtBroker'
    BY <1>1 DEF Rotated, TypeOK, VoidAtBroker, Unreleased, Credentials, Moved, Ended, Placed,
           PhaseFitsKind, Rotating
  <1>9. StaleIsRefused'
    BY <1>1 DEF Rotated, StaleIsRefused, Moved, Ended, HandedOut, Recoverable
  <1>10. BrokerFollows'
    BY <1>1 DEF Rotated, BrokerFollows, Local, Usable, Moved, Ended, HandedOut, Recoverable, InRotation,
       InRevocation, Placed, Filing
  <1>11. VoidedIsRejected'
    BY <1>1 DEF Rotated, VoidedIsRejected, Moved, Ended, HandedOut, Recoverable
  <1> QED
    BY <1>1, <1>2, <1>3, <1>4, <1>5, <1>6, <1>7, <1>8, <1>9, <1>10, <1>11

-------------------------------------------------------------------------------
(* failures *)

LEMMA ThrowsInv ==
  ASSUME IndInv, NEW o \in Ops, Throws(o)
  PROVE  IndInv'
  <1>1. o \in Running /\ End(o, "failed")
    BY DEF Throws, Running, Over
  <1>2. sample' = sample \/ \E s \in Servers : sample' = [sample EXCEPT ![s] = FALSE]
    BY DEF Throws, Forgotten, IndInv, TypeOK
  <1>3. admitted \in BOOLEAN /\ disturbed \in BOOLEAN
    BY DEF IndInv, TypeOK
  <1> QED
    BY <1>1, <1>2, <1>3, EndMoves, EndedInv DEF Throws

LEMMA ExpireInv ==
  ASSUME IndInv, NEW s \in Servers, Expire(s)
  PROVE  IndInv'
  <1> USE DEF IndInv
  <1>1. TypeOK'
    BY DEF Expire, TypeOK, Phases, Moved, Filing
  <1>2. PhaseFitsKind'
    BY DEF Expire, PhaseFitsKind, Enrolling, Revoking, Classifying, Rotating, Moved, Filing, Issuing, Foreign
  <1>3. SeenIsHistory'
    BY DEF Expire, SeenIsHistory, Moved, Foreign
  <1>4. MarkerBeforeSubmission'
    BY DEF Expire, MarkerBeforeSubmission, Moved
  <1>5. OneAtATime'
    BY DEF Expire, OneAtATime, Exclusively, Running, Over, Exclusive, Moved
  <1>6. UnissuedIsUnknown'
    BY DEF Expire, UnissuedIsUnknown, Unissued, Moved
  <1>7. RegistrationFirst'
    BY DEF Expire, RegistrationFirst, Unanswered, Enrolling, Moved, InRevocation, Filing
  <1>8. VoidStaysRevoked'
    BY DEF Expire, VoidStaysRevoked, Moved, InRotation, InRevocation, Filing
  <1>9. VoidAtBroker'
    BY DEF Expire, VoidAtBroker, Unreleased, Moved, Placed
  <1>10. StaleIsRefused'
    BY DEF Expire, StaleIsRefused, Moved
  <1>11. BrokerFollows'
    BY DEF Expire, BrokerFollows, Local, Usable, Moved, InRotation, InRevocation, Placed, Filing
  <1>12. VoidedIsRejected'
    BY DEF Expire, VoidedIsRejected, Moved
  <1> QED
    BY <1>1, <1>2, <1>3, <1>4, <1>5, <1>6, <1>7, <1>8, <1>9, <1>10, <1>11, <1>12

LEMMA CrashInv ==
  ASSUME IndInv, NEW s \in Servers, Crash(s)
  PROVE  IndInv'
  <1> USE DEF IndInv
  <1>1. /\ \A o \in Ops : pc'[o] = pc[o] \/ (pc'[o] = "failed" /\ o \in Running /\ at[o] = s)
        /\ \A o \in Ops : at[o] = s => pc'[o] \in Over
        /\ pc' \in [Ops -> Phases]
    BY DEF Crash, Running, Over, TypeOK, Phases, Filing
  <1>2. TypeOK'
    BY <1>1 DEF Crash, Torn, TypeOK, Phases
  <1>3. PhaseFitsKind'
    BY <1>1, AbsentIsRecord, DeviceAssumption DEF Crash, PhaseFitsKind, Enrolling, Revoking, Classifying,
           Rotating, Moved, SeenIsHistory, TypeOK, Over, OneAtATime, Exclusively, Running, Exclusive,
           Filing, Issuing, Foreign
  <1>4. SeenIsHistory'
    BY <1>1 DEF Crash, SeenIsHistory, Moved, Foreign
  <1>5. MarkerBeforeSubmission'
    BY <1>1 DEF Crash, MarkerBeforeSubmission, Moved
  <1>6. OneAtATime'
    BY <1>1 DEF Crash, OneAtATime, Exclusively, Running, Over, Exclusive, Moved
  <1>7. UnissuedIsUnknown'
    BY <1>1 DEF Crash, UnissuedIsUnknown, Unissued, Moved
  <1>8. RegistrationFirst'
    BY <1>1, AbsentIsRecord, DeviceAssumption DEF Crash, RegistrationFirst, Unanswered, Enrolling, Moved,
           PhaseFitsKind, SeenIsHistory, TypeOK, Revoking, Classifying, Rotating, Over, OneAtATime, Exclusively,
           Running, Exclusive, Filing, Issuing, Foreign, InRevocation
  <1>9. VoidStaysRevoked'
    BY <1>1 DEF Crash, VoidStaysRevoked, Moved, InRotation, InRevocation, Filing
  <1>10. VoidAtBroker'
    BY DEF Crash, TypeOK, VoidAtBroker, Unreleased, Credentials, Placed
  <1>11. StaleIsRefused'
    BY <1>1 DEF Crash, StaleIsRefused, Moved
  <1>12. BrokerFollows'
    BY <1>1 DEF Crash, BrokerFollows, Local, Usable, Moved, InRotation, InRevocation, Placed, Filing
  <1>13. VoidedIsRejected'
    BY <1>1 DEF Crash, VoidedIsRejected, Moved
  <1> QED
    BY <1>2, <1>3, <1>4, <1>5, <1>6, <1>7, <1>8, <1>9, <1>10, <1>11, <1>12, <1>13

-------------------------------------------------------------------------------
(* A call arrives. *)
LEMMA BeginInv ==
  ASSUME IndInv, NEW o \in Ops, NEW k \in Kinds, NEW s \in Servers, Begin(o, k, s)
  PROVE  IndInv'
  <1> USE DEF IndInv
  <1>1. PICK c \in HandedOut :
            /\ k = "mqtt" => Accepts = c
            /\ shown' = [shown EXCEPT ![o] = IF k \in Ingesting THEN c ELSE None]
            /\ stale' = [stale EXCEPT ![o] =
                            /\ k \in Ingesting
                            /\ c \in voided
                            /\ k = "mqtt" => c \notin spared]
    BY DEF Begin
  <1>2. /\ c \in Credentials \cup {None}
        /\ c \in voided =>
              \/ c = First
              \/ c \in Ops /\ kind[c] \in {"register", "rotate"} /\ pc[c] = "done"
    BY DEF HandedOut, Recoverable, TypeOK, Records, Credentials, VoidStaysRevoked, InRotation,
           InRevocation, Filing
  <1>3. /\ kind[o] = "none" /\ pc[o] = "new" /\ seen[o] = Absent /\ Admitted(o, k, s)
        /\ kind'[o] = k /\ at'[o] = s
        /\ pc'[o] = (CASE k = "register" -> "enrol" [] k \in Foreign -> "readFile" [] OTHER -> "read")
        /\ shown'[o] = (IF k \in Ingesting THEN c ELSE None) 
        /\ stale'[o] = (k \in Ingesting /\ c \in voided /\ (k = "mqtt" => c \notin spared))
        /\ \A q \in Ops : q # o => /\ kind'[q] = kind[q] /\ pc'[q] = pc[q] /\ at'[q] = at[q]
                                   /\ shown'[q] = shown[q] /\ stale'[q] = stale[q]
        /\ busy'[s] = (busy[s] \/ k \in Exclusive) /\ \A t \in Servers : t # s => busy'[t] = busy[t]
        /\ UNCHANGED <<rec, broker, submitted, twins, sample, seen, accepted, voided, crashes, access>>
    BY <1>1 DEF Begin, TypeOK, PhaseFitsKind, SeenIsHistory, Filing, Issuing, Foreign
  <1>4. TypeOK'
    BY <1>1, <1>2 DEF Begin, TypeOK, Phases, Over, Enrolling, Filing
  <1>5. PhaseFitsKind'
    BY <1>3 DEF PhaseFitsKind, Kinds, Enrolling, Revoking, Classifying, Rotating, Filing, Issuing, Foreign,
       Ingesting,
           Exclusive
  <1>6. SeenIsHistory'
    BY <1>3 DEF SeenIsHistory, Admitted, Foreign
  <1>7. MarkerBeforeSubmission'
    BY <1>3 DEF MarkerBeforeSubmission, Admitted
  <1>8. OneAtATime'
    <2>1. \A q \in Ops : q # o => (Exclusively(q)' <=> Exclusively(q))
      BY <1>3 DEF Exclusively, Running
    <2>2. Exclusively(o)' => ~busy[s]
      BY <1>3 DEF Exclusively, Admitted
    <2>3. Exclusively(o)' => busy'[s]
      BY <1>3 DEF Exclusively
    <2>4. \A t \in Servers : busy[t] => busy'[t]
      BY <1>3
    <2>5. \A q \in Ops : at[q] \in Servers
      BY DEF TypeOK
    <2>6. at'[o] = s /\ \A q \in Ops : q # o => at'[q] = at[q]
      BY <1>3
    <2>7. OneAtATime
      OBVIOUS
    <2> HIDE DEF IndInv
    <2>8. \A q \in Ops : Exclusively(q)' => busy'[at'[q]]
      BY <2>1, <2>3, <2>4, <2>5, <2>6, <2>7 DEF OneAtATime
    <2>9. \A q \in Ops : q # o /\ Exclusively(q)' /\ Exclusively(o)' => at'[q] # at'[o]
      BY <2>1, <2>2, <2>6, <2>7 DEF OneAtATime
    <2> QED
      BY <2>1, <2>6, <2>7, <2>8, <2>9 DEF OneAtATime
  <1>9. UnissuedIsUnknown'
    BY <1>3 DEF UnissuedIsUnknown, Unissued
  <1>10. RegistrationFirst'
    <2>1. CASE k = "register"
      <3>1. rec = Absent /\ broker = None /\ \A q \in Ops : q # o => kind[q] \in {"none"} \cup Foreign
        BY <2>1, <1>3 DEF Admitted, SeenIsHistory, RegistrationFirst, PhaseFitsKind, Filing, Issuing,
           Foreign, InRevocation
      <3>2. \A q \in Ops : /\ shown'[q] = None /\ kind'[q] \in {"none", "register"} \cup Foreign
                           /\ kind'[q] = "register" => q = o
        BY <2>1, <3>1, <1>3 DEF Ingesting, Foreign, StaleIsRefused, PhaseFitsKind
      <3>3. \A t \in Servers : ~sample'[t]
        BY <3>1, <1>3 DEF RegistrationFirst, InRevocation, Filing
      <3> QED
        <4>1. \A q \in Ops : Unanswered(q)' => q = o
          BY <3>2 DEF Unanswered
        <4>2. pc'[o] = "enrol" /\ rec' = Absent /\ broker' = None
          BY <2>1, <3>1, <1>3 DEF Foreign
        <4>3. \A q \in Ops : pc'[q] \notin {"accept", "create", "createSave", "export"}
          BY <3>2, <1>5 DEF PhaseFitsKind, Classifying, Ingesting, Foreign
        <4> QED
          BY <3>2, <3>3, <4>1, <4>2, <4>3 DEF RegistrationFirst, Unanswered, Absent, InRevocation, Foreign,
                 Enrolling, Filing
    <2>2. CASE k # "register"
      <3>1. k = "rotate" => rec.state = "created"
        BY <1>3 DEF Admitted
      <3>2. ASSUME NEW q \in Ops, Unanswered(q)
            PROVE  c = First /\ k \notin {"mqtt", "rotate"}
        BY <3>1, <3>2, <1>1, DeviceAssumption DEF RegistrationFirst, Unanswered, HandedOut, Recoverable,
               Accepts,
               Issuing
      <3> QED
        <4>1. pc'[o] \in {"readFile", "read"}
          BY <2>2, <1>3
        <4>2. pc'[o] = "readFile" => k \in Foreign
          BY <2>2, <1>3
        <4>3. \A q \in Ops : Unanswered(q)' <=> Unanswered(q)
          BY <2>2, <1>3 DEF Unanswered
        <4>4. kind'[o] # "register" /\ \A q \in Ops : InRevocation(q)' => InRevocation(q)
          BY <2>2, <1>3, <4>1, <4>2 DEF InRevocation, Filing, Foreign
        <4> QED
          BY <2>2, <3>1, <3>2, <1>3, <4>1, <4>3, <4>4 DEF RegistrationFirst, Unanswered, Enrolling, Ingesting
    <2> QED
      BY <2>1, <2>2
  <1>11. VoidStaysRevoked'
    BY <1>3 DEF VoidStaysRevoked, InRotation, InRevocation, Filing, Foreign
  <1>12. VoidAtBroker'
    BY <1>3 DEF VoidAtBroker, Unreleased, PhaseFitsKind, UnissuedIsUnknown, Unissued, TypeOK, Credentials,
       Filing, Issuing, Foreign, Placed
  <1>13. StaleIsRefused'
    <2>1. stale'[o] => c \in voided /\ shown'[o] = c /\ (k = "mqtt" => c \notin spared)
      BY <1>3
    <2>2. c \in voided \ spared /\ k = "mqtt" => rec.revoked /\ rec.state = "waiting"
      BY <1>1, <1>2, DeviceAssumption DEF VoidAtBroker, Unreleased, Accepts
    <2> QED
      BY <1>3, <2>1, <2>2 DEF StaleIsRefused, Foreign, Ingesting
  <1>14. BrokerFollows'
    BY <1>3 DEF BrokerFollows, Local, Usable, InRotation, InRevocation, Placed, Filing, Foreign
  <1>15. VoidedIsRejected'
    BY <1>3 DEF VoidedIsRejected, StaleIsRefused
  <1> QED
    BY <1>4, <1>5, <1>6, <1>7, <1>8, <1>9, <1>10, <1>11, <1>12, <1>13, <1>14, <1>15

-------------------------------------------------------------------------------
LEMMA InitInv == Init => IndInv
  <1> SUFFICES ASSUME Init PROVE IndInv
    OBVIOUS
  <1>1. First \in Credentials /\ Absent \in Records /\ Enrolled("waiting") \in Records
        /\ Enrolled("created") \in Records
    BY AbsentIsRecord DEF Records, Enrolled, Absent, States, Credentials
  <1>2. TypeOK
    <2>1. (CHOOSE s \in Servers : TRUE) \in Servers
      BY DeviceAssumption
    <2>2. disturbed \in BOOLEAN
      BY DEF Init
    <2>3. entry \in Entries /\ broker \in Credentials \cup {None} /\ admitted \in BOOLEAN /\ twins \in Nat
          /\ submitted \in Nat /\ rec \in Records
      <3>1. PICK state \in {"absent", "waiting", "created"} :
              IF state = "absent"
              THEN /\ rec = Absent /\ twins = 0 /\ submitted = 0
                   /\ entry = "none" /\ broker = None /\ admitted = FALSE
              ELSE /\ rec = Enrolled(state)
                   /\ entry \in {"active", "none"} /\ broker = First /\ admitted = TRUE
                   /\ twins = IF state = "created" THEN 1 ELSE 0
                   /\ submitted = twins
        BY DEF Init
      <3>2. CASE state = "absent"
        <4>1. rec = Absent /\ twins = 0 /\ submitted = 0 /\ entry = "none" /\ broker = None /\ admitted = FALSE
          BY <3>1, <3>2
        <4> QED
          BY <1>1, <4>1 DEF Entries
      <3>3. CASE state = "waiting"
        BY <1>1, <3>1, <3>3 DEF Entries
      <3>4. CASE state = "created"
        BY <1>1, <3>1, <3>4 DEF Entries
      <3> QED
        BY <3>1, <3>2, <3>3, <3>4
    <2> QED
      BY <1>1, <2>1, <2>2, <2>3 DEF Init, TypeOK, Phases, Over, Entries
  <1>3. /\ \A o \in Ops : /\ pc[o] = "new" /\ kind[o] = "none" /\ seen[o] = Absent /\ shown[o] = None
                          /\ ~stale[o] /\ ~accepted[o]
        /\ \A s \in Servers : ~sample[s]
        /\ voided = {}
    BY DEF Init
  <1>4. \/ rec = Absent /\ broker = None /\ submitted = 0
        \/ rec = Enrolled("waiting") /\ broker = First /\ submitted = 0
        \/ rec = Enrolled("created") /\ broker = First /\ submitted = 1
    BY DEF Init
  <1>5. ASSUME NEW state \in {"waiting", "created"}
        PROVE  /\ Enrolled(state).rev = 1 /\ Enrolled(state).state = state /\ Enrolled(state).cred = First
               /\ Enrolled(state) # Absent
    BY <1>5 DEF Enrolled, Absent
  <1>6. PhaseFitsKind /\ OneAtATime /\ UnissuedIsUnknown /\ VoidStaysRevoked /\ VoidAtBroker /\ VoidedIsRejected
    <2>1. PhaseFitsKind /\ OneAtATime /\ VoidedIsRejected
      BY <1>3 DEF PhaseFitsKind, OneAtATime, Exclusively, Running, Over, VoidedIsRejected, Enrolling,
             Revoking, Classifying, Rotating, Exclusive, Filing, Issuing, Foreign
    <2>2. UnissuedIsUnknown
      BY <1>3, <1>4, <1>5, AbsentIsRecord, DeviceAssumption DEF UnissuedIsUnknown
    <2>3. VoidStaysRevoked /\ VoidAtBroker
      BY <1>3 DEF VoidStaysRevoked, VoidAtBroker, InRotation, InRevocation, Filing, Placed
    <2> QED
      BY <2>1, <2>2, <2>3
  <1>7. SeenIsHistory /\ MarkerBeforeSubmission
    BY <1>3, <1>4, <1>5, AbsentIsRecord DEF SeenIsHistory, MarkerBeforeSubmission, Foreign
  <1>8. RegistrationFirst /\ StaleIsRefused /\ BrokerFollows
    BY <1>3, <1>4, <1>5, AbsentIsRecord DEF RegistrationFirst, Unanswered, StaleIsRefused, BrokerFollows,
           Usable, Absent, InRevocation, Filing, InRotation, Placed
  <1> QED
    BY <1>2, <1>6, <1>7, <1>8 DEF IndInv

LEMMA StepInv == IndInv /\ [Next]_vars => IndInv'
  <1> SUFFICES ASSUME IndInv, [Next]_vars PROVE IndInv'
    OBVIOUS
  <1>1. ASSUME UNCHANGED vars
        PROVE  IndInv'
    BY <1>1 DEF vars, IndInv, TypeOK, PhaseFitsKind, SeenIsHistory, MarkerBeforeSubmission, OneAtATime,
           Exclusively, Running, UnissuedIsUnknown, Unissued, RegistrationFirst, Unanswered, VoidStaysRevoked,
           VoidAtBroker, Unreleased, StaleIsRefused, BrokerFollows, Local, Usable, VoidedIsRejected,
           Filing, Issuing, Foreign, InRevocation, InRotation, Placed
  <1>2. ASSUME NEW o \in Ops,
               \/ \E k \in Kinds, s \in Servers : Begin(o, k, s)
               \/ Enrol(o) \/ EnrolRead(o) \/ EnrolFile(o)
               \/ Read(o) \/ Accept(o) \/ Revoke(o)
        PROVE  IndInv'
    BY <1>2, BeginInv, EnrolInv, EnrolReadInv, EnrolFileInv, ReadInv, AcceptInv, RevokeInv
  <1>3. ASSUME NEW o \in Ops,
               \/ ClassifyRefused(o) \/ Classify(o) \/ CreateSave(o) \/ Export(o)
               \/ \E effect, answered \in BOOLEAN : CreateTwin(o, effect, answered)
               \/ Rotate(o) \/ RotateSave(o) \/ Rotated(o) \/ Throws(o)
        PROVE  IndInv'
    BY <1>3, ClassifyRefusedInv, ClassifyInv, CreateSaveInv, ExportInv, CreateTwinInv, RotateInv,
           RotateSaveInv, RotatedInv, ThrowsInv
  <1>4. ASSUME NEW o \in Ops, ReadFile(o) \/ WriteFile(o) \/ Password(o) \/ WriteAcl(o) \/ AclFails(o)
        PROVE  IndInv'
    BY <1>4, ReadFileInv, WriteFileInv, PasswordInv, WriteAclInv, AclFailsInv
  <1>5. ASSUME NEW s \in Servers, Expire(s) \/ Crash(s)
        PROVE  IndInv'
    BY <1>5, ExpireInv, CrashInv
  <1> QED
    BY <1>1, <1>2, <1>3, <1>4, <1>5 DEF Next

-------------------------------------------------------------------------------
(* The device's access in order: every part of the broker's configuration  *)
(* admits its credentials c, and so does any other version of the tenant   *)
(* file that a call may still write back.                                  *)
InOrder(c) ==
    /\ broker = c /\ entry = "active" /\ admitted
    /\ \A q \in Ops : kind[q] \in Foreign /\ Rewriting(q) => kind[q] = "other" /\ held[q] = "active"

(* A registration that a revocation has overtaken. *)
Sunk(o) == kind[o] = "register" /\ rec.revoked

Undisturbed ==
    Local /\ ~disturbed =>
        /\ Usable => InOrder(rec.cred)
        /\ \A o \in Ops : kind[o] \in Issuing =>
              /\ Rewriting(o) => \A q \in Ops : ~(kind[q] \in Foreign /\ Rewriting(q))
              /\ pc[o] \in {"password", "acl"} => entry = "active" \/ Sunk(o)
              /\ pc[o] = "acl" => broker = o \/ Sunk(o)
              /\ pc[o] \in {"enrolRead", "enrolFile", "rotateSave"} => InOrder(o) \/ Sunk(o)

(* Credentials are issued while they cannot be downloaded, by one call at  *)
(* a time, and no revocation of the device reaches the tenant file         *)
(* meanwhile unless it overtakes a registration.                           *)
Underway(o) == kind[o] \in Issuing /\ pc[o] \in Filing \cup {"enrolRead", "enrolFile", "rotateSave"}

LEMMA IssuingIsClosed ==
  ASSUME IndInv, Local, NEW o \in Ops, Underway(o)
  PROVE  /\ pc[o] \in Filing => ~Usable
         /\ \A q \in Ops : Underway(q) => q = o
         /\ \A q \in Ops : InRevocation(q) => Sunk(o)
  <1> USE DEF Underway
  <1>1. CASE kind[o] = "register"
    <2>1. Unanswered(o)
      BY <1>1 DEF Unanswered, Filing
    <2>2. \A q \in Ops : kind[q] \in Issuing => q = o
      BY <1>1, <2>1 DEF IndInv, RegistrationFirst, Issuing
    <2>3. pc[o] \in Filing => ~rec.file
      BY <2>1 DEF IndInv, RegistrationFirst
    <2>4. \A q \in Ops : InRevocation(q) => rec.revoked
      BY <2>1 DEF IndInv, RegistrationFirst
    <2> QED
      BY <1>1, <2>2, <2>3, <2>4 DEF Usable, Sunk
  <1>2. CASE kind[o] = "rotate"
    <2>1. InRotation(o)
      BY <1>2 DEF InRotation, IndInv, PhaseFitsKind, Enrolling
    <2>2. ~Usable
      BY <2>1 DEF IndInv, BrokerFollows, Usable
    <2>3. ASSUME NEW q \in Ops, kind[q] = "register"
          PROVE  pc[q] = "done"
      BY <1>2, <2>3 DEF IndInv, RegistrationFirst, Unanswered
    <2>4. \A q \in Ops : InRotation(q) => q = o
      BY <2>1, LocalIsExclusive, ChangingIsExclusive
    <2>5. \A q \in Ops : ~InRevocation(q)
      BY <1>2, <2>1, LocalIsExclusive, ChangingIsExclusive DEF InRevocation
    <2>6. \A q \in Ops : kind[q] = "rotate" /\ pc[q] \in {"enrolRead", "enrolFile"} => FALSE
      BY DEF IndInv, PhaseFitsKind, Enrolling
    <2> QED
      BY <2>2, <2>3, <2>4, <2>5, <2>6 DEF Issuing, InRotation, Filing
  <1> QED
    BY <1>1, <1>2 DEF Issuing

(* A call for others that still holds the tenant file of a device whose    *)
(* access is in order writes back its active entry.                        *)
LEMMA ForeignKeepsOrder ==
  ASSUME NEW o \in Ops, kind[o] \in Foreign, Rewriting(o), NEW c, InOrder(c)
  PROVE  kind[o] = "other" /\ held[o] = "active" /\ Written(o) = "active"
  BY DEF InOrder, Written, Issuing

(* A step that leaves the tenant file, the broker and the issuing of       *)
(* credentials alone and releases nothing.                                 *)
LEMMA QuietUndisturbed ==
  ASSUME Undisturbed, NEW o \in Ops, UNCHANGED <<broker, entry, admitted, held, disturbed, kind, at>>,
         \A q \in Ops : pc'[q] = pc[q] \/ pc'[q] \in Phases \ (Filing \cup {"enrolRead", "enrolFile", "rotateSave"})
                        \/ pc'[q] = "readFile",
         Usable' => Usable /\ rec'.cred = rec.cred,
         rec.revoked => rec'.revoked \/ \A q \in Ops : Underway(q) => kind[q] # "register"
  PROVE  Undisturbed'
  <1>1. \A q \in Ops : Rewriting(q)' => Rewriting(q)
    BY DEF Rewriting, Filing
  <1>2. \A q \in Ops : Underway(q) /\ Sunk(q) => Sunk(q)'
    BY DEF Sunk
  <1>3. \A c : InOrder(c) => InOrder(c)'
    BY <1>1 DEF InOrder
  <1>4. Local' <=> Local
    BY DEF Local
  <1> QED
    BY <1>1, <1>2, <1>3, <1>4 DEF Undisturbed, Underway, Rewriting, Filing

LEMMA ReadFileUndisturbed ==
  ASSUME IndInv, Undisturbed, NEW o \in Ops, ReadFile(o)
  PROVE  Undisturbed'
  <1>1. /\ pc[o] = "readFile" /\ pc'[o] = "writeFile"
        /\ \A q \in Ops : q # o => pc'[q] = pc[q] /\ held'[q] = held[q]
        /\ held'[o] = entry
        /\ UNCHANGED <<rec, broker, entry, admitted, kind, at>>
    BY DEF ReadFile, IndInv, TypeOK
  <1>2. kind[o] \in Issuing \cup Foreign \cup {"revoke"}
    BY <1>1 DEF IndInv, PhaseFitsKind, Filing
  <1>3. \A q \in Ops : q # o => (Rewriting(q)' <=> Rewriting(q)) /\ (Sunk(q)' <=> Sunk(q))
    BY <1>1 DEF Rewriting, Sunk
  <1>4. (Local' <=> Local) /\ (Usable' <=> Usable)
    BY <1>1 DEF Local, Usable
  <1> SUFFICES ASSUME Local, ~disturbed' PROVE Undisturbed'
    BY <1>4 DEF Undisturbed
  <1>5. CASE kind[o] \in Issuing
    <2>1. \A q \in Ops : ~(kind[q] \in Foreign /\ Rewriting(q))
      BY <1>5 DEF ReadFile, Issuing
    <2>2. ~Usable /\ \A q \in Ops : Underway(q) => q = o
      BY <1>1, <1>5, IssuingIsClosed DEF Underway, Filing
    <2> QED
      BY <1>1, <1>3, <1>4, <1>5, <2>1, <2>2 DEF Undisturbed, Underway, Rewriting, Filing, Issuing, Foreign
  <1>6. CASE kind[o] = "tenant"
    BY <1>6 DEF ReadFile, Issuing
  <1>7. CASE kind[o] = "other"
    <2>1. ~disturbed /\ \A q \in Ops : ~(kind[q] \in Issuing /\ Rewriting(q))
      BY <1>7 DEF ReadFile, Issuing
    <2>2. \A c : InOrder(c) => InOrder(c)'
      BY <1>1, <1>3, <1>7 DEF InOrder
    <2> QED
      BY <1>1, <1>3, <1>4, <1>7, <2>1, <2>2 DEF Undisturbed, Rewriting, Issuing, Sunk
  <1>8. CASE kind[o] = "revoke"
    <2>1. disturbed' = disturbed
      BY <1>8 DEF ReadFile, Issuing
    <2>2. \A c : InOrder(c) => InOrder(c)'
      BY <1>1, <1>3, <1>8 DEF InOrder, Foreign
    <2> QED
      BY <1>1, <1>3, <1>4, <1>8, <2>1, <2>2 DEF Undisturbed, Rewriting, Issuing, Foreign, Sunk
  <1> QED
    BY <1>2, <1>5, <1>6, <1>7, <1>8 DEF Foreign

LEMMA WriteFileUndisturbed ==
  ASSUME IndInv, Undisturbed, NEW o \in Ops, WriteFile(o)
  PROVE  Undisturbed'
  <1>1. /\ pc[o] = "writeFile" /\ pc'[o] = "password" /\ \A q \in Ops : q # o => pc'[q] = pc[q]
        /\ entry' = Written(o)
        /\ UNCHANGED <<rec, broker, admitted, held, disturbed, kind, at>>
    BY DEF WriteFile, IndInv, TypeOK
  <1> SUFFICES ASSUME Local, ~disturbed PROVE Undisturbed'
    BY <1>1 DEF Undisturbed, Local
  <1>2. kind[o] \in Issuing \cup Foreign \cup {"revoke"}
    BY <1>1 DEF IndInv, PhaseFitsKind, Filing
  <1>3. \A q \in Ops : (Rewriting(q)' <=> Rewriting(q)) /\ (Sunk(q)' <=> Sunk(q))
    BY <1>1 DEF Rewriting, Sunk
  <1>4. Usable' <=> Usable
    BY <1>1 DEF Usable
  <1>5. CASE kind[o] \in Issuing
    <2>1. ~Usable /\ \A q \in Ops : Underway(q) => q = o
      BY <1>1, <1>5, IssuingIsClosed DEF Underway, Filing
    <2>2. entry' = "active"
      BY <1>1, <1>5 DEF Written, Issuing
    <2> QED
      BY <1>1, <1>3, <1>4, <1>5, <2>1, <2>2 DEF Undisturbed, Underway, Rewriting, Filing
  <1>6. CASE kind[o] \in Foreign
    <2>1. \A c : InOrder(c) => InOrder(c)'
      <3> TAKE c
      <3> SUFFICES ASSUME InOrder(c) PROVE InOrder(c)'
        OBVIOUS
      <3>1. entry' = "active"
        BY <1>1, <1>6, ForeignKeepsOrder DEF Rewriting
      <3> QED
        BY <1>1, <1>3, <3>1 DEF InOrder
    <2>2. Rewriting(o)
      BY <1>1 DEF Rewriting
    <2>3. kind[o] \notin Issuing
      BY <1>6 DEF Foreign, Issuing
    <2> QED
      BY <1>1, <1>3, <1>4, <1>6, <2>1, <2>2, <2>3 DEF Undisturbed, Rewriting
  <1>7. CASE kind[o] = "revoke"
    <2>1. InRevocation(o)
      BY <1>1, <1>7 DEF InRevocation, Filing
    <2>2. ~Usable /\ \A q \in Ops : Underway(q) => Sunk(q)
      BY <2>1, IssuingIsClosed DEF IndInv, BrokerFollows, Usable
    <2>3. kind[o] \notin Issuing
      BY <1>7 DEF Issuing
    <2> QED
      BY <1>1, <1>3, <1>4, <2>2, <2>3 DEF Undisturbed, Underway, Filing, Rewriting
  <1> QED
    BY <1>2, <1>5, <1>6, <1>7

LEMMA PasswordUndisturbed ==
  ASSUME IndInv, Undisturbed, NEW o \in Ops, Password(o)
  PROVE  Undisturbed'
  <1>1. /\ pc[o] = "password" /\ pc'[o] = "acl" /\ \A q \in Ops : q # o => pc'[q] = pc[q]
        /\ UNCHANGED <<rec, entry, admitted, held, disturbed, kind, at>>
    BY DEF Password, IndInv, TypeOK
  <1> SUFFICES ASSUME Local, ~disturbed PROVE Undisturbed'
    BY <1>1 DEF Undisturbed, Local
  <1>2. kind[o] \in Issuing \cup Foreign \cup {"revoke"}
    BY <1>1 DEF IndInv, PhaseFitsKind, Filing
  <1>3. \A q \in Ops : (Rewriting(q)' <=> Rewriting(q)) /\ (Sunk(q)' <=> Sunk(q))
    BY <1>1 DEF Rewriting, Sunk
  <1>4. Usable' <=> Usable
    BY <1>1 DEF Usable
  <1>5. CASE kind[o] \in Issuing
    <2>1. ~Usable /\ \A q \in Ops : Underway(q) => q = o
      BY <1>1, <1>5, IssuingIsClosed DEF Underway, Filing
    <2>2. broker' = o
      BY <1>5 DEF Password, Issuing
    <2> QED
      BY <1>1, <1>3, <1>4, <1>5, <2>1, <2>2 DEF Undisturbed, Underway, Rewriting, Filing
  <1>6. CASE kind[o] \in Foreign
    <2>1. \A c : InOrder(c) => InOrder(c)'
      <3> TAKE c
      <3> SUFFICES ASSUME InOrder(c) PROVE InOrder(c)'
        OBVIOUS
      <3>1. kind[o] = "other"
        BY <1>1, <1>6, ForeignKeepsOrder DEF Rewriting
      <3>2. broker' = broker
        BY <3>1 DEF Password, Issuing
      <3> QED
        BY <1>1, <1>3, <3>2 DEF InOrder
    <2>2. Rewriting(o)
      BY <1>1 DEF Rewriting
    <2>3. kind[o] \notin Issuing
      BY <1>6 DEF Foreign, Issuing
    <2> QED
      BY <1>1, <1>3, <1>4, <1>6, <2>1, <2>2, <2>3 DEF Undisturbed, Rewriting
  <1>7. CASE kind[o] = "revoke"
    <2>1. InRevocation(o)
      BY <1>1, <1>7 DEF InRevocation, Filing
    <2>2. ~Usable /\ \A q \in Ops : Underway(q) => Sunk(q)
      BY <2>1, IssuingIsClosed DEF IndInv, BrokerFollows, Usable
    <2>3. kind[o] \notin Issuing
      BY <1>7 DEF Issuing
    <2> QED
      BY <1>1, <1>3, <1>4, <2>2, <2>3 DEF Undisturbed, Underway, Filing, Rewriting
  <1> QED
    BY <1>2, <1>5, <1>6, <1>7

LEMMA WriteAclUndisturbed ==
  ASSUME IndInv, Undisturbed, NEW o \in Ops, WriteAcl(o)
  PROVE  Undisturbed'
  <1>1. /\ pc[o] = "acl" /\ \A q \in Ops : q # o => pc'[q] = pc[q]
        /\ pc'[o] = (CASE kind[o] = "register" -> "enrolRead"
                       [] kind[o] = "rotate" -> "rotateSave"
                       [] OTHER -> "done")
        /\ admitted' = (Written(o) = "active")
        /\ UNCHANGED <<rec, broker, entry, held, disturbed, kind, at>>
    BY DEF WriteAcl, End, IndInv, TypeOK
  <1> SUFFICES ASSUME Local, ~disturbed PROVE Undisturbed'
    BY <1>1 DEF Undisturbed, Local
  <1>2. kind[o] \in Issuing \cup Foreign \cup {"revoke"}
    BY <1>1 DEF IndInv, PhaseFitsKind, Filing
  <1>3. \A q \in Ops : (Rewriting(q)' <=> Rewriting(q) /\ q # o) /\ (Sunk(q)' <=> Sunk(q))
    BY <1>1 DEF Rewriting, Sunk
  <1>4. Usable' <=> Usable
    BY <1>1 DEF Usable
  <1>5. CASE kind[o] \in Issuing
    <2>1. ~Usable /\ \A q \in Ops : Underway(q) => q = o
      BY <1>1, <1>5, IssuingIsClosed DEF Underway, Filing
    <2>2. admitted'
      BY <1>1, <1>5 DEF Written, Issuing
    <2>3. \A q \in Ops : ~(kind[q] \in Foreign /\ Rewriting(q))
      BY <1>1, <1>5 DEF Undisturbed, Rewriting
    <2>4. (entry' = "active" /\ broker' = o) \/ Sunk(o)
      BY <1>1, <1>5 DEF Undisturbed
    <2>5. InOrder(o)' \/ Sunk(o)'
      BY <1>1, <1>3, <2>2, <2>3, <2>4 DEF InOrder
    <2>6. \A q \in Ops : q # o /\ kind[q] \in Issuing =>
              pc'[q] \notin {"writeFile", "password", "acl", "enrolRead", "enrolFile", "rotateSave"}
      BY <1>1, <2>1 DEF Underway, Filing
    <2>7. pc'[o] \notin {"writeFile", "password", "acl"}
      BY <1>1
    <2> QED
      BY <1>1, <1>4, <2>1, <2>5, <2>6, <2>7 DEF Undisturbed, Rewriting
  <1>6. CASE kind[o] \in Foreign
    <2>1. \A c : InOrder(c) => InOrder(c)'
      <3> TAKE c
      <3> SUFFICES ASSUME InOrder(c) PROVE InOrder(c)'
        OBVIOUS
      <3>1. admitted'
        BY <1>1, <1>6, ForeignKeepsOrder DEF Rewriting
      <3> QED
        BY <1>1, <1>3, <3>1 DEF InOrder
    <2>2. kind[o] \notin Issuing
      BY <1>6 DEF Foreign, Issuing
    <2> QED
      BY <1>1, <1>3, <1>4, <1>6, <2>1, <2>2 DEF Undisturbed
  <1>7. CASE kind[o] = "revoke"
    <2>1. InRevocation(o)
      BY <1>1, <1>7 DEF InRevocation, Filing
    <2>2. ~Usable /\ \A q \in Ops : Underway(q) => Sunk(q)
      BY <2>1, IssuingIsClosed DEF IndInv, BrokerFollows, Usable
    <2>3. kind[o] \notin Issuing
      BY <1>7 DEF Issuing
    <2> QED
      BY <1>1, <1>3, <1>4, <2>2, <2>3 DEF Undisturbed, Underway, Filing, Rewriting
  <1> QED
    BY <1>2, <1>5, <1>6, <1>7

(* The ACL is torn by calls that end with it. *)
LEMMA TornUndisturbed ==
  ASSUME IndInv, Undisturbed, NEW writers \in SUBSET Ops, Torn(writers),
         \A w \in writers : pc[w] = "acl",
         \A q \in Ops : pc'[q] = pc[q] \/ pc'[q] = "failed",
         \A w \in writers : pc'[w] = "failed",
         UNCHANGED <<rec, broker, entry, held, kind, at>>
  PROVE  Undisturbed'
  <1>1. Local' <=> Local
    BY DEF Local
  <1> SUFFICES ASSUME Local, ~disturbed' PROVE Undisturbed'
    BY <1>1 DEF Undisturbed
  <1>2. ~disturbed /\ \A w \in writers : kind[w] \notin Foreign
    BY DEF Torn
  <1>3. \A q \in Ops : (Rewriting(q)' => Rewriting(q)) /\ (Sunk(q)' <=> Sunk(q))
    BY DEF Rewriting, Sunk
  <1>4. Usable' <=> Usable
    BY DEF Usable
  <1>5. CASE writers = {}
    <2>1. \A c : InOrder(c) => InOrder(c)'
      BY <1>3, <1>5 DEF Torn, InOrder
    <2> QED
      BY <1>2, <1>3, <1>4, <2>1 DEF Undisturbed
  <1>6. ASSUME NEW w \in writers
        PROVE  Undisturbed'
    <2>1. pc[w] = "acl" /\ pc'[w] = "failed" /\ w \in Ops
      BY <1>6
    <2>2. kind[w] \in Issuing \cup {"revoke"}
      BY <1>2, <1>6, <2>1 DEF IndInv, PhaseFitsKind, Filing
    <2>3. ~Usable /\ \A q \in Ops : Underway(q) => q = w \/ Sunk(q)
      <3>1. CASE kind[w] \in Issuing
        BY <2>1, <3>1, IssuingIsClosed DEF Underway, Filing
      <3>2. CASE kind[w] = "revoke"
        <4>1. InRevocation(w)
          BY <2>1, <3>2 DEF InRevocation, Filing
        <4> QED
          BY <2>1, <4>1, IssuingIsClosed DEF IndInv, BrokerFollows, Usable
      <3> QED
        BY <2>2, <3>1, <3>2
    <2> QED
      BY <1>2, <1>3, <1>4, <2>1, <2>3 DEF Undisturbed, Underway, Filing, Rewriting
  <1> QED
    BY <1>5, <1>6

(* Saving the record changes it from the version the call has seen. *)
LEMMA SavedRecord ==
  ASSUME IndInv, NEW o \in Ops, NEW document, NEW next, Save(o, document, next)
  PROVE  /\ rec' = rec \/ (seen[o] = rec /\ rec' = [document EXCEPT !.rev = rec.rev + 1])
         /\ pc'[o] \in {next, "failed"} /\ \A q \in Ops : q # o => pc'[q] = pc[q]
  BY DEF Save, End, IndInv, TypeOK, SeenIsHistory

(* The calls on the record that do not release it. *)
LEMMA RecordUndisturbed ==
  ASSUME IndInv, Undisturbed, NEW o \in Ops,
         Enrol(o) \/ Revoke(o) \/ Classify(o) \/ CreateSave(o) \/ Rotate(o)
  PROVE  Undisturbed'
  <1>1. rec \in Records /\ UNCHANGED <<broker, entry, admitted, held, disturbed, kind, at>>
    BY DEF IndInv, TypeOK, Enrol, Revoke, Classify, CreateSave, Rotate
  <1>2. CASE Enrol(o)
    <2>1. rec = Absent
      BY <1>2 DEF IndInv, Enrol, PhaseFitsKind, Enrolling, RegistrationFirst, Unanswered
    <2>2. ~rec'.file /\ ~rec.revoked /\ ~rec.file
      <3> DEFINE document == [Absent EXCEPT !.state = "waiting", !.cred = o]
      <3>1. rec' = rec \/ rec' = [document EXCEPT !.rev = rec.rev + 1]
        BY <1>2, SavedRecord DEF Enrol
      <3>2. document \in Records /\ ~document.file
        BY AbsentIsRecord DEF Absent, Records, States, Credentials
      <3> HIDE DEF document
      <3> QED
        BY <2>1, <3>1, <3>2 DEF Absent, Records
    <2>3. \A q \in Ops : pc'[q] = pc[q] \/ pc'[q] = "readFile" \/ pc'[q] = "failed"
      BY <1>2, SavedRecord DEF Enrol
    <2> QED
      BY <1>1, <2>2, <2>3, QuietUndisturbed DEF Usable, Phases, Over, Filing
  <1>3. CASE Revoke(o)
    <2>1. Usable' => rec' = rec
      BY <1>1, <1>3, SavedRecord DEF Revoke, Records, Usable
    <2>2. rec.revoked => rec'.revoked
      BY <1>1, <1>3, SavedRecord DEF Revoke, Records
    <2>3. \A q \in Ops : pc'[q] = pc[q] \/ pc'[q] = "readFile" \/ pc'[q] = "failed"
      BY <1>3, SavedRecord DEF Revoke
    <2> QED
      BY <1>1, <2>1, <2>2, <2>3, QuietUndisturbed DEF Usable, Phases, Over, Filing
  <1>4. CASE Classify(o) \/ CreateSave(o)
    <2>1. /\ rec'.file = rec.file /\ rec'.revoked = rec.revoked /\ rec'.pending = rec.pending
          /\ rec'.cred = rec.cred
      BY <1>1, <1>4, SavedRecord DEF Classify, CreateSave, Records
    <2>2. \A q \in Ops : pc'[q] = pc[q] \/ pc'[q] \in {"create", "export", "failed"}
      BY <1>4, SavedRecord DEF Classify, CreateSave
    <2> QED
      BY <1>1, <2>1, <2>2, QuietUndisturbed DEF Usable, Phases, Over, Filing, Classifying
  <1>5. CASE Rotate(o)
    <2>0. rec' = rec
          \/ rec' = [[rec EXCEPT !.pending = TRUE, !.file = TRUE, !.cred = o] EXCEPT !.rev = rec.rev + 1]
      BY <1>5, SavedRecord DEF Rotate
    <2>1. Usable' => rec' = rec
      BY <1>1, <2>0 DEF Records, Usable
    <2>2. rec'.revoked = rec.revoked
      BY <1>1, <2>0 DEF Records
    <2>3. \A q \in Ops : pc'[q] = pc[q] \/ pc'[q] = "readFile" \/ pc'[q] = "failed"
      BY <1>5, SavedRecord DEF Rotate
    <2> QED
      BY <1>1, <2>1, <2>2, <2>3, QuietUndisturbed DEF Usable, Phases, Over, Filing
  <1> QED
    BY <1>2, <1>3, <1>4, <1>5

(* A record is released after its credentials have been put in order. *)
LEMMA ReleaseUndisturbed ==
  ASSUME IndInv, Undisturbed, NEW o \in Ops, EnrolFile(o) \/ RotateSave(o)
  PROVE  Undisturbed'
  <1> USE DEF IndInv
  <1>1. rec \in Records /\ UNCHANGED <<broker, entry, admitted, held, disturbed, kind, at>>
    BY DEF TypeOK, EnrolFile, RotateSave
  <1>2. /\ pc[o] \in {"enrolFile", "rotateSave"}
        /\ pc'[o] \in {"done", "rotated", "failed"} /\ \A q \in Ops : q # o => pc'[q] = pc[q]
    BY SavedRecord DEF EnrolFile, RotateSave
  <1>3. Underway(o)
    BY <1>2 DEF Underway, PhaseFitsKind, Enrolling, Rotating, Issuing
  <1>4. CASE rec' = rec
    BY <1>1, <1>2, <1>4, QuietUndisturbed DEF Usable, Phases, Over, Filing, Rotating, Enrolling,
           Classifying, Revoking
  <1>5. CASE seen[o] = rec /\ rec' # rec
    <2> SUFFICES ASSUME Local, ~disturbed PROVE Undisturbed'
      BY <1>1 DEF Undisturbed, Local
    <2>1. rec'.cred = rec.cred /\ rec.cred = o
      <3>1. CASE EnrolFile(o)
        BY <1>1, <1>5, <3>1, SavedRecord DEF EnrolFile, Records, PhaseFitsKind, Enrolling, RegistrationFirst,
               Unanswered
      <3>2. CASE RotateSave(o)
        <4>1. rec' = [[rec EXCEPT !.pending = FALSE, !.revoked = FALSE] EXCEPT !.rev = rec.rev + 1]
          BY <1>5, <3>2, SavedRecord DEF RotateSave
        <4>2. InRotation(o)
          BY <1>2, <3>2 DEF RotateSave, InRotation, PhaseFitsKind, Rotating
        <4>3. rec.cred = o
          BY <1>5, <4>2 DEF VoidStaysRevoked
        <4> QED
          BY <1>1, <4>1, <4>3 DEF Records
      <3> QED
        BY <3>1, <3>2
    <2>2. Usable' => ~Sunk(o)
      <3>1. CASE EnrolFile(o)
        BY <1>1, <1>5, <3>1, SavedRecord DEF EnrolFile, Records, Usable, Sunk
      <3>2. CASE RotateSave(o)
        BY <3>2 DEF RotateSave, PhaseFitsKind, Rotating, Sunk
      <3> QED
        BY <3>1, <3>2
    <2>3. InOrder(o) \/ Sunk(o)
      BY <1>2, <1>3 DEF Undisturbed, Underway
    <2>4. InOrder(o) => InOrder(o)'
      BY <1>1, <1>2 DEF InOrder, Rewriting
    <2>5. \A q \in Ops : kind[q] \in Issuing =>
              pc'[q] \notin {"writeFile", "password", "acl", "enrolRead", "enrolFile", "rotateSave"}
      BY <1>2, <1>3, IssuingIsClosed DEF Underway, Filing
    <2> QED
      BY <1>1, <2>1, <2>2, <2>3, <2>4, <2>5 DEF Undisturbed, Rewriting
  <1> QED
    BY <1>4, <1>5, SavedRecord DEF EnrolFile, RotateSave

LEMMA EnrolReadUndisturbed ==
  ASSUME IndInv, Undisturbed, NEW o \in Ops, EnrolRead(o)
  PROVE  Undisturbed'
  <1>1. /\ pc[o] = "enrolRead" /\ pc'[o] = "enrolFile" /\ \A q \in Ops : q # o => pc'[q] = pc[q]
        /\ UNCHANGED <<rec, broker, entry, admitted, held, disturbed, kind, at>>
    BY DEF EnrolRead, IndInv, TypeOK
  <1>2. \A q \in Ops : (Rewriting(q)' <=> Rewriting(q)) /\ (Sunk(q)' <=> Sunk(q))
    BY <1>1 DEF Rewriting, Sunk
  <1>3. \A c : InOrder(c) => InOrder(c)'
    BY <1>1, <1>2 DEF InOrder
  <1> QED
    BY <1>1, <1>2, <1>3 DEF Undisturbed, Local, Usable

LEMMA BeginUndisturbed ==
  ASSUME IndInv, Undisturbed, NEW o \in Ops, NEW k \in Kinds, NEW s \in Servers, Begin(o, k, s)
  PROVE  Undisturbed'
  <1>1. /\ kind[o] = "none" /\ pc[o] = "new" /\ pc'[o] \in {"enrol", "readFile", "read"}
        /\ \A q \in Ops : q # o => pc'[q] = pc[q] /\ kind'[q] = kind[q] /\ at'[q] = at[q]
        /\ UNCHANGED <<rec, broker, entry, admitted, held, disturbed>>
    BY DEF Begin, IndInv, TypeOK, PhaseFitsKind
  <1>2. Local' => Local
    BY <1>1 DEF Local
  <1>3. ~Rewriting(o)' /\ pc'[o] \notin {"enrolRead", "enrolFile", "rotateSave"}
    BY <1>1 DEF Rewriting
  <1>4. \A q \in Ops : q # o => (Rewriting(q)' <=> Rewriting(q)) /\ (Sunk(q)' <=> Sunk(q))
    BY <1>1 DEF Rewriting, Sunk
  <1>5. \A c : InOrder(c) => InOrder(c)'
    BY <1>1, <1>3, <1>4 DEF InOrder
  <1>6. Usable' <=> Usable
    BY <1>1 DEF Usable
  <1>7. pc'[o] \notin {"password", "acl"}
    BY <1>1
  <1> QED
    BY <1>1, <1>2, <1>3, <1>4, <1>5, <1>6, <1>7 DEF Undisturbed

(* Everything else. *)
LEMMA OtherUndisturbed ==
  ASSUME IndInv, Undisturbed,
         \/ \E o \in Ops :
               \/ Read(o) \/ Accept(o) \/ ClassifyRefused(o) \/ Export(o) \/ Rotated(o) \/ Throws(o)
               \/ \E effect, answered \in BOOLEAN : CreateTwin(o, effect, answered)
         \/ \E s \in Servers : Expire(s)
         \/ UNCHANGED vars
  PROVE  Undisturbed'
  <1> DEFINE Away == {"accept", "revoke", "classify", "rotate", "createSave", "done", "failed"}
  <1>1. UNCHANGED <<rec, broker, entry, admitted, held, disturbed, kind, at>>
    BY DEF vars, Read, Accept, ClassifyRefused, Export, Rotated, Throws, CreateTwin, Expire
  <1>2. \A q \in Ops : pc'[q] = pc[q] \/ pc'[q] \in Away
    <2>1. ASSUME NEW o \in Ops, Read(o)
          PROVE  \A q \in Ops : pc'[q] = pc[q] \/ pc'[q] \in Away
      BY <2>1 DEF IndInv, TypeOK, PhaseFitsKind, Read, Kinds, Exclusive, Issuing, Foreign, Ingesting
    <2>2. ASSUME NEW o \in Ops,
                 \/ Accept(o) \/ ClassifyRefused(o) \/ Export(o) \/ Rotated(o) \/ Throws(o)
                 \/ \E effect, answered \in BOOLEAN : CreateTwin(o, effect, answered)
          PROVE  \A q \in Ops : pc'[q] = pc[q] \/ pc'[q] \in Away
      BY <2>2 DEF IndInv, TypeOK, End, Accept, ClassifyRefused, Export, Rotated, Throws, CreateTwin
    <2> QED
      BY <2>1, <2>2 DEF vars, Expire
  <1>3. Away \subseteq Phases \ (Filing \cup {"enrolRead", "enrolFile", "rotateSave"})
    BY DEF Phases, Over, Filing, Revoking, Classifying, Rotating
  <1>4. \A q \in Ops : Rewriting(q)' => Rewriting(q)
    BY <1>2 DEF Rewriting
  <1>5. \A c : InOrder(c) => InOrder(c)'
    BY <1>1, <1>4 DEF InOrder
  <1> QED
    BY <1>1, <1>2, <1>4, <1>5 DEF Undisturbed, Local, Usable, Sunk

LEMMA StepUndisturbed == IndInv /\ Undisturbed /\ [Next]_vars => Undisturbed'
  <1> SUFFICES ASSUME IndInv, Undisturbed, [Next]_vars PROVE Undisturbed'
    OBVIOUS
  <1>1. ASSUME NEW o \in Ops, NEW k \in Kinds, NEW s \in Servers, Begin(o, k, s)
        PROVE  Undisturbed'
    BY <1>1, BeginUndisturbed
  <1>2. ASSUME NEW o \in Ops,
               \/ Enrol(o) \/ Revoke(o) \/ Classify(o) \/ CreateSave(o) \/ Rotate(o)
               \/ EnrolRead(o) \/ EnrolFile(o) \/ RotateSave(o)
        PROVE  Undisturbed'
    BY <1>2, RecordUndisturbed, ReleaseUndisturbed, EnrolReadUndisturbed
  <1>3. ASSUME NEW o \in Ops, ReadFile(o) \/ WriteFile(o) \/ Password(o) \/ WriteAcl(o)
        PROVE  Undisturbed'
    BY <1>3, ReadFileUndisturbed, WriteFileUndisturbed, PasswordUndisturbed, WriteAclUndisturbed
  <1>4. ASSUME NEW o \in Ops, AclFails(o)
        PROVE  Undisturbed'
    <2>1. pc[o] = "acl" /\ pc'[o] = "failed" /\ \A q \in Ops : q # o => pc'[q] = pc[q]
      BY <1>4 DEF AclFails, End, IndInv, TypeOK
    <2>2. Torn({o}) /\ UNCHANGED <<rec, broker, entry, held, kind, at>>
      BY <1>4 DEF AclFails
    <2> QED
      BY <2>1, <2>2, TornUndisturbed
  <1>5. ASSUME NEW s \in Servers, Crash(s)
        PROVE  Undisturbed'
    <2> DEFINE writers == {o \in Ops : at[o] = s /\ pc[o] = "acl"}
    <2>1. \A q \in Ops : pc'[q] = pc[q] \/ pc'[q] = "failed"
      BY <1>5 DEF Crash
    <2>2. \A w \in writers : pc[w] = "acl" /\ pc'[w] = "failed"
      BY <1>5 DEF Crash, Running, Over
    <2>3. Torn(writers) /\ UNCHANGED <<rec, broker, entry, held, kind, at>>
      BY <1>5 DEF Crash
    <2>4. writers \in SUBSET Ops
      OBVIOUS
    <2> HIDE DEF writers
    <2> QED
      BY <2>1, <2>2, <2>3, <2>4, TornUndisturbed
  <1> QED
    BY <1>1, <1>2, <1>3, <1>4, <1>5, OtherUndisturbed DEF Next

(* DeviceWorkbench keeps the device record, the broker, the chain and the  *)
(* history of answered calls consistent through every interleaving, crash  *)
(* and ambiguous save.                                                     *)
THEOREM Invariance == Spec => []IndInv
  BY InitInv, StepInv, PTL DEF Spec

(* classify saves the creating marker with compare-and-set before it       *)
(* submits, so at most one Twin creation is ever submitted for a device.   *)
THEOREM SingleSubmission == Spec => []OneSubmission
  <1>1. IndInv => OneSubmission
    BY DEF IndInv, MarkerBeforeSubmission, OneSubmission
  <1> QED
    BY <1>1, Invariance, PTL

(* ingest never accepts a call that began with credentials an answered     *)
(* revocation or rotation has voided, on any server.                       *)
THEOREM VoidedNeverIngests == Spec => []VoidedIsRejected
  <1>1. IndInv => VoidedIsRejected
    BY DEF IndInv
  <1> QED
    BY <1>1, Invariance, PTL

(* On one server process deviceCredentials hands out only a file whose     *)
(* credentials the broker accepts, unless another call on the tenant file  *)
(* has disturbed the device's access; then it may accept none.             *)
THEOREM DownloadableIsAccepted == Spec => []FailsClosedLocally
  <1>1. Init => Undisturbed
    <2>1. ASSUME Init PROVE Undisturbed
      <3>1. \A o \in Ops : kind[o] = "none"
        BY <2>1 DEF Init
      <3>2. \/ rec = Absent
            \/ /\ rec = Enrolled("waiting") \/ rec = Enrolled("created")
               /\ entry \in {"active", "none"} /\ broker = First /\ admitted
        BY <2>1 DEF Init
      <3>3. disturbed = (rec # Absent /\ entry = "none")
        BY <2>1 DEF Init
      <3>4. ~Absent.file /\ Enrolled("waiting").cred = First /\ Enrolled("created").cred = First
        BY DEF Enrolled, Absent
      <3>5. ~disturbed => ~rec.file \/ InOrder(rec.cred)
        BY <3>1, <3>2, <3>3, <3>4 DEF InOrder, Foreign
      <3> QED
        BY <3>1, <3>5 DEF Undisturbed, Usable, Issuing
    <2> QED
      BY <2>1
  <1>2. IndInv /\ Undisturbed /\ [Next]_vars => Undisturbed'
    BY StepUndisturbed
  <1>3. IndInv /\ Undisturbed => FailsClosedLocally
    BY DEF IndInv, TypeOK, BrokerFollows, Undisturbed, InOrder, Local, Usable, FailsClosedLocally, FailsClosed,
           Recoverable, Accepts
  <1> QED
    BY <1>1, <1>2, <1>3, Invariance, PTL DEF Spec
===============================================================================
