-------------------------- MODULE PlantCatalogProofs --------------------------
(***************************************************************************)
(* Proofs about PlantCatalog, for every set of writers, plants, documents  *)
(* and blob names and every bound on revisions.                            *)
(***************************************************************************)
EXTENDS PlantCatalog, TLAPS

(* What a call sealed into its blob. *)
Sealed(w) == [plant       |-> call[w].plant,
              revision    |-> call[w].revision + 1,
              publication |-> call[w].publication,
              document    |-> call[w].document]

(* A call under the lock knows the catalog: between its revision check and *)
(* its rename nobody else moved it.                                        *)
ViewIsCurrent ==
    \A w \in Writers : pc[w] \in {"checked", "stored", "written"} =>
        /\ view[w] = catalog
        /\ catalog[call[w].plant].revision = call[w].revision

BlobIsSealed ==
    \A w \in Writers : pc[w] \in {"stored", "written", "renamed", "ok"} =>
        /\ uri[w] \in Uris
        /\ blobs[uri[w]] = Sealed(w)

CatalogIsMine ==
    \A w \in Writers :
        /\ pc[w] = "written" => temporary[w] = NewCatalog(w)
        /\ pc[w] \in {"renamed", "ok"} => catalog[call[w].plant] = NewPointer(w)
        /\ pc[w] = "ok" => durable = catalog

LockIsHeld == \A w \in Writers : pc[w] \in Locked => lockFile

(* The catalog on the disk lags behind the visible one, plant by plant. *)
DiskLagsBehind ==
    \A p \in Plants : \/ catalog[p].revision > durable[p].revision
                      \/ catalog[p] = durable[p]

BlobsAreSafe == DurableBlobs => unsynced = {} /\ CatalogReadable

IndInv ==
    /\ TypeOK
    /\ WriterExclusion
    /\ LockIsHeld
    /\ ViewIsCurrent
    /\ BlobIsSealed
    /\ CatalogIsMine
    /\ DiskLagsBehind
    /\ AcknowledgedIsDurable
    /\ RevisionWonOnce
    /\ BlobsAreSafe

-------------------------------------------------------------------------------
(* The constant that stands for "no call" is a call. *)
LEMMA NoCallType == NoCall \in Call
  <1>1. PICK p \in Plants, d \in Documents : TRUE
    BY PlantCatalogAssumption
  <1>2. [plant |-> p, revision |-> 0, document |-> d, publication |-> NoPublication] \in Call
    BY <1>1, PlantCatalogAssumption DEF Call, AnyPublication
  <1> QED
    BY <1>2 DEF NoCall

LEMMA EmptyCatalogType == EmptyCatalog \in Catalog
  BY PlantCatalogAssumption DEF EmptyCatalog, Catalog, NoPointer, Pointer, AnyPublication

(* What a call that stored its blob is about to commit is well typed. *)
LEMMA NewPointerType ==
  ASSUME TypeOK, NEW w \in Writers, uri[w] \in Uris
  PROVE  /\ NewPointer(w) \in Pointer
         /\ NewCatalog(w) \in Catalog
  <1>1. call[w] \in Call /\ view[w] \in Catalog
    BY DEF TypeOK
  <1>2. NewPointer(w) \in Pointer
    BY <1>1, PlantCatalogAssumption DEF NewPointer, Pointer, Call
  <1> QED
    BY <1>1, <1>2 DEF NewCatalog, Catalog, Call

LEMMA SealedType ==
  ASSUME TypeOK, NEW w \in Writers
  PROVE  Sealed(w) \in Blob
  BY PlantCatalogAssumption DEF TypeOK, Sealed, Blob, Call

(* Ending calls leaves every local variable well typed. *)
LEMMA EndCallsType ==
  ASSUME TypeOK, NEW ending \in SUBSET Writers, EndCalls(ending)
  PROVE  /\ temporary' \in [Writers -> Catalog]
         /\ pc' \in [Writers -> Locked \cup {"idle"}]
         /\ call' \in [Writers -> Call]
         /\ view' \in [Writers -> Catalog]
         /\ uri' \in [Writers -> Uris \cup {NoUri}]
  BY NoCallType, EmptyCatalogType DEF TypeOK, EndCalls

(* Ending calls preserves everything that is said of a call. *)
LEMMA EndCallsPreserves ==
  ASSUME IndInv, NEW ending \in SUBSET Writers, EndCalls(ending),
         \A w \in Writers \ ending : pc[w] = "idle" \/ UNCHANGED <<lockFile, catalog, durable, blobs>>
  PROVE  /\ WriterExclusion'
         /\ ViewIsCurrent'
         /\ BlobIsSealed'
         /\ CatalogIsMine'
  <1> DEFINE Idle(w) == pc'[w] = "idle"
  <1>1. \A w \in Writers : Idle(w) \/ (/\ UNCHANGED <<lockFile, catalog, durable, blobs>>
                                      /\ pc'[w] = pc[w] /\ call'[w] = call[w]
                                      /\ view'[w] = view[w] /\ uri'[w] = uri[w]
                                      /\ temporary'[w] = temporary[w])
    BY DEF EndCalls
  <1>2. WriterExclusion'
    BY <1>1 DEF IndInv, WriterExclusion, Locked
  <1>3. ViewIsCurrent'
    BY <1>1 DEF IndInv, ViewIsCurrent
  <1>4. BlobIsSealed'
    BY <1>1 DEF IndInv, BlobIsSealed, Sealed
  <1>5. CatalogIsMine'
    BY <1>1 DEF IndInv, CatalogIsMine, NewCatalog, NewPointer
  <1> QED
    BY <1>2, <1>3, <1>4, <1>5

-------------------------------------------------------------------------------
LEMMA InitInv == Init => IndInv
  <1> SUFFICES ASSUME Init PROVE IndInv
    OBVIOUS
  <1>1. TypeOK
    BY NoCallType, EmptyCatalogType DEF Init, TypeOK
  <1>2. WriterExclusion /\ LockIsHeld
    BY DEF Init, WriterExclusion, LockIsHeld, Locked
  <1>3. ViewIsCurrent /\ BlobIsSealed /\ CatalogIsMine
    BY DEF Init, ViewIsCurrent, BlobIsSealed, CatalogIsMine
  <1>4. DiskLagsBehind /\ AcknowledgedIsDurable /\ RevisionWonOnce
    BY DEF Init, DiskLagsBehind, AcknowledgedIsDurable, RevisionWonOnce
  <1>5. BlobsAreSafe
    BY DEF Init, BlobsAreSafe, CatalogReadable, EmptyCatalog, NoPointer
  <1> QED
    BY <1>1, <1>2, <1>3, <1>4, <1>5 DEF IndInv

(* A step that leaves the stored state alone and only moves one call       *)
(* forward or backward within the lock.                                    *)
LEMMA LockedStepExclusion ==
  ASSUME IndInv, NEW w \in Writers, pc[w] \in Locked,
         NEW next \in Locked, pc' = [pc EXCEPT ![w] = next]
  PROVE  /\ pc' \in [Writers -> Locked \cup {"idle"}]
         /\ WriterExclusion'
         /\ \A v \in Writers : pc'[v] \in Locked => v = w
         /\ \A v \in Writers : pc'[v] \in Locked => pc[v] \in Locked
         /\ pc'[w] = next
  <1>1. pc \in [Writers -> Locked \cup {"idle"}]
    BY DEF IndInv, TypeOK
  <1>2. \A v \in Writers : pc[v] \in Locked => v = w
    BY DEF IndInv, WriterExclusion
  <1> QED
    BY <1>1, <1>2 DEF WriterExclusion

LEMMA TakeLockInv ==
  ASSUME IndInv, NEW w \in Writers, NEW p \in Plants, NEW revision \in 0..(MaxRevision - 1),
         NEW document \in Documents, NEW publication \in AnyPublication,
         TakeLock(w, p, revision, document, publication)
  PROVE  IndInv'
  <1> USE DEF IndInv
  <1>1. TypeOK'
    BY DEF TypeOK, TakeLock, Locked, Call
  <1>2. /\ pc' = [pc EXCEPT ![w] = "locked"] /\ pc \in [Writers -> Locked \cup {"idle"}]
        /\ \A v \in Writers : pc[v] \notin Locked
        /\ UNCHANGED <<catalog, durable, blobs, unsynced, temporary, view, uri, acks>>
        /\ lockFile'
    BY DEF TakeLock, LockIsHeld, TypeOK
  <1>3. \A v \in Writers : pc'[v] = "idle" \/ (v = w /\ pc'[v] = "locked")
    BY <1>2
  <1>4. WriterExclusion' /\ LockIsHeld'
    BY <1>2, <1>3 DEF WriterExclusion, LockIsHeld, Locked
  <1>5. ViewIsCurrent' /\ BlobIsSealed' /\ CatalogIsMine'
    BY <1>3 DEF ViewIsCurrent, BlobIsSealed, CatalogIsMine
  <1>6. DiskLagsBehind' /\ AcknowledgedIsDurable' /\ RevisionWonOnce'
    BY <1>2 DEF DiskLagsBehind, AcknowledgedIsDurable, RevisionWonOnce
  <1>7. BlobsAreSafe'
    BY <1>2 DEF BlobsAreSafe, CatalogReadable, Authenticates
  <1> QED
    BY <1>1, <1>4, <1>5, <1>6, <1>7

(* The steps of a call under the lock that change neither the catalog, the *)
(* disk nor a blob.                                                        *)
LEMMA QuietStepInv ==
  ASSUME IndInv, NEW w \in Writers,
         ReadCatalog(w) \/ WriteTemporary(w) \/ StepFails(w)
  PROVE  IndInv'
  <1> USE DEF IndInv
  <1>1. PICK next \in Locked : pc' = [pc EXCEPT ![w] = next]
    BY DEF ReadCatalog, WriteTemporary, StepFails, Locked
  <1>2. pc[w] \in Locked
    BY DEF ReadCatalog, WriteTemporary, StepFails, Locked
  <1>3. /\ pc' \in [Writers -> Locked \cup {"idle"}]
        /\ WriterExclusion'
        /\ \A v \in Writers : pc'[v] \in Locked => v = w
        /\ \A v \in Writers : pc'[v] \in Locked => pc[v] \in Locked
    BY <1>1, <1>2, LockedStepExclusion
  <1>4. UNCHANGED <<lockFile, catalog, durable, blobs, unsynced, call, uri, acks>>
    BY DEF ReadCatalog, WriteTemporary, StepFails
  <1>5. TypeOK'
    <2>1. CASE ReadCatalog(w)
      BY <2>1, <1>3, <1>4 DEF TypeOK, ReadCatalog
    <2>2. CASE WriteTemporary(w)
      <3>1. uri[w] \in Uris
        BY <2>2 DEF WriteTemporary, BlobIsSealed
      <3>2. NewCatalog(w) \in Catalog
        BY <3>1, NewPointerType
      <3> QED
        BY <2>2, <3>2, <1>3, <1>4 DEF TypeOK, WriteTemporary
    <2>3. CASE StepFails(w)
      BY <2>3, <1>3, <1>4 DEF TypeOK, StepFails
    <2> QED
      BY <2>1, <2>2, <2>3
  <1>6. LockIsHeld'
    BY <1>3, <1>4 DEF LockIsHeld
  <1>7. ViewIsCurrent' /\ BlobIsSealed' /\ CatalogIsMine'
    <2>1. CASE ReadCatalog(w)
      <3>1. /\ pc'[w] = "failed" \/ (/\ pc'[w] = "checked"
                                     /\ catalog[call[w].plant].revision = call[w].revision)
            /\ view'[w] = catalog
        BY <2>1 DEF ReadCatalog, TypeOK
      <3> QED
        BY <1>3, <1>4, <3>1 DEF ViewIsCurrent, BlobIsSealed, CatalogIsMine, Locked
    <2>2. CASE WriteTemporary(w)
      <3>1. /\ pc[w] = "stored" /\ pc'[w] = "written" /\ view' = view
            /\ temporary'[w] = NewCatalog(w)
        BY <2>2 DEF WriteTemporary, TypeOK
      <3>2. NewCatalog(w)' = NewCatalog(w) /\ Sealed(w)' = Sealed(w)
        BY <1>4, <3>1 DEF NewCatalog, NewPointer, Sealed
      <3> QED
        BY <1>3, <1>4, <3>1, <3>2 DEF ViewIsCurrent, BlobIsSealed, CatalogIsMine, Locked
    <2>3. CASE StepFails(w)
      <3>1. pc'[w] = "failed"
        BY <2>3 DEF StepFails, TypeOK
      <3> QED
        BY <1>3, <3>1 DEF ViewIsCurrent, BlobIsSealed, CatalogIsMine, Locked
    <2> QED
      BY <2>1, <2>2, <2>3
  <1>8. DiskLagsBehind' /\ AcknowledgedIsDurable' /\ RevisionWonOnce'
    BY <1>4 DEF DiskLagsBehind, AcknowledgedIsDurable, RevisionWonOnce
  <1>9. BlobsAreSafe'
    BY <1>4 DEF BlobsAreSafe, CatalogReadable, Authenticates
  <1> QED
    BY <1>3, <1>5, <1>6, <1>7, <1>8, <1>9

(* Storing a blob overwrites none that a pointer or a call refers to. *)
LEMMA StoreBlobInv ==
  ASSUME IndInv, NEW w \in Writers, NEW u \in Uris, StoreBlob(w, u)
  PROVE  IndInv'
  <1> USE DEF IndInv
  <1>1. pc[w] = "checked" /\ pc' = [pc EXCEPT ![w] = "stored"]
    BY DEF StoreBlob
  <1>2. /\ pc' \in [Writers -> Locked \cup {"idle"}]
        /\ WriterExclusion'
        /\ \A v \in Writers : pc'[v] \in Locked => v = w
        /\ \A v \in Writers : pc'[v] \in Locked => pc[v] \in Locked
        /\ pc'[w] = "stored"
    BY <1>1, LockedStepExclusion DEF Locked
  <1>3. UNCHANGED <<lockFile, catalog, durable, temporary, call, view, acks>>
    BY DEF StoreBlob
  <1>4. blobs' = [blobs EXCEPT ![u] = Sealed(w)] /\ Sealed(w)' = Sealed(w)
    BY DEF StoreBlob, Sealed
  <1>5. uri' = [uri EXCEPT ![w] = u] /\ uri'[w] = u
    BY DEF StoreBlob, TypeOK
  <1>6. TypeOK'
    <2>1. Sealed(w) \in Blob
      BY SealedType
    <2>2. blobs' \in [Uris -> Blob \cup {NoBlob}] /\ uri' \in [Writers -> Uris \cup {NoUri}]
      BY <2>1, <1>4, <1>5 DEF TypeOK
    <2>3. unsynced' \in SUBSET Uris
      BY DEF StoreBlob, TypeOK
    <2> QED
      BY <2>2, <2>3, <1>2, <1>3 DEF TypeOK
  <1>7. LockIsHeld'
    BY <1>2, <1>3 DEF LockIsHeld
  <1>8. ViewIsCurrent' /\ CatalogIsMine'
    BY <1>1, <1>2, <1>3 DEF ViewIsCurrent, CatalogIsMine, Locked
  <1>9. BlobIsSealed'
    <2>1. blobs'[u] = Sealed(w)'
      BY <1>4 DEF TypeOK
    <2> QED
      BY <1>2, <1>5, <2>1 DEF BlobIsSealed, Locked
  <1>10. DiskLagsBehind' /\ AcknowledgedIsDurable' /\ RevisionWonOnce'
    BY <1>3 DEF DiskLagsBehind, AcknowledgedIsDurable, RevisionWonOnce
  <1>11. BlobsAreSafe'
    <2> SUFFICES ASSUME DurableBlobs PROVE unsynced' = {} /\ CatalogReadable'
      BY DEF BlobsAreSafe
    <2>1. unsynced' = {}
      BY DEF StoreBlob, BlobsAreSafe
    <2>2. blobs[u].revision = 0
      BY DEF StoreBlob, NoBlob
    <2>3. \A v \in Uris : v # u => blobs'[v] = blobs[v]
      BY <1>4 DEF TypeOK
    <2>4. CatalogReadable'
      <3> SUFFICES ASSUME NEW p \in Plants, NEW c \in {catalog, durable}, c[p].revision > 0
                   PROVE  c[p].uri \in Uris /\ Authenticates(p, c[p], blobs')
        BY <1>3 DEF CatalogReadable
      <3>1. c[p].uri \in Uris /\ Authenticates(p, c[p], blobs)
        BY DEF BlobsAreSafe, CatalogReadable
      <3>2. c[p].uri # u
        BY <2>2, <3>1 DEF Authenticates
      <3> QED
        BY <3>1, <3>2, <2>3 DEF Authenticates
    <2> QED
      BY <2>1, <2>4
  <1> QED
    BY <1>2, <1>6, <1>7, <1>8, <1>9, <1>10, <1>11

(* The rename publishes exactly one new revision of one plant. *)
LEMMA RenameEffect ==
  ASSUME IndInv, NEW w \in Writers, Rename(w)
  PROVE  /\ catalog' = [catalog EXCEPT ![call[w].plant] = NewPointer(w)]
         /\ catalog \in Catalog /\ catalog' \in Catalog
         /\ call[w].plant \in Plants
         /\ catalog[call[w].plant].revision = call[w].revision
         /\ NewPointer(w).revision = catalog[call[w].plant].revision + 1
         /\ catalog[call[w].plant].revision \in Nat
  <1> USE DEF IndInv
  <1>1. pc[w] = "written" /\ catalog' = NewCatalog(w) /\ view[w] = catalog
    BY DEF Rename, CatalogIsMine, ViewIsCurrent
  <1>2. uri[w] \in Uris
    BY <1>1 DEF BlobIsSealed
  <1>3. NewCatalog(w) \in Catalog
    BY <1>2, NewPointerType
  <1>4. call[w].plant \in Plants /\ catalog \in Catalog
    BY DEF TypeOK, Call
  <1>5. catalog[call[w].plant].revision = call[w].revision /\ call[w].revision \in Nat
    BY <1>1 DEF ViewIsCurrent, TypeOK, Call
  <1> QED
    BY <1>1, <1>3, <1>4, <1>5 DEF NewCatalog, NewPointer

LEMMA RenameInv ==
  ASSUME IndInv, NEW w \in Writers, Rename(w)
  PROVE  IndInv'
  <1> USE DEF IndInv
  <1> DEFINE p == call[w].plant
  <1>1. pc[w] = "written" /\ pc' = [pc EXCEPT ![w] = "renamed"]
    BY DEF Rename
  <1>2. /\ pc' \in [Writers -> Locked \cup {"idle"}]
        /\ WriterExclusion'
        /\ \A v \in Writers : pc'[v] \in Locked => v = w
        /\ \A v \in Writers : pc'[v] \in Locked => pc[v] \in Locked
        /\ pc'[w] = "renamed"
    BY <1>1, LockedStepExclusion DEF Locked
  <1>3. UNCHANGED <<lockFile, durable, blobs, unsynced, temporary, call, view, uri, acks>>
    BY DEF Rename
  <1>4. /\ catalog' = [catalog EXCEPT ![p] = NewPointer(w)]
        /\ catalog \in Catalog /\ catalog' \in Catalog /\ p \in Plants
        /\ NewPointer(w).revision = catalog[p].revision + 1
        /\ catalog[p].revision \in Nat
    BY RenameEffect
  <1>5. catalog'[p] = NewPointer(w) /\ \A q \in Plants : q # p => catalog'[q] = catalog[q]
    BY <1>4 DEF Catalog
  <1>6. TypeOK'
    BY <1>2, <1>3, <1>4 DEF TypeOK
  <1>7. LockIsHeld'
    BY <1>2, <1>3 DEF LockIsHeld
  <1>8. ViewIsCurrent'
    BY <1>2 DEF ViewIsCurrent, Locked
  <1>9. BlobIsSealed'
    BY <1>1, <1>2, <1>3 DEF BlobIsSealed, Sealed, Locked
  <1>10. CatalogIsMine'
    <2>1. NewPointer(w)' = NewPointer(w)
      BY <1>3 DEF NewPointer
    <2> QED
      BY <1>2, <1>3, <1>5, <2>1 DEF CatalogIsMine, Locked
  <1>11. DiskLagsBehind'
    <2> SUFFICES ASSUME NEW q \in Plants
                 PROVE  catalog'[q].revision > durable[q].revision \/ catalog'[q] = durable[q]
      BY <1>3 DEF DiskLagsBehind
    <2>1. CASE q = p
      <3>1. durable[p].revision \in Nat
        BY <1>4 DEF TypeOK, Catalog, Pointer
      <3> QED
        BY <2>1, <3>1, <1>4, <1>5 DEF DiskLagsBehind
    <2>2. CASE q # p
      BY <2>2, <1>5 DEF DiskLagsBehind
    <2> QED
      BY <2>1, <2>2
  <1>12. AcknowledgedIsDurable' /\ RevisionWonOnce'
    BY <1>3 DEF AcknowledgedIsDurable, RevisionWonOnce
  <1>13. BlobsAreSafe'
    <2> SUFFICES ASSUME DurableBlobs, NEW q \in Plants, NEW c \in {catalog', durable}, c[q].revision > 0
                 PROVE  c[q].uri \in Uris /\ Authenticates(q, c[q], blobs)
      BY <1>3 DEF BlobsAreSafe, CatalogReadable
    <2>1. CASE c = catalog' /\ q = p
      <3>1. uri[w] \in Uris /\ blobs[uri[w]] = Sealed(w)
        BY <1>1 DEF BlobIsSealed
      <3> QED
        BY <2>1, <3>1, <1>5 DEF Authenticates, Sealed, NewPointer
    <2>2. CASE c[q] \in {catalog[q], durable[q]}
      BY <2>2 DEF BlobsAreSafe, CatalogReadable
    <2> QED
      BY <2>1, <2>2, <1>5
  <1> QED
    BY <1>2, <1>6, <1>7, <1>8, <1>9, <1>10, <1>11, <1>12, <1>13

(* Whatever was durable stays dominated when the visible catalog replaces  *)
(* the one on the disk.                                                    *)
LEMMA CatchUpKeepsAcks ==
  ASSUME IndInv, durable' = catalog, UNCHANGED acks
  PROVE  AcknowledgedIsDurable'
  <1> SUFFICES ASSUME NEW a \in acks
               PROVE  \/ catalog[a.plant].revision > a.revision
                      \/ catalog[a.plant].revision = a.revision /\ catalog[a.plant].uri = a.uri
    BY DEF AcknowledgedIsDurable
  <1>1. a.plant \in Plants /\ a.revision \in Nat
    BY DEF IndInv, TypeOK, Ack
  <1>2. catalog[a.plant].revision \in Nat /\ durable[a.plant].revision \in Nat
    BY <1>1 DEF IndInv, TypeOK, Catalog, Pointer
  <1> QED
    BY <1>1, <1>2 DEF IndInv, AcknowledgedIsDurable, DiskLagsBehind

LEMMA SyncDirectoryInv ==
  ASSUME IndInv, NEW w \in Writers, SyncDirectory(w)
  PROVE  IndInv'
  <1> USE DEF IndInv
  <1>1. pc[w] = "renamed" /\ pc' = [pc EXCEPT ![w] = "ok"] /\ durable' = catalog
    BY DEF SyncDirectory
  <1>2. /\ pc' \in [Writers -> Locked \cup {"idle"}]
        /\ WriterExclusion'
        /\ \A v \in Writers : pc'[v] \in Locked => v = w
        /\ \A v \in Writers : pc'[v] \in Locked => pc[v] \in Locked
        /\ pc'[w] = "ok"
    BY <1>1, LockedStepExclusion DEF Locked
  <1>3. UNCHANGED <<lockFile, catalog, blobs, unsynced, temporary, call, view, uri, acks>>
    BY DEF SyncDirectory
  <1>4. TypeOK'
    BY <1>1, <1>2, <1>3 DEF TypeOK
  <1>5. LockIsHeld'
    BY <1>2, <1>3 DEF LockIsHeld
  <1>6. ViewIsCurrent' /\ BlobIsSealed'
    BY <1>1, <1>2, <1>3 DEF ViewIsCurrent, BlobIsSealed, Sealed, Locked
  <1>7. CatalogIsMine'
    BY <1>1, <1>2, <1>3 DEF CatalogIsMine, NewPointer, Locked
  <1>8. DiskLagsBehind' /\ RevisionWonOnce'
    BY <1>1, <1>3 DEF DiskLagsBehind, RevisionWonOnce
  <1>9. AcknowledgedIsDurable'
    BY <1>1, <1>3, CatchUpKeepsAcks
  <1>10. BlobsAreSafe'
    BY <1>1, <1>3 DEF BlobsAreSafe, CatalogReadable
  <1> QED
    BY <1>2, <1>4, <1>5, <1>6, <1>7, <1>8, <1>9, <1>10

(* An acknowledgement is given for the revision that is on the disk. *)
LEMMA ReleaseLockInv ==
  ASSUME IndInv, NEW w \in Writers, ReleaseLock(w)
  PROVE  IndInv'
  <1> USE DEF IndInv
  <1> DEFINE ack == [plant |-> call[w].plant, revision |-> call[w].revision + 1, uri |-> uri[w]]
  <1>1. EndCalls({w}) /\ UNCHANGED <<catalog, durable, blobs, unsynced>> /\ lockFile' = FALSE
        /\ pc[w] \in {"ok", "failed"}
    BY DEF ReleaseLock
  <1>2. \A v \in Writers : pc'[v] = "idle"
    BY <1>1 DEF EndCalls, WriterExclusion, Locked, TypeOK
  <1>3. pc[w] = "ok" => /\ ack \in Ack
                        /\ durable[ack.plant].revision = ack.revision
                        /\ durable[ack.plant].uri = ack.uri
    <2> SUFFICES ASSUME pc[w] = "ok" PROVE /\ ack \in Ack
                                           /\ durable[ack.plant].revision = ack.revision
                                           /\ durable[ack.plant].uri = ack.uri
      OBVIOUS
    <2>1. durable[call[w].plant] = NewPointer(w) /\ uri[w] \in Uris
      BY DEF CatalogIsMine, BlobIsSealed
    <2>2. ack \in Ack
      BY <2>1, PlantCatalogAssumption DEF Ack, TypeOK, Call
    <2> QED
      BY <2>1, <2>2 DEF NewPointer
  <1>4. acks' = acks \/ (pc[w] = "ok" /\ acks' = acks \cup {ack})
    BY DEF ReleaseLock
  <1>5. TypeOK'
    <2>1. acks' \in SUBSET Ack
      BY <1>3, <1>4 DEF TypeOK
    <2> QED
      BY <1>1, <2>1, EndCallsType DEF TypeOK
  <1>6. WriterExclusion' /\ LockIsHeld' /\ ViewIsCurrent' /\ BlobIsSealed' /\ CatalogIsMine'
    BY <1>2 DEF WriterExclusion, LockIsHeld, ViewIsCurrent, BlobIsSealed, CatalogIsMine, Locked
  <1>7. DiskLagsBehind'
    BY <1>1 DEF DiskLagsBehind
  <1>8. AcknowledgedIsDurable'
    BY <1>1, <1>3, <1>4 DEF AcknowledgedIsDurable
  <1>9. RevisionWonOnce'
    <2>1. CASE acks' = acks
      BY <2>1 DEF RevisionWonOnce
    <2>2. CASE pc[w] = "ok" /\ acks' = acks \cup {ack}
      <3>1. ASSUME NEW a \in acks, a.plant = ack.plant, a.revision = ack.revision
            PROVE  a.uri = ack.uri
        <4>1. a.revision \in Nat
          BY DEF TypeOK, Ack
        <4> QED
          BY <4>1, <3>1, <2>2, <1>3 DEF AcknowledgedIsDurable
      <3> HIDE DEF ack
      <3> QED
        BY <2>2, <3>1 DEF RevisionWonOnce
    <2> QED
      BY <1>4, <2>1, <2>2
  <1>10. BlobsAreSafe'
    BY <1>1 DEF BlobsAreSafe, CatalogReadable, Authenticates
  <1> QED
    BY <1>5, <1>6, <1>7, <1>8, <1>9, <1>10

LEMMA ProcessDiesInv ==
  ASSUME IndInv, NEW w \in Writers, ProcessDies(w)
  PROVE  IndInv'
  <1> USE DEF IndInv
  <1>1. EndCalls({w}) /\ UNCHANGED <<lockFile, catalog, durable, blobs, unsynced, acks>>
    BY DEF ProcessDies
  <1>2. TypeOK'
    BY <1>1, EndCallsType DEF TypeOK
  <1>3. WriterExclusion' /\ ViewIsCurrent' /\ BlobIsSealed' /\ CatalogIsMine'
    BY <1>1, EndCallsPreserves
  <1>4. LockIsHeld'
    BY <1>1 DEF EndCalls, LockIsHeld, Locked
  <1>5. DiskLagsBehind' /\ AcknowledgedIsDurable' /\ RevisionWonOnce'
    BY <1>1 DEF DiskLagsBehind, AcknowledgedIsDurable, RevisionWonOnce
  <1>6. BlobsAreSafe'
    BY <1>1 DEF BlobsAreSafe, CatalogReadable, Authenticates
  <1> QED
    BY <1>2, <1>3, <1>4, <1>5, <1>6

LEMMA HostCrashInv ==
  ASSUME IndInv, NEW lost \in SUBSET Uris, HostCrash(lost)
  PROVE  IndInv'
  <1> USE DEF IndInv
  <1>1. EndCalls(Writers) /\ UNCHANGED acks /\ unsynced' = {} /\ lost \subseteq unsynced
        /\ lockFile' \in {lockFile, FALSE}
        /\ blobs' = [u \in Uris |-> IF u \in lost THEN NoBlob ELSE blobs[u]]
    BY DEF HostCrash
  <1>2. \/ catalog' = durable /\ durable' = durable
        \/ durable' = catalog /\ catalog' = catalog
    BY DEF HostCrash
  <1>3. \A w \in Writers : pc'[w] = "idle"
    BY <1>1 DEF EndCalls
  <1>4. TypeOK'
    <2>1. blobs' \in [Uris -> Blob \cup {NoBlob}]
      BY <1>1 DEF TypeOK
    <2>2. catalog' \in Catalog /\ durable' \in Catalog
      BY <1>2 DEF TypeOK
    <2> QED
      BY <1>1, <2>1, <2>2, EndCallsType DEF TypeOK
  <1>5. WriterExclusion' /\ LockIsHeld' /\ ViewIsCurrent' /\ BlobIsSealed' /\ CatalogIsMine'
    BY <1>3 DEF WriterExclusion, LockIsHeld, ViewIsCurrent, BlobIsSealed, CatalogIsMine, Locked
  <1>6. DiskLagsBehind' /\ RevisionWonOnce'
    BY <1>1, <1>2 DEF DiskLagsBehind, RevisionWonOnce
  <1>7. AcknowledgedIsDurable'
    <2>1. CASE durable' = durable
      BY <2>1, <1>1 DEF AcknowledgedIsDurable
    <2>2. CASE durable' = catalog
      BY <2>2, <1>1, CatchUpKeepsAcks
    <2> QED
      BY <2>1, <2>2, <1>2
  <1>8. BlobsAreSafe'
    <2> SUFFICES ASSUME DurableBlobs PROVE unsynced' = {} /\ CatalogReadable'
      BY DEF BlobsAreSafe
    <2>1. blobs' = blobs
      BY <1>1 DEF BlobsAreSafe, TypeOK
    <2> QED
      BY <1>1, <1>2, <2>1 DEF BlobsAreSafe, CatalogReadable, Authenticates
  <1> QED
    BY <1>4, <1>5, <1>6, <1>7, <1>8

LEMMA OutsideStepInv ==
  ASSUME IndInv, OperatorUnlocks \/ UNCHANGED vars
  PROVE  IndInv'
  <1> USE DEF IndInv
  <1>1. /\ UNCHANGED <<catalog, durable, blobs, temporary, pc, call, view, uri, acks>>
        /\ lockFile' \in BOOLEAN
        /\ unsynced' \subseteq unsynced
        /\ lockFile' = lockFile \/ \A w \in Writers : pc[w] = "idle"
    BY DEF OperatorUnlocks, vars, TypeOK
  <1>2. TypeOK'
    BY <1>1 DEF TypeOK
  <1>3. WriterExclusion' /\ LockIsHeld'
    BY <1>1 DEF WriterExclusion, LockIsHeld, Locked
  <1>4. ViewIsCurrent' /\ BlobIsSealed' /\ CatalogIsMine'
    BY <1>1 DEF ViewIsCurrent, BlobIsSealed, CatalogIsMine, Sealed, NewCatalog, NewPointer
  <1>5. DiskLagsBehind' /\ AcknowledgedIsDurable' /\ RevisionWonOnce'
    BY <1>1 DEF DiskLagsBehind, AcknowledgedIsDurable, RevisionWonOnce
  <1>6. BlobsAreSafe'
    BY <1>1 DEF BlobsAreSafe, CatalogReadable, Authenticates
  <1> QED
    BY <1>2, <1>3, <1>4, <1>5, <1>6

(* The inductive invariant: every step of every call, every failure and    *)
(* every crash preserves it.                                               *)
LEMMA StepInv == IndInv /\ [Next]_vars => IndInv'
  <1> SUFFICES ASSUME IndInv, [Next]_vars PROVE IndInv'
    OBVIOUS
  <1>1. ASSUME NEW w \in Writers, NEW p \in Plants, NEW revision \in 0..(MaxRevision - 1),
               NEW document \in Documents, NEW publication \in AnyPublication,
               TakeLock(w, p, revision, document, publication)
        PROVE  IndInv'
    BY <1>1, TakeLockInv
  <1>2. ASSUME NEW w \in Writers, ReadCatalog(w) \/ WriteTemporary(w) \/ StepFails(w)
        PROVE  IndInv'
    BY <1>2, QuietStepInv
  <1>3. ASSUME NEW w \in Writers, NEW u \in Uris, StoreBlob(w, u)
        PROVE  IndInv'
    BY <1>3, StoreBlobInv
  <1>4. ASSUME NEW w \in Writers, Rename(w) \/ SyncDirectory(w) \/ ReleaseLock(w) \/ ProcessDies(w)
        PROVE  IndInv'
    BY <1>4, RenameInv, SyncDirectoryInv, ReleaseLockInv, ProcessDiesInv
  <1>5. ASSUME NEW lost \in SUBSET Uris, HostCrash(lost)
        PROVE  IndInv'
    BY <1>5, HostCrashInv
  <1>6. ASSUME OperatorUnlocks \/ UNCHANGED vars
        PROVE  IndInv'
    BY <1>6, OutsideStepInv
  <1> QED
    BY <1>1, <1>2, <1>3, <1>4, <1>5, <1>6 DEF Next

(* The inductive invariant: lock, blobs, catalog and the disk's copy agree *)
(* in every reachable state.                                               *)
THEOREM Invariance == Spec => []IndInv
  <1>1. Init => IndInv
    BY InitInv
  <1>2. IndInv /\ [Next]_vars => IndInv'
    BY StepInv
  <1> QED
    BY <1>1, <1>2, PTL DEF Spec

(* Every variable of the catalog protocol keeps its type: revisions stay   *)
(* within the bound and every pointer names a stored blob or nothing.      *)
THEOREM TypeCorrect == Spec => []TypeOK
  <1>1. IndInv => TypeOK
    BY DEF IndInv
  <1> QED
    BY <1>1, Invariance, PTL

(* put is mutually exclusive over every process, whatever died and whoever *)
(* removed a stale lock while no writer ran.                               *)
THEOREM Exclusion == Spec => []WriterExclusion
  <1>1. IndInv => WriterExclusion
    BY DEF IndInv
  <1> QED
    BY <1>1, Invariance, PTL

(* An acknowledged revision survives every later failure, host crashes     *)
(* included.                                                               *)
THEOREM Durability == Spec => []AcknowledgedIsDurable
  <1>1. IndInv => AcknowledgedIsDurable
    BY DEF IndInv
  <1> QED
    BY <1>1, Invariance, PTL

(* No two callers are told that they wrote the same revision. *)
THEOREM NoLostUpdate == Spec => []RevisionWonOnce
  <1>1. IndInv => RevisionWonOnce
    BY DEF IndInv
  <1> QED
    BY <1>1, Invariance, PTL

(* With a blob store whose objects survive a host crash, every pointer of  *)
(* the catalog can be read back.                                           *)
THEOREM Readability == ASSUME DurableBlobs PROVE Spec => []CatalogReadable
  <1>1. IndInv => CatalogReadable
    BY DEF IndInv, BlobsAreSafe
  <1> QED
    BY <1>1, Invariance, PTL

-------------------------------------------------------------------------------
(* Refinement of the compare-and-swap store. *)

VisibleStore == [p \in Plants |-> EntryOf(catalog[p])]

StableStore == [p \in Plants |-> EntryOf(durable[p])]

(* Without a change to the catalogs, and with every readable blob kept, a  *)
(* step is invisible to callers.                                           *)
LEMMA InvisibleStep ==
  ASSUME IndInv, DurableBlobs, UNCHANGED <<catalog, durable>>,
         \A u \in Uris : blobs[u] # NoBlob => blobs'[u] = blobs[u]
  PROVE  UNCHANGED <<VisibleStore, StableStore>>
  <1>1. ASSUME NEW p \in Plants, NEW c \in {catalog, durable}
        PROVE  EntryOf(c[p])' = EntryOf(c[p])
    <2>1. c[p] \in Pointer /\ c' = c
      BY DEF IndInv, TypeOK, Catalog
    <2>2. CASE c[p].revision = 0
      BY <2>1, <2>2 DEF EntryOf
    <2>3. CASE c[p].revision # 0
      <3>1. c[p].uri \in Uris /\ Authenticates(p, c[p], blobs)
        BY <2>1, <2>3 DEF IndInv, BlobsAreSafe, CatalogReadable, Pointer
      <3>2. blobs[c[p].uri] # NoBlob
        BY <2>3, <3>1 DEF Authenticates, NoBlob
      <3> QED
        BY <2>1, <3>1, <3>2 DEF EntryOf
    <2> QED
      BY <2>2, <2>3
  <1>2. \A p \in Plants : EntryOf(catalog[p])' = EntryOf(catalog[p])
                       /\ EntryOf(durable[p])' = EntryOf(durable[p])
    BY <1>1
  <1> QED
    BY <1>2 DEF VisibleStore, StableStore

LEMMA InitRefines == Init => Abstract!StoreInit
  BY PlantCatalogAssumption
  DEF Init, Abstract!StoreInit, Abstract!NeverWritten, EntryOf, EmptyCatalog, NoPointer

(* The rename is the compare-and-swap. *)
LEMMA RenameRefines ==
  ASSUME IndInv, DurableBlobs, NEW w \in Writers, Rename(w)
  PROVE  Abstract!CompareAndSwap(call[w].plant, call[w].revision,
                                 call[w].document, call[w].publication)
  <1> DEFINE q == call[w].plant
  <1>1. /\ catalog' = [catalog EXCEPT ![q] = NewPointer(w)]
        /\ catalog \in Catalog /\ q \in Plants
        /\ catalog[q].revision = call[w].revision
        /\ call[w].revision \in Nat
    BY RenameEffect
  <1>2. UNCHANGED <<durable, blobs>>
    BY DEF Rename
  <1>3. uri[w] \in Uris /\ blobs[uri[w]] = Sealed(w)
    BY DEF IndInv, BlobIsSealed, Rename
  <1>4. EntryOf(NewPointer(w)) = [revision    |-> call[w].revision + 1,
                                  document    |-> call[w].document,
                                  publication |-> call[w].publication]
    BY <1>1, <1>3 DEF EntryOf, NewPointer, Sealed
  <1>5. VisibleStore' = [p \in Plants |-> IF p = q THEN EntryOf(NewPointer(w)) ELSE EntryOf(catalog[p])]
    BY <1>1, <1>2 DEF VisibleStore, Catalog, EntryOf
  <1>6. VisibleStore' = [VisibleStore EXCEPT ![q] = EntryOf(NewPointer(w))]
    BY <1>1, <1>5 DEF VisibleStore
  <1>7. VisibleStore[q].revision = call[w].revision
    BY <1>1 DEF VisibleStore, EntryOf
  <1>8. StableStore' = StableStore
    BY <1>2 DEF StableStore, EntryOf
  <1> QED
    BY <1>4, <1>6, <1>7, <1>8 DEF Abstract!CompareAndSwap, VisibleStore, StableStore

LEMMA StepRefines ==
  ASSUME IndInv, DurableBlobs, [Next]_vars
  PROVE  [Abstract!StoreNext]_(Abstract!storeVars)
  <1>1. ASSUME UNCHANGED <<catalog, durable, blobs>>
        PROVE  UNCHANGED Abstract!storeVars
    BY <1>1, InvisibleStep DEF VisibleStore, StableStore, Abstract!storeVars
  <1>2. ASSUME NEW w \in Writers, NEW u \in Uris, StoreBlob(w, u)
        PROVE  UNCHANGED Abstract!storeVars
    <2>1. UNCHANGED <<catalog, durable>>
      BY <1>2 DEF StoreBlob
    <2>2. \A v \in Uris : blobs[v] # NoBlob => blobs'[v] = blobs[v]
      BY <1>2 DEF StoreBlob, IndInv, TypeOK
    <2>3. UNCHANGED <<VisibleStore, StableStore>>
      BY <2>1, <2>2, InvisibleStep
    <2> QED
      BY <2>3 DEF VisibleStore, StableStore, Abstract!storeVars
  <1>3. ASSUME NEW w \in Writers, Rename(w)
        PROVE  Abstract!StoreNext
    <2>1. call[w] \in Call
      BY DEF IndInv, TypeOK
    <2> QED
      BY <1>3, <2>1, RenameRefines DEF Abstract!StoreNext, Call, AnyPublication
  <1>4. ASSUME NEW w \in Writers, SyncDirectory(w)
        PROVE  Abstract!StoreNext
    <2>1. durable' = catalog /\ catalog' = catalog /\ blobs' = blobs
      BY <1>4 DEF SyncDirectory
    <2>2. Abstract!Stabilise
      BY <2>1 DEF Abstract!Stabilise, EntryOf
    <2> QED
      BY <2>2 DEF Abstract!StoreNext
  <1>5. ASSUME NEW lost \in SUBSET Uris, HostCrash(lost)
        PROVE  Abstract!StoreNext
    <2>1. blobs' = blobs
      BY <1>5 DEF HostCrash, IndInv, BlobsAreSafe, TypeOK
    <2>2. CASE catalog' = durable /\ durable' = durable
      <3>1. Abstract!LoseUnstable
        BY <2>1, <2>2 DEF Abstract!LoseUnstable, EntryOf
      <3> QED
        BY <3>1 DEF Abstract!StoreNext
    <2>3. CASE durable' = catalog /\ catalog' = catalog
      <3>1. Abstract!Stabilise
        BY <2>1, <2>3 DEF Abstract!Stabilise, EntryOf
      <3> QED
        BY <3>1 DEF Abstract!StoreNext
    <2> QED
      BY <1>5, <2>2, <2>3 DEF HostCrash
  <1>6. ASSUME NEW w \in Writers,
               \/ \E p \in Plants, revision \in 0..(MaxRevision - 1),
                     document \in Documents, publication \in AnyPublication :
                        TakeLock(w, p, revision, document, publication)
               \/ ReadCatalog(w) \/ WriteTemporary(w) \/ StepFails(w)
               \/ ReleaseLock(w) \/ ProcessDies(w)
        PROVE  UNCHANGED Abstract!storeVars
    <2>1. UNCHANGED <<catalog, durable, blobs>>
      BY <1>6 DEF TakeLock, ReadCatalog, WriteTemporary, StepFails, ReleaseLock, ProcessDies
    <2> QED
      BY <2>1, <1>1
  <1>7. ASSUME OperatorUnlocks \/ UNCHANGED vars
        PROVE  UNCHANGED Abstract!storeVars
    <2>1. UNCHANGED <<catalog, durable, blobs>>
      BY <1>7 DEF OperatorUnlocks, vars
    <2> QED
      BY <2>1, <1>1
  <1> QED
    BY <1>2, <1>3, <1>4, <1>5, <1>6, <1>7 DEF Next

(* With a blob store whose objects survive a host crash, the lock, blob    *)
(* and rename protocol implements the compare-and-swap store that the      *)
(* services above it are written against.                                  *)
THEOREM Refinement == ASSUME DurableBlobs PROVE Spec => RefinesStore
  <1>1. Init => Abstract!StoreInit
    BY InitRefines
  <1>2. IndInv /\ [Next]_vars => [Abstract!StoreNext]_(Abstract!storeVars)
    BY StepRefines
  <1> QED
    BY <1>1, <1>2, Invariance, PTL DEF Spec, RefinesStore, Abstract!StoreSpec

===============================================================================
