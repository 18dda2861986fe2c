----------------------------- MODULE PlantCatalog -----------------------------
(***************************************************************************)
(* PlantService.put: concurrent writers, in several server processes that  *)
(* share a data directory, update a catalog file under an exclusive lock   *)
(* file.  A writer stores an encrypted blob, writes and fsyncs a temporary *)
(* catalog, renames it over the catalog, fsyncs the directory and removes  *)
(* the lock.  Every await of the code that touches the disk or the blob    *)
(* store is a step of its own; any of them may fail, a process may die     *)
(* between any two, and the host may crash.                                *)
(***************************************************************************)
EXTENDS Naturals

CONSTANTS
    Writers,          \* concurrent calls of put, over all processes
    Plants,           \* (tenant scope, plant id) pairs
    Documents,        \* plaintext documents
    NoDocument,       \* not a document: nothing was ever written
    Publications,     \* public projections
    NoPublication,    \* "publication: null"
    Uris,             \* names the blob store hands out
    NoUri,            \* not a name
    MaxRevision,      \* Number.MAX_SAFE_INTEGER
    DurableBlobs      \* a stored blob survives a crash of the host

ASSUME PlantCatalogAssumption ==
    /\ NoDocument \notin Documents
    /\ NoPublication \notin Publications
    /\ NoUri \notin Uris
    /\ Plants # {}
    /\ Documents # {}
    /\ MaxRevision \in Nat \ {0}
    /\ DurableBlobs \in BOOLEAN

VARIABLES
    lockFile,         \* catalog.lock exists
    catalog,          \* catalog.json as a reader sees it now
    durable,          \* catalog.json as a crash of the host would leave it
    blobs,            \* blob store: what each name holds
    unsynced,         \* names whose contents may not be on the disk yet
    temporary,        \* the temporary catalog of each call, once written
    pc,               \* where each call is
    call,             \* the arguments of each call
    view,             \* the catalog each call read under the lock
    uri,              \* the blob each call stored
    acks              \* history: the updates acknowledged to a caller

vars == <<lockFile, catalog, durable, blobs, unsynced, temporary, pc, call, view, uri, acks>>

-------------------------------------------------------------------------------
AnyPublication == Publications \cup {NoPublication}

Pointer == [revision    : 0..MaxRevision,
            uri         : Uris \cup {NoUri},
            publication : AnyPublication]

NoPointer == [revision |-> 0, uri |-> NoUri, publication |-> NoPublication]

Catalog == [Plants -> Pointer]

EmptyCatalog == [p \in Plants |-> NoPointer]

(* An envelope is readable only through a pointer with the same plant,     *)
(* revision and publication: they are the additional data of its AES-GCM   *)
(* tag.                                                                    *)
Blob == [plant       : Plants,
         revision    : 1..MaxRevision,
         publication : AnyPublication,
         document    : Documents]

NoBlob == [revision |-> 0]

Call == [plant       : Plants,
         revision    : 0..(MaxRevision - 1),
         document    : Documents,
         publication : AnyPublication]

NoCall == CHOOSE c \in Call : TRUE

Ack == [plant : Plants, revision : 1..MaxRevision, uri : Uris]

(* The locations between taking the lock and removing it. *)
Locked == {"locked", "checked", "stored", "written", "renamed", "ok", "failed"}

Authenticates(p, pointer, contents) ==
    /\ contents[pointer.uri].revision = pointer.revision
    /\ contents[pointer.uri].plant = p
    /\ contents[pointer.uri].publication = pointer.publication

(* Faulty variants (names ending in Fault) change one definition the way a  *)
(* plausible bug would; no specification uses them.                        *)
NewPointerFault(w) == [revision    |-> call[w].revision + 2,
                       uri         |-> uri[w],
                       publication |-> call[w].publication]

NewPointer(w) == [revision    |-> call[w].revision + 1,
                  uri         |-> uri[w],
                  publication |-> call[w].publication]

NewCatalogFault(w) == [EmptyCatalog EXCEPT ![call[w].plant] = NewPointer(w)]

NewCatalog(w) == [view[w] EXCEPT ![call[w].plant] = NewPointer(w)]

-------------------------------------------------------------------------------
Init ==
    /\ lockFile = FALSE
    /\ catalog = EmptyCatalog
    /\ durable = catalog
    /\ blobs = [u \in Uris |-> NoBlob]
    /\ unsynced = {}
    /\ temporary = [w \in Writers |-> EmptyCatalog]
    /\ pc = [w \in Writers |-> "idle"]
    /\ call = [w \in Writers |-> NoCall]
    /\ view = [w \in Writers |-> EmptyCatalog]
    /\ uri = [w \in Writers |-> NoUri]
    /\ acks = {}

(* open(lockPath, "wx"): exclusive creation of the lock file.  While the    *)
(* file exists every other call is answered PLANT_WRITE_BUSY and changes   *)
(* nothing.                                                                *)
TakeLock(w, p, revision, document, publication) ==
    /\ pc[w] = "idle"
    /\ ~lockFile
    /\ lockFile' = TRUE
    /\ pc' = [pc EXCEPT ![w] = "locked"]
    /\ call' = [call EXCEPT ![w] = [plant       |-> p,
                                    revision    |-> revision,
                                    document    |-> document,
                                    publication |-> publication]]
    /\ UNCHANGED <<catalog, durable, blobs, unsynced, temporary, view, uri, acks>>

ReadCatalogFault(w) ==
    /\ pc[w] = "locked"
    /\ view' = [view EXCEPT ![w] = catalog]
    /\ pc' = [pc EXCEPT ![w] = "checked"]
    /\ UNCHANGED <<lockFile, catalog, durable, blobs, unsynced, temporary, call, uri, acks>>

(* The catalog is read and the revision compared under the lock. *)
ReadCatalog(w) ==
    /\ pc[w] = "locked"
    /\ view' = [view EXCEPT ![w] = catalog]
    /\ pc' = [pc EXCEPT ![w] =
                 IF catalog[call[w].plant].revision = call[w].revision
                 THEN "checked" ELSE "failed"]
    /\ UNCHANGED <<lockFile, catalog, durable, blobs, unsynced, temporary, call, uri, acks>>

(* The envelope is sealed for the next revision and stored under a name    *)
(* that is used by no other blob.                                          *)
StoreBlob(w, u) ==
    /\ pc[w] = "checked"
    /\ blobs[u] = NoBlob
    /\ blobs' = [blobs EXCEPT ![u] = [plant       |-> call[w].plant,
                                      revision    |-> call[w].revision + 1,
                                      publication |-> call[w].publication,
                                      document    |-> call[w].document]]
    /\ unsynced' = IF DurableBlobs THEN unsynced ELSE unsynced \cup {u}
    /\ uri' = [uri EXCEPT ![w] = u]
    /\ pc' = [pc EXCEPT ![w] = "stored"]
    /\ UNCHANGED <<lockFile, catalog, durable, temporary, call, view, acks>>

(* commit: the temporary catalog is written under a unique name and fsynced. *)
WriteTemporary(w) ==
    /\ pc[w] = "stored"
    /\ temporary' = [temporary EXCEPT ![w] = NewCatalog(w)]
    /\ pc' = [pc EXCEPT ![w] = "written"]
    /\ UNCHANGED <<lockFile, catalog, durable, blobs, unsynced, call, view, uri, acks>>

Rename(w) ==
    /\ pc[w] = "written"
    /\ catalog' = temporary[w]
    /\ pc' = [pc EXCEPT ![w] = "renamed"]
    /\ UNCHANGED <<lockFile, durable, blobs, unsynced, temporary, call, view, uri, acks>>

SyncDirectoryFault(w) ==
    /\ pc[w] = "renamed"
    /\ pc' = [pc EXCEPT ![w] = "ok"]
    /\ UNCHANGED <<lockFile, catalog, durable, blobs, unsynced, temporary, call, view, uri, acks>>

(* directory.sync() *)
SyncDirectory(w) ==
    /\ pc[w] = "renamed"
    /\ durable' = catalog
    /\ pc' = [pc EXCEPT ![w] = "ok"]
    /\ UNCHANGED <<lockFile, catalog, blobs, unsynced, temporary, call, view, uri, acks>>

(* A step under the lock throws: the finally block still removes the lock. *)
(* After the rename the caller is told of a failure although the update is *)
(* visible.                                                                *)
StepFails(w) ==
    /\ pc[w] \in {"locked", "checked", "stored", "written", "renamed", "ok"}
    /\ pc' = [pc EXCEPT ![w] = "failed"]
    /\ UNCHANGED <<lockFile, catalog, durable, blobs, unsynced, temporary, call, view, uri, acks>>

(* The call is over: its local variables are gone. *)
EndCalls(ending) ==
    /\ pc' = [w \in Writers |-> IF w \in ending THEN "idle" ELSE pc[w]]
    /\ call' = [w \in Writers |-> IF w \in ending THEN NoCall ELSE call[w]]
    /\ view' = [w \in Writers |-> IF w \in ending THEN EmptyCatalog ELSE view[w]]
    /\ uri' = [w \in Writers |-> IF w \in ending THEN NoUri ELSE uri[w]]
    /\ temporary' = [w \in Writers |-> IF w \in ending THEN EmptyCatalog ELSE temporary[w]]

(* finally: unlink the temporary catalog and the lock file, then answer    *)
(* the caller.                                                             *)
ReleaseLock(w) ==
    /\ pc[w] \in {"ok", "failed"}
    /\ lockFile' = FALSE
    /\ acks' = IF pc[w] = "ok"
               THEN acks \cup {[plant    |-> call[w].plant,
                                revision |-> call[w].revision + 1,
                                uri      |-> uri[w]]}
               ELSE acks
    /\ EndCalls({w})
    /\ UNCHANGED <<catalog, durable, blobs, unsynced>>

(* The process dies, or unlink(lockPath) throws: the lock file stays. *)
ProcessDies(w) ==
    /\ pc[w] # "idle"
    /\ EndCalls({w})
    /\ UNCHANGED <<lockFile, catalog, durable, blobs, unsynced, acks>>

(* The host crashes: a rename that was not followed by a directory fsync   *)
(* and the creation of the lock file may be undone, and any envelopes that *)
(* the operating system had not written back are lost.                     *)
HostCrash(lost) ==
    /\ lost \subseteq unsynced
    /\ EndCalls(Writers)
    /\ \/ catalog' = durable /\ UNCHANGED durable
       \/ durable' = catalog /\ UNCHANGED catalog
    /\ lockFile' \in {lockFile, FALSE}
    /\ blobs' = [u \in Uris |-> IF u \in lost THEN NoBlob ELSE blobs[u]]
    /\ unsynced' = {}
    /\ UNCHANGED acks

(* The operator removes a stale lock after stopping all writers. *)
OperatorUnlocks ==
    /\ lockFile
    /\ \A w \in Writers : pc[w] = "idle"
    /\ lockFile' = FALSE
    /\ UNCHANGED <<catalog, durable, blobs, unsynced, temporary, pc, call, view, uri, acks>>

Next ==
    \/ \E w \in Writers :
          \/ \E p \in Plants, revision \in 0..(MaxRevision - 1),
                document \in Documents, publication \in AnyPublication :
                   TakeLock(w, p, revision, document, publication)
          \/ ReadCatalog(w)
          \/ \E u \in Uris : StoreBlob(w, u)
          \/ WriteTemporary(w)
          \/ Rename(w)
          \/ SyncDirectory(w)
          \/ StepFails(w)
          \/ ReleaseLock(w)
          \/ ProcessDies(w)
    \/ \E lost \in SUBSET Uris : HostCrash(lost)
    \/ OperatorUnlocks

Spec == Init /\ [][Next]_vars

-------------------------------------------------------------------------------
TypeOK ==
    /\ lockFile \in BOOLEAN
    /\ catalog \in Catalog
    /\ durable \in Catalog
    /\ blobs \in [Uris -> Blob \cup {NoBlob}]
    /\ unsynced \in SUBSET Uris
    /\ temporary \in [Writers -> Catalog]
    /\ pc \in [Writers -> Locked \cup {"idle"}]
    /\ call \in [Writers -> Call]
    /\ view \in [Writers -> Catalog]
    /\ uri \in [Writers -> Uris \cup {NoUri}]
    /\ acks \in SUBSET Ack

(* At most one put is between open(lockPath, "wx") and unlink(lockPath),   *)
(* over all processes, whatever died before it and whoever removed a stale *)
(* lock.                                                                   *)
WriterExclusion ==
    \A w1, w2 \in Writers : pc[w1] \in Locked /\ pc[w2] \in Locked => w1 = w2

(* PlantService.list never answers PLANT_INTEGRITY_FAILURE on its own      *)
(* data: every pointer of the catalog, and of the catalog a host crash     *)
(* would leave, names a blob sealed for that plant, revision and           *)
(* publication.                                                            *)
CatalogReadable ==
    \A p \in Plants, c \in {catalog, durable} :
        c[p].revision > 0 => /\ c[p].uri \in Uris
                            /\ Authenticates(p, c[p], blobs)

(* An update that was acknowledged survives every later failure: the disk  *)
(* holds that revision with that document, or a later revision.            *)
AcknowledgedIsDurable ==
    \A a \in acks :
        \/ durable[a.plant].revision > a.revision
        \/ durable[a.plant].revision = a.revision /\ durable[a.plant].uri = a.uri

(* Two callers are never both told that they wrote the same revision of a  *)
(* plant: no update is lost between the revision check and the rename.     *)
RevisionWonOnce ==
    \A a, b \in acks :
        a.plant = b.plant /\ a.revision = b.revision => a.uri = b.uri

(* Callers see a compare-and-swap store. *)
EntryOf(pointer) ==
    [revision    |-> pointer.revision,
     document    |-> IF pointer.revision = 0 THEN NoDocument
                     ELSE blobs[pointer.uri].document,
     publication |-> pointer.publication]

Abstract == INSTANCE RevisionedStore
    WITH store  <- [p \in Plants |-> EntryOf(catalog[p])],
         stable <- [p \in Plants |-> EntryOf(durable[p])]

(* Every step of the lock, blob and rename protocol, failures and crashes  *)
(* included, is one step of the compare-and-swap store or invisible.       *)
RefinesStore == Abstract!StoreSpec

===============================================================================
