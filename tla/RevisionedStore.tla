--------------------------- MODULE RevisionedStore ---------------------------
(***************************************************************************)
(* What the encrypted document store promises its callers: a map from      *)
(* identifiers to revisioned documents, updated by compare-and-swap on the *)
(* revision.  The device workbench, the plant editor and the twin-creation *)
(* service are written against this promise and never see lock files,      *)
(* blobs or catalog renames.                                               *)
(*                                                                         *)
(* "stable" is the part of the store that survives a crash of the host:    *)
(* everything acknowledged to a caller is in it.                           *)
(***************************************************************************)
EXTENDS Naturals

CONSTANTS
    Plants,         \* identifiers (a tenant scope and a plant id)
    Documents,      \* plaintext documents
    NoDocument,     \* the document of an identifier that was never written
    Publications,   \* public projections a writer may attach
    NoPublication,  \* "publication: null"
    MaxRevision     \* revisions a caller may name are below this bound

VARIABLES
    store,          \* what a read returns now
    stable          \* what a read returns after a crash of the host

storeVars == <<store, stable>>

Entry == [revision    : 0..MaxRevision,
          document    : Documents \cup {NoDocument},
          publication : Publications \cup {NoPublication}]

NeverWritten == [revision    |-> 0,
                 document    |-> NoDocument,
                 publication |-> NoPublication]

StoreInit ==
    /\ store = [p \in Plants |-> NeverWritten]
    /\ stable = store

(* The one mutation: it succeeds only on the current revision, and takes   *)
(* the identifier to exactly the next one.                                 *)
CompareAndSwap(p, revision, document, publication) ==
    /\ store[p].revision = revision
    /\ store' = [store EXCEPT ![p] = [revision    |-> revision + 1,
                                      document    |-> document,
                                      publication |-> publication]]
    /\ UNCHANGED stable

(* The current contents reach the disk. *)
Stabilise ==
    /\ stable' = store
    /\ UNCHANGED store

(* The host crashes before the last updates reached the disk. *)
LoseUnstable ==
    /\ store' = stable
    /\ UNCHANGED stable

StoreNext ==
    \/ \E p \in Plants, revision \in 0..(MaxRevision - 1),
          document \in Documents, publication \in Publications \cup {NoPublication} :
             CompareAndSwap(p, revision, document, publication)
    \/ Stabilise
    \/ LoseUnstable

StoreSpec == StoreInit /\ [][StoreNext]_storeVars

==============================================================================
