CONSTANTS
    Writers = {w1, w2}
    Plants = {p1, p2}
    Documents = {d1}
    NoDocument = NoDocument
    Publications = {public}
    NoPublication = NoPublication
    Uris = {u1, u2, u3}
    NoUri = NoUri
    MaxRevision = 2
    DurableBlobs = TRUE
SPECIFICATION Spec
INVARIANTS CatalogReadable AcknowledgedIsDurable RevisionWonOnce
PROPERTY RefinesStore
