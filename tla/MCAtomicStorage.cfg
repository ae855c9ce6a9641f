CONSTANTS
    c1 = c1
    c2 = c2
    archive = archive
    secret = secret
    v1 = v1
    Absent = Absent
    Client <- MCClient
    Address <- MCAddress
    Value <- MCValue
    SessionOnly <- MCSessionOnly
    MaxRevision = 3
SPECIFICATION StoreSpec
INVARIANTS StoreTypeOK SnapshotCurrent
PROPERTIES RevisionTellsWrites KeepsPromise
