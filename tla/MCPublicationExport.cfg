CONSTANTS
    Zone = Zone
    Gone = Gone
    Contents = {Zone}
    Exporters = {x1}
    Readers = {r1}
    r1 = r1
    x1 = x1
    ChunkCount <- MCChunkCount
    MaxEpoch = 2
    MaxRevision = 2
    MaxManifests = 3
    MaxFailures = 1
SPECIFICATION MCSpec
INVARIANT ExportIsSound
PROPERTIES EventuallyExported LoadEnds
CHECK_DEADLOCK FALSE
