SPECIFICATION FairSpec
CONSTANTS
    BufferRecords = 1
    MaxUsn = 3
    MaxFailedQueries = 1
INVARIANTS TypeOK HandlesReturned
PROPERTIES ExactDelta ChangesArrive
