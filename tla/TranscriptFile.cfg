SPECIFICATION Spec
CONSTANTS
    MaxEvents = 4
    MaxReadBytes = 8
    MaxReadRecords = 3
INVARIANTS
    StoredIsReadable
    ReaderIsHonest
PROPERTY
    ImplementsAuditLog
\* The last event may be the last thing that happens.
CHECK_DEADLOCK FALSE
