\* Five events, a queue and a batch of two, a database that fails and recovers and that
\* refuses two of the events for good.
SPECIFICATION FairSpec
CONSTANTS
    QueueMax = 2
    BatchMax = 2
    MaxEvents = 5
    MaxRewrites = 2
    Texts <- MCTexts
    RefusedRows <- MCRefusedRows
    RefusedTexts <- MCRefusedTexts
INVARIANTS
    TypeOK
    EveryEventIsAccountedFor
    RowsHaveTheirTexts
    RowsRepeatOnlyAfterRewrites
    FirstTriesAreInOrder
PROPERTIES
    QueueDrains
    KeepsTheLedger
