CONSTANTS
    Size = 5
    Records <- RecordNames
    NoRecord = NoRecord
    Length <- Lengths
SPECIFICATION Spec
INVARIANTS TypeOK WholeRecords
