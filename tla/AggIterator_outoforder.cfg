CONSTANTS
    NumPartitions = 2
    PartitionWidth = 3
    MaxRowsPerPart <- MCRows
    BlockMaxRows = 2
    InOrderWrites = FALSE
    SpanSets <- MCOneSpan
    Queries <- MCFirstLastQueries
    NoTs = 0
    NoRow = NoRow
SPECIFICATION Spec
INVARIANT FirstLastEquivalence
CHECK_DEADLOCK FALSE
