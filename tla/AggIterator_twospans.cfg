CONSTANTS
    NumPartitions = 2
    PartitionWidth = 3
    MaxRowsPerPart <- MCRows
    BlockMaxRows = 3
    InOrderWrites = TRUE
    SpanSets <- MCTwoSpans
    Queries <- MCAggQueries
    NoTs = 0
    NoRow = NoRow
SPECIFICATION Spec
INVARIANT AggEquivalence
CHECK_DEADLOCK FALSE
