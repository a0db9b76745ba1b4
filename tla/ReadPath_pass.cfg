CONSTANTS
    p1 = p1
    p2 = p2
    NoAggRow = NoAggRow
    Pipes = {p1, p2}
    Ents = {1, 2, 3, 4}
    NumPartitions = 2
    PartitionWidth = 1
    BlockMaxRows = 2
    InOrderWrites = TRUE
    NoTs = NoTs
    EntityRows <- MCEntityRows
    TagBatches <- MCTagBatches
    GroupKey <- MCGroupKey
    SpanSets <- MCSpanSets
    Watermarks <- MCWatermarks
SPECIFICATION MCSpec
INVARIANTS TypeOK TagLineInRange EachEntityHandedOnce PipeReturnsItsShares RawTypeOK ScanReturnsExpectedRows AggTypeOK AggEquivalence FirstLastInOrder
CHECK_DEADLOCK FALSE
