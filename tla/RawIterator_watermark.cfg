CONSTANTS
    Ents = {1, 2}
    NumPartitions = 2
    PartitionWidth = 3
    BlockMaxRows = 2
    InOrderWrites = TRUE
    NoTs = NoTs
    EntityRows <- MCEntityRows
    IterShapes <- MCIterShapes
    SpanSets <- MCSpanSets
    Watermarks <- MCWatermarks
SPECIFICATION Spec
INVARIANT WatermarkLosesNoRows
CHECK_DEADLOCK FALSE
