\* Queue of one live line, bursts of two messages, four lines, batches of up to two.
CONSTANTS
    Cap = 1
    DrainBurst = 2
    MaxLines = 4
    MaxBatch = 2
    MaxRx = 2
SPECIFICATION Spec
INVARIANTS
    TypeOK
    LinesAccounted
    QueueBounded
PROPERTIES
    WriterEnds
    ImplementsChannel
