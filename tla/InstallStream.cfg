SPECIFICATION LiveSpec
CONSTANTS
    Capacity = 2
    PipeSize = 1
    TailSize = 2
    MaxLines = 3
    Commands <- MCCommands
INVARIANTS
    TypeOK
    TruthfulVerdict
    ErrorDetailComplete
PROPERTIES
    ClientAnswered
    StreamNeverIdles
    ThreadsEnd
    TellsAsPromised
\* The installation ends and every thread with it.
CHECK_DEADLOCK FALSE
