\* Every tool under scripts/ but one, two processes on the same target.
SPECIFICATION OutSpec
CONSTANTS
    Processes = {"p", "q"}
    Tools <- ExclusiveTools
INVARIANTS
    DataBeforeAccount
    RefusalIsClean
PROPERTIES
    PublishedIsFinal
\* every process ends
CHECK_DEADLOCK FALSE
