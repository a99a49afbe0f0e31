\* Every command line of MCEbTools, every way an answer can fail;
\* two of three callers of a tunnel, one of whose calls fails.
SPECIFICATION MCSpec
CONSTANTS
    MaxScans = 3
    MaxRecords = 5
    Scenes <- MCScenes
    PerCycle = 2
    Batch = 2
    MaxCycles = 4
    Callers = {"first", "second", "long"}
    AddrLen <- MCAddrLen
    AddrRoom = 2
    MaxAsks <- MCMaxAsks
    MaxBreaks = 1
 
INVARIANT OnlyWhatWasAsked
INVARIANT TunnelIsTransparent
PROPERTY EveryToolEnds
 
CHECK_DEADLOCK FALSE
