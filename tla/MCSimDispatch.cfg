CONSTANTS
    Hosts = {h1}
    Images <- MCImages
    Dispatches <- MCDispatches
    MaxDispatches = 3
    BufferCells <- MCBuffers
    WordSize = 2
    LocalAlign = 4
    BindingAlign = 4
    DdrBase = 16
    DdrLimit = 26
    CountModulus = 8
SPECIFICATION FairSpec
CHECK_DEADLOCK FALSE
INVARIANTS
    OkMeansExecuted
    OkDeliversResults
    OnlyResultsReachBuffers
    
PROPERTIES
    EveryDispatchReturns
