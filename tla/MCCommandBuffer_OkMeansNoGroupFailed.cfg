CONSTANTS
    Dispatches <- MCDispatches
    MaxBindings = 3
    MaxDispatches = 2
SPECIFICATION Spec
INVARIANTS
    OkMeansNoGroupFailed
