SPECIFICATION Spec
CONSTANTS
    p1 = p1
    p2 = p2
    Processes <- MCProcesses
    MaxAttempts = 2
    MaxProofs = 2
    MaxGen = 3
SYMMETRY Symmetry
INVARIANTS
    TypeOK
    OneSubmission
    GenerationHasOneOwner
    NoDualAuthority
PROPERTIES
    StaleWorkersWriteNothing
    IntentIsFinal
