CONSTANTS
    Null = Null
    Absent = Absent
    Thrown = Thrown
    NoHistory = NoHistory
    IntWidth = 2
    Inputs <- MCInputs
    MaxStack = 8
    Identifiers <- MCIdentifiers
    States <- MCStates
    Root <- sc
    states <- MCstates
    HistoryStates <- MCHistoryStates
    Declarations <- MCDeclarations
    declarations <- MCdeclarations
    scope <- MCscope
    Transitions <- MCTransitions
    events <- MCevents
    Values <- MCInts
    entry <- MCentry
    exit <- MCexit
    Execute <- MCExecute
    Evaluate <- MCEvaluate
    True <- MCTrue
    NullEvent = "null"
    simulationMode = "UserEventInSteps"
    UserEvents <- MCUserEvents
    MaxAdded = 2
    MaxQueue = 2
SPECIFICATION Spec
INVARIANT AtomicStateReturned
