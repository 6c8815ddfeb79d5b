CONSTANTS
    Null = Null
    Absent = Absent
    Identifiers <- MCIdentifiers
    States <- MCStates
    Root <- sc
    states <- MCstates
    HistoryStates <- MCHistoryStates
    Declarations <- MCDeclarations
    declarations <- MCdeclarations
    scope <- MCscope
    vname <- MCvname
    typeName <- MCtypeName
    Transitions <- MCTransitions
    all_ts <- MCall_ts
    events <- MCevents
    entry <- MCentry
    exit <- MCexit
    ExecuteBlock <- MCExecuteBlock
    Solve <- MCSolve
    SolverInts <- MCSolverInts
    SolverMayFail = FALSE
    Depths = {20}
    TreeDepths = {20}
    MaxCalls = 1
SPECIFICATION Spec
INVARIANT HistoryResumed
