CONSTANTS
    Null = Null
    Absent = Absent
    Identifiers <- MCIdentifiers
    States <- MCStates
    Root <- sc
    states <- MCstates
    HistoryStates = {}
    Declarations <- MCDeclarations
    declarations <- MCdeclarations
    scope <- MCscope
    vname <- MCvname
    typeName <- MCtypeName
    Transitions <- MCTransitions
    all_ts <- MCall_ts
    events <- MCevents
    entry <- MCentry
    exit <- MCexit
    ExecuteBlock <- MCExecuteBlock
    Solve <- MCSolve
    SolverInts <- MCSolverInts
    SolverMayFail = FALSE
    Depths = {5, 8, 14, 60}
    TreeDepths = {20, 40, 52}
    MaxCalls = 1
SPECIFICATION Spec
INVARIANTS
    PathsConsistent
    LeavesAreConfigurations
    SymbolicValuesSound
    GuardsExclude
PROPERTY
    NoPathLost
    RoundsAreSteps
