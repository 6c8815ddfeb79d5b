CONSTANTS
    Null = Null
    Absent = Absent
    Thrown = Thrown
    IntWidth = 2
    Inputs <- MCInts
    MaxStack = 12
    Identifiers <- MCIdentifiers
    States <- MCStates
    Root <- sc
    states <- MCstates
    HistoryStates = {}
    Declarations <- MCDeclarations
    declarations <- MCdeclarations
    scope <- MCscope
    vname <- MCvname
    typeName <- MCtypeName
    structs <- MCstructs
    functions <- MCfunctions
    Transitions <- MCTransitions
    events <- MCevents
    Statements <- MCFieldStatements
    Expressions <- MCFieldExpressions
SPECIFICATION Spec
CHECK_DEADLOCK FALSE
INVARIANT ExpressionsTyped
