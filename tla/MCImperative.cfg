CONSTANTS
    DeclarationLists <- MCDeclarationLists
    Statements <- MCStatements
    MaxStatements = 3
    MaxDepths = {1, 3, 4, 5, 7, 12}
    SymbolNames <- MCSymbolNames
    InputValues <- MCInputValues
    MaxInputs = 3
SPECIFICATION Spec
INVARIANTS
    OnePathPerExecution
    PathsDescribe
    SymbolsFresh
    SymbolicValuesTyped
