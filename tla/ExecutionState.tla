--------------------------- MODULE ExecutionState ---------------------------
(***************************************************************************)
(* simulator/ExecutionState.java: the value environment, the configuration *)
(* (the list of active states), the event queue, and the histories that    *)
(* let a state be resumed.  The operators below are its methods; module    *)
(* Simulator calls them.                                                   *)
(***************************************************************************)
EXTENDS Statechart, JavaValues

CONSTANTS
    Values,     \* the constant expressions variables hold
    NoHistory   \* the state has no map in valueHistory

VARIABLES
    valueEnvironment,   \* Map<Declaration, Expression>
    configuration,      \* List<State>
    eventQueue,         \* Queue<String>
    stateHistory,       \* Map<State, State>
    valueHistory        \* Map<State, Map<Declaration, Expression>>

stateVars == <<valueEnvironment, configuration, eventQueue,
               stateHistory, valueHistory>>

(* A map from declarations; Absent where it has no entry.                  *)
Environments == [Declarations -> Values \cup {Null, Absent}]

(* A saved map is only ever asked with get(d), which does not tell a null
   entry from none.                                                        *)
SavedValues == [Declarations -> Values \cup {Null}]

ASSUME ValueAssumption == /\ {Null, Absent} \cap Values = {}
                          /\ NoHistory \notin SavedValues

-----------------------------------------------------------------------------
(* The constructor populates the maps for the statechart and its direct    *)
(* substates, not for the states below those.                              *)

populated == {Root} \cup Range(states[Root])

NonLocals(s) == Declared(s) \ Scoped(s, "local")

InitialEnvironment ==
    [d \in Declarations |->
        IF \E s \in populated : d \in NonLocals(s) THEN Null ELSE Absent]

InitialValueHistory ==
    [s \in States |-> IF s \in populated /\ NonLocals(s) # {}
                      THEN [d \in Declarations |-> Null]
                      ELSE NoHistory]

-----------------------------------------------------------------------------
(* Methods.                                                                *)

(* Faults: no check for a missing entry; the history is not consulted.     *)
getHistoryUnchecked(s) == stateHistory[s]
getDefaultState(s) == Head(states[s])

getHistoryState(s) == IF stateHistory[s] # NoState THEN stateHistory[s]
                                                   ELSE Head(states[s])

presentInConfiguration(s) == s \in Range(configuration)

(* enterState dereferences the saved map of the state at its first static
   declaration: a NullPointerException when there is no such map.          *)
enterStateThrows(s) == Scoped(s, "static") # {} /\ valueHistory[s] = NoHistory

(* The declarations enterState has dealt with when it ends, normally or at
   the first static declaration.                                           *)
Reached(s) ==
    IF enterStateThrows(s)
    THEN {d \in Declared(s) :
             \E i \in DOMAIN declarations[s] :
                 /\ declarations[s][i] = d
                 /\ \A j \in 1 .. i : scope[declarations[s][j]] # "static"}
    ELSE Declared(s)

(* The value environment after enterState(s): locals are null, statics are
   what was saved, parameters keep what the transition's action gave them. *)
enteredEnvironment(s) ==
    [d \in Declarations |->
        IF d \notin Reached(s) THEN valueEnvironment[d]
        ELSE CASE scope[d] = "local"     -> Null
               [] scope[d] = "static"    -> valueHistory[s][d]
               [] scope[d] = "parameter" -> valueEnvironment[d]]

(* Fault: the state is added at the near end.                              *)
enteredAtFront(s) == <<s>> \o configuration

enteredConfiguration(s) == Append(configuration, s)

(* The effects of exitState(s) from a value environment env.               *)
exitedHistory(s) == [stateHistory EXCEPT ![getSuperstate(s)] = s]

(* Fault: the state stays in the list.                                     *)
exitedButListed(s) == configuration

(* List.remove(Object): the first occurrence, if there is one.             *)
exitedConfiguration(s) ==
    LET occurrences == {i \in 1 .. Len(configuration) : configuration[i] = s}
    IN  IF occurrences = {} THEN configuration
                            ELSE RemoveAt(configuration, Min(occurrences))

(* Fault: values that were saved once are not saved again.                 *)
exitedSavingOnce(s, env) ==
    IF Declared(s) = {} \/ valueHistory[s] # NoHistory THEN valueHistory
    ELSE [valueHistory EXCEPT ![s] = [d \in Declarations |-> Got(env[d])]]

exitedValueHistory(s, env) ==
    IF Declared(s) = {} THEN valueHistory
    ELSE [valueHistory EXCEPT
             ![s] = [d \in Declarations |->
                        IF d \in Declared(s) THEN Got(env[d]) ELSE Null]]

(* Fault: the locals are not removed.                                      *)
exitedKeepingLocals(s, env) == env

exitedEnvironment(s, env) ==
    [d \in Declarations |-> IF d \in Scoped(s, "local") THEN Absent ELSE env[d]]
=============================================================================
