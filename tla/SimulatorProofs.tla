--------------------------- MODULE SimulatorProofs ---------------------------
(***************************************************************************)
(* The invariants of the simulator, for every chart the type checker       *)
(* accepts, every statement and every sequence of events.                  *)
(***************************************************************************)
EXTENDS Simulator, StatechartProofs

-----------------------------------------------------------------------------
(* The inductive invariant.                                                *)

Resting == {"getEvent", "nextLine", "prompt", "search", "halted"}

(* The innermost state that can be active where the thread is.             *)
Cursor ==
    CASE pc = "get_atomic_state" /\ tag = 1 -> getSuperstate(current)
      [] pc = "get_atomic_state" /\ tag = 0 -> current
      [] pc \in Resting                     -> curr
      [] pc = "exit"                        -> current
      [] pc = "enter" -> Prefix(t.destination, Len(t.destination) - Len(path))

(* The loops of performTransition stay between the least upper bound and the
   state they started from or are heading for.                             *)
ControlInv ==
    /\ pc \in Resting \cup {"exit"} => curr \in States
    /\ pc \in {"exit", "enter"} => t \in Transitions
    /\ pc = "exit" => /\ Len(t.state) <= Len(current)
                      /\ t.state = Prefix(current, Len(t.state))
    /\ pc = "enter" =>
           /\ path # << >>
           /\ Len(path) <= Len(t.destination) - Len(t.state)
           /\ \A i \in 1 .. Len(path) :
                  path[i] = Prefix(t.destination, Len(t.destination) - i + 1)

(* A state remembers one of its own substates.                             *)
HistoryInv ==
    \A s \in States :
        stateHistory[s] # NoState => getSuperstate(stateHistory[s]) = s

(* The configuration c lists superstates of s, or s, outermost first.      *)
Nested(c, s) ==
    \A i \in 1 .. Len(c) :
        /\ \E n \in 1 .. Len(s) : c[i] = Prefix(s, n)
        /\ \A j \in 1 .. i - 1 : Len(c[j]) < Len(c[i])

NestedInv == pc # "stopped" => Nested(configuration, Cursor)

Inv == TypeOK /\ ControlInv /\ HistoryInv /\ NestedInv

-----------------------------------------------------------------------------
(* Types of the methods of ExecutionState.                                 *)

(* A statement of the chart leaves an environment.                         *)
LEMMA ExecuteType ==
    ASSUME NEW s \in Statements, NEW env \in Environments,
           NEW o \in Execute(s, env)
    PROVE  o.returns \in BOOLEAN /\ o.env \in Environments
  BY ExecuteAssumption DEF Outcomes

(* The declarations of a state.                                            *)
LEMMA DeclaredType ==
    ASSUME NEW s \in States
    PROVE  Declared(s) \subseteq Declarations /\ Reached(s) \subseteq Declared(s)
  <1>1. declarations[s] \in Seq(Declarations)
    BY DeclarationAssumption DEF DeclarationsWellFormed
  <1> QED
    BY <1>1 DEF Declared, Range, Reached

(* enterState yields an environment whether it throws or not.              *)
LEMMA EnteredType ==
    ASSUME TypeOK, NEW s \in States
    PROVE  /\ enteredEnvironment(s) \in Environments
           /\ enteredConfiguration(s) \in Seq(States)
  <1> DEFINE E(d) == IF d \notin Reached(s) THEN valueEnvironment[d]
                     ELSE CASE scope[d] = "local"     -> Null
                            [] scope[d] = "static"    -> valueHistory[s][d]
                            [] scope[d] = "parameter" -> valueEnvironment[d]
  <1>1. ASSUME NEW d \in Declarations PROVE E(d) \in Values \cup {Null, Absent}
    <2>1. /\ valueEnvironment[d] \in Values \cup {Null, Absent}
          /\ scope[d] \in {"local", "static", "parameter"}
          /\ valueHistory[s] \in SavedValues \cup {NoHistory}
      BY DeclarationAssumption DEF TypeOK, Environments, DeclarationsWellFormed
    <2>2. CASE d \notin Reached(s)
      BY <2>1, <2>2
    <2>3. CASE d \in Reached(s) /\ scope[d] = "static"
      <3>1. d \in Scoped(s, "static")
        BY <2>3, DeclaredType DEF Scoped
      <3>2. ~enterStateThrows(s)
        <4>1. declarations[s] \in Seq(Declarations)
          BY DeclarationAssumption DEF DeclarationsWellFormed
        <4> QED
          BY <2>3, <4>1 DEF Reached
      <3>3. valueHistory[s] \in SavedValues
        BY <2>1, <3>1, <3>2 DEF enterStateThrows
      <3>4. valueHistory[s][d] \in Values \cup {Null}
        BY <3>3 DEF SavedValues
      <3> QED
        BY <2>3, <3>4
    <2>4. CASE d \in Reached(s) /\ scope[d] # "static"
      BY <2>1, <2>4
    <2> QED
      BY <2>2, <2>3, <2>4
  <1>2. enteredEnvironment(s) = [d \in Declarations |-> E(d)]
    BY DEF enteredEnvironment
  <1>3. enteredEnvironment(s) \in Environments
    <2> HIDE DEF E
    <2> QED
      BY <1>1, <1>2 DEF Environments
  <1> QED
    BY <1>3 DEF TypeOK, enteredConfiguration

(* exitState, from any environment the exit statement leaves.              *)
LEMMA ExitedType ==
    ASSUME TypeOK, NEW s \in States, NEW env \in Environments
    PROVE  /\ exitedEnvironment(s, env) \in Environments
           /\ exitedValueHistory(s, env) \in [States -> SavedValues \cup {NoHistory}]
           /\ exitedHistory(s) \in [States -> States \cup {NoState}]
  <1>1. \A d \in Declarations : env[d] \in Values \cup {Null, Absent}
    BY DEF Environments
  <1>2. \A d \in Declarations : Got(env[d]) \in Values \cup {Null}
    BY <1>1 DEF Got
  <1>3. exitedEnvironment(s, env) \in Environments
    BY <1>1 DEF exitedEnvironment, Environments
  <1>4. [d \in Declarations |-> IF d \in Declared(s) THEN Got(env[d]) ELSE Null]
            \in SavedValues
    BY <1>2 DEF SavedValues
  <1>5. exitedValueHistory(s, env) \in [States -> SavedValues \cup {NoHistory}]
    BY <1>4 DEF exitedValueHistory, TypeOK
  <1>6. exitedHistory(s) \in [States -> States \cup {NoState}]
    BY DEF exitedHistory, TypeOK
  <1> QED
    BY <1>3, <1>5, <1>6

-----------------------------------------------------------------------------
(* What entering and leaving a state does to a nested configuration.       *)

(* Entering a substate of s.                                               *)
LEMMA NestedPush ==
    ASSUME NEW c \in Seq(States), NEW s \in States, Nested(c, getSuperstate(s))
    PROVE  Nested(Append(c, s), s)
  <1> DEFINE u == getSuperstate(s)
             d == Append(c, s)
  <1>1. /\ s \in Seq(Identifiers) /\ s # << >> /\ Len(s) \in Nat \ {0}
        /\ Len(u) = Len(s) - 1
        /\ \A m \in 0 .. Len(s) - 1 : Prefix(u, m) = Prefix(s, m)
        /\ Prefix(s, Len(s)) = s
    BY StateFacts, SuperstateFacts, WholePrefix DEF NoState
  <1>2. \A n \in 0 .. Len(s) : Len(Prefix(s, n)) = n
    BY <1>1, PrefixFacts
  <1>3. /\ Len(d) = Len(c) + 1 /\ Len(c) \in Nat
        /\ \A i \in 1 .. Len(c) : d[i] = c[i]
        /\ d[Len(c) + 1] = s
    OBVIOUS
  <1>4. \A i \in 1 .. Len(c) :
            /\ \E n \in 1 .. Len(s) - 1 : c[i] = Prefix(s, n)
            /\ Len(c[i]) < Len(s)
            /\ \A j \in 1 .. i - 1 : Len(c[j]) < Len(c[i])
    <2> HIDE DEF u
    <2> SUFFICES ASSUME NEW i \in 1 .. Len(c)
                 PROVE  /\ \E n \in 1 .. Len(s) - 1 : c[i] = Prefix(s, n)
                        /\ Len(c[i]) < Len(s)
                        /\ \A j \in 1 .. i - 1 : Len(c[j]) < Len(c[i])
      OBVIOUS
    <2>1. PICK n \in 1 .. Len(u) : c[i] = Prefix(u, n)
      BY DEF Nested, u
    <2>2. n \in 1 .. Len(s) - 1 /\ c[i] = Prefix(s, n) /\ Len(c[i]) = n
      BY <2>1, <1>1, <1>2
    <2> QED
      BY <2>2, <1>1 DEF Nested
  <1> SUFFICES ASSUME NEW i \in 1 .. Len(d)
               PROVE  /\ \E n \in 1 .. Len(s) : d[i] = Prefix(s, n)
                      /\ \A j \in 1 .. i - 1 : Len(d[j]) < Len(d[i])
    BY DEF Nested
  <1> HIDE DEF d, u
  <1>5. CASE i = Len(c) + 1
    <2>1. d[i] = Prefix(s, Len(s)) /\ Len(s) \in 1 .. Len(s)
      BY <1>5, <1>1, <1>3
    <2>2. \A j \in 1 .. i - 1 : j \in 1 .. Len(c)
      BY <1>5, <1>3
    <2>3. \A j \in 1 .. i - 1 : Len(d[j]) < Len(d[i])
      BY <2>2, <1>3, <1>4, <1>5
    <2> QED
      BY <2>1, <2>3
  <1>6. CASE i # Len(c) + 1
    <2>1. i \in 1 .. Len(c) /\ \A j \in 1 .. i - 1 : j \in 1 .. Len(c)
      BY <1>6, <1>3
    <2>2. PICK n \in 1 .. Len(s) - 1 : c[i] = Prefix(s, n)
      BY <2>1, <1>4
    <2>3. n \in 1 .. Len(s) /\ d[i] = Prefix(s, n)
      BY <2>1, <2>2, <1>1, <1>3
    <2>4. \A j \in 1 .. i - 1 : Len(d[j]) < Len(d[i])
      BY <2>1, <1>3, <1>4
    <2> QED
      BY <2>3, <2>4
  <1> QED
    BY <1>5, <1>6

(* What is nested in a superstate of s is nested in s.                     *)
LEMMA NestedBelow ==
    ASSUME NEW c, NEW s \in States, NEW n \in 0 .. Len(s), Nested(c, Prefix(s, n))
    PROVE  Nested(c, s)
  <1>1. s \in Seq(Identifiers) /\ Len(s) \in Nat
    BY StateFacts
  <1>2. /\ Len(Prefix(s, n)) = n
        /\ \A m \in 0 .. n : Prefix(Prefix(s, n), m) = Prefix(s, m)
    BY <1>1, PrefixFacts
  <1> QED
    BY <1>1, <1>2 DEF Nested

(* Leaving s: List.remove(Object) finds it at the end, or not at all.      *)
LEMMA NestedPop ==
    ASSUME NEW s \in States, configuration \in Seq(States),
           Nested(configuration, s)
    PROVE  /\ exitedConfiguration(s) \in Seq(States)
           /\ Nested(exitedConfiguration(s), getSuperstate(s))
           /\ \/ /\ exitedConfiguration(s) = configuration
                 /\ \A i \in 1 .. Len(configuration) : configuration[i] # s
              \/ /\ exitedConfiguration(s) = Front(configuration)
                 /\ configuration # << >> /\ Last(configuration) = s
  <1> DEFINE c == configuration
             u == getSuperstate(s)
             occurrences == {i \in 1 .. Len(configuration) : configuration[i] = s}
  <1>1. /\ s \in Seq(Identifiers) /\ s # << >> /\ Len(s) \in Nat \ {0}
        /\ Len(u) = Len(s) - 1
        /\ \A m \in 0 .. Len(s) - 1 : Prefix(u, m) = Prefix(s, m)
        /\ Prefix(s, Len(s)) = s
    BY StateFacts, SuperstateFacts, WholePrefix DEF NoState
  <1>2. \A n \in 0 .. Len(s) : Len(Prefix(s, n)) = n
    BY <1>1, PrefixFacts
  <1>3. \A i \in 1 .. Len(c) :
            /\ \E n \in 1 .. Len(s) : c[i] = Prefix(s, n) /\ Len(c[i]) = n
            /\ \A j \in 1 .. i - 1 : Len(c[j]) < Len(c[i])
    BY <1>1, <1>2 DEF Nested
  <1>4. ASSUME NEW d \in Seq(States), Len(d) <= Len(c),
               \A i \in 1 .. Len(d) : d[i] = c[i] /\ c[i] # s
        PROVE  Nested(d, u)
    <2> SUFFICES ASSUME NEW i \in 1 .. Len(d)
                 PROVE  /\ \E n \in 1 .. Len(u) : d[i] = Prefix(u, n)
                        /\ \A j \in 1 .. i - 1 : Len(d[j]) < Len(d[i])
      BY DEF Nested
    <2>1. i \in 1 .. Len(c) /\ Len(d) \in Nat /\ Len(c) \in Nat
      BY <1>4
    <2>2. PICK n \in 1 .. Len(s) : c[i] = Prefix(s, n)
      BY <2>1, <1>3
    <2>3. n # Len(s)
      BY <2>2, <1>1, <1>4
    <2> HIDE DEF u
    <2>4. n \in 1 .. Len(u) /\ d[i] = Prefix(u, n)
      BY <2>2, <2>3, <1>1, <1>4
    <2>5. \A j \in 1 .. i - 1 : j \in 1 .. Len(d) /\ d[j] = c[j]
      BY <2>1, <1>4
    <2> QED
      BY <2>1, <2>4, <2>5, <1>3, <1>4
  <1>5. CASE occurrences = {}
    <2>1. exitedConfiguration(s) = c
      BY <1>5 DEF exitedConfiguration
    <2>2. \A i \in 1 .. Len(c) : c[i] # s
      BY <1>5
    <2> QED
      BY <2>1, <2>2, <1>4
  <1>6. CASE occurrences # {}
    <2>1. PICK k \in 1 .. Len(c) : c[k] = s
      BY <1>6
    <2>2. k = Len(c) /\ Len(c) \in Nat
      BY <2>1, <1>1, <1>3
    <2>3. \A i \in 1 .. Len(c) - 1 : c[i] # s
      BY <2>1, <2>2, <1>3
    <2>4. occurrences = {Len(c)}
      BY <2>1, <2>2, <2>3
    <2>5. Min({Len(c)}) = Len(c)
      BY <2>2 DEF Min
    <2>6. exitedConfiguration(s) = RemoveAt(c, Len(c))
      BY <2>4, <2>5 DEF exitedConfiguration
    <2>7. /\ SubSeq(c, Len(c) + 1, Len(c)) = << >>
          /\ SubSeq(c, 1, Len(c) - 1) \in Seq(States)
      BY <2>2
    <2>8. exitedConfiguration(s) = Front(c) /\ Front(c) \in Seq(States)
      BY <2>6, <2>7 DEF RemoveAt, Front
    <2>9. /\ Len(Front(c)) = Len(c) - 1
          /\ \A i \in 1 .. Len(c) - 1 : Front(c)[i] = c[i]
      BY <2>1, <2>2 DEF Front
    <2>10. Nested(Front(c), u)
      BY <2>2, <2>3, <2>8, <2>9, <1>4
    <2>11. Last(c) = s /\ c # << >>
      BY <2>1, <2>2 DEF Last
    <2> QED
      BY <2>8, <2>10, <2>11
  <1> QED
    BY <1>5, <1>6

-----------------------------------------------------------------------------
(* Every action preserves the invariant.                                   *)

(* The cursor, place by place, before and after a step.                    *)
LEMMA CursorFacts ==
    /\ pc = "get_atomic_state" /\ tag = 1 => Cursor = getSuperstate(current)
    /\ pc = "get_atomic_state" /\ tag = 0 => Cursor = current
    /\ pc \in Resting => Cursor = curr
    /\ pc = "exit" => Cursor = current
    /\ pc = "enter" =>
           Cursor = Prefix(t.destination, Len(t.destination) - Len(path))
  BY DEF Cursor, Resting

(* The same after a step.                                                  *)
LEMMA CursorFactsAfter ==
    /\ pc' = "get_atomic_state" /\ tag' = 1 => Cursor' = getSuperstate(current')
    /\ pc' = "get_atomic_state" /\ tag' = 0 => Cursor' = current'
    /\ pc' \in Resting => Cursor' = curr'
    /\ pc' = "exit" => Cursor' = current'
    /\ pc' = "enter" =>
           Cursor' = Prefix(t'.destination, Len(t'.destination) - Len(path'))
  BY DEF Cursor, Resting

(* The least upper bound of a transition in progress.                      *)
LEMMA TopFacts ==
    ASSUME t \in Transitions
    PROVE  Top = t.state /\ Top \in States
  BY TransitionFacts DEF Top

(* The initial state.                                                      *)
LEMMA InitInv == Init => Inv
  <1> SUFFICES ASSUME Init PROVE Inv
    OBVIOUS
  <1>1. Root \in States /\ Len(Root) = 1 /\ Root \in Seq(Identifiers) /\ Root # << >>
    BY TreeAssumption DEF TreeWellFormed, NoState
  <1>2. TypeOK
    <2>1. InitialEnvironment \in Environments
      BY DEF InitialEnvironment, Environments
    <2>2. [d \in Declarations |-> Null] \in SavedValues
      BY DEF SavedValues
    <2>3. InitialValueHistory \in [States -> SavedValues \cup {NoHistory}]
      BY <2>2 DEF InitialValueHistory
    <2>4. eventQueue \in Seq(EventNames) /\ event \in EventNames
      BY ModeAssumption DEF Init, EventNames
    <2> QED
      BY <2>1, <2>3, <2>4, <1>1 DEF Init, TypeOK
  <1>3. ControlInv
    BY DEF Init, ControlInv, Resting
  <1>4. HistoryInv
    BY DEF Init, HistoryInv
  <1>5. NestedInv
    BY DEF Init, NestedInv, Nested
  <1> QED
    BY <1>2, <1>3, <1>4, <1>5 DEF Inv

(* The steps that only move between the places of simulate's loop.         *)
LEMMA LoopStepInv ==
    ASSUME Inv, NextLine \/ DeclineEvents \/ InputFails \/ Halt
    PROVE  Inv'
  <1>1. /\ UNCHANGED <<stateVars, curr, event, t, current, path, tag>>
        /\ pc \in Resting
        /\ pc' \in Resting \cup {"stopped"}
    BY DEF NextLine, DeclineEvents, InputFails, Halt, Resting
  <1>2. TypeOK'
    BY <1>1 DEF Inv, TypeOK, stateVars, Resting
  <1>3. ControlInv'
    BY <1>1 DEF Inv, ControlInv, Resting
  <1>4. HistoryInv'
    BY <1>1 DEF Inv, HistoryInv, stateVars
  <1>5. NestedInv'
    <2>1. pc # "stopped" /\ Cursor = curr /\ (pc' # "stopped" => Cursor' = curr')
      BY <1>1, CursorFacts, CursorFactsAfter DEF Resting
    <2>2. configuration' = configuration /\ curr' = curr
      BY <1>1 DEF stateVars
    <2> QED
      BY <2>1, <2>2 DEF Inv, NestedInv
  <1> QED
    BY <1>2, <1>3, <1>4, <1>5 DEF Inv

(* Taking an event from a queue.                                           *)
LEMMA QueueType ==
    ASSUME NEW q \in Seq(EventNames)
    PROVE  getEvent(q) \in EventNames /\ Remaining(q) \in Seq(EventNames)
  BY DEF getEvent, Remaining, EventNames

(* The steps that take an event.                                           *)
LEMMA EventStepInv ==
    ASSUME Inv, GetEvent \/ AddEvents
    PROVE  Inv'
  <1>1. /\ UNCHANGED <<valueEnvironment, configuration, stateHistory,
                       valueHistory, curr, t, current, path, tag>>
        /\ pc \in Resting
        /\ pc' \in Resting
    BY DEF GetEvent, AddEvents, Resting
  <1>2. event' \in EventNames /\ eventQueue' \in Seq(EventNames)
    <2>1. eventQueue \in Seq(EventNames)
      BY DEF Inv, TypeOK
    <2>2. CASE GetEvent
      BY <2>1, <2>2, QueueType DEF GetEvent
    <2>3. CASE AddEvents
      <3>1. PICK added \in BoundedSeq(UserEvents, MaxAdded) :
                /\ event' = getEvent(eventQueue \o added)
                /\ eventQueue' = Remaining(eventQueue \o added)
        BY <2>3 DEF AddEvents
      <3>2. added \in Seq(EventNames)
        BY <3>1, ModeAssumption DEF BoundedSeq, SeqOf, EventNames
      <3>3. eventQueue \o added \in Seq(EventNames)
        BY <2>1, <3>2
      <3> QED
        BY <3>1, <3>3, QueueType
    <2> QED
      BY <2>2, <2>3
  <1>3. TypeOK'
    BY <1>1, <1>2 DEF Inv, TypeOK, Resting
  <1>4. ControlInv'
    BY <1>1 DEF Inv, ControlInv, Resting
  <1>5. HistoryInv'
    BY <1>1 DEF Inv, HistoryInv
  <1>6. NestedInv'
    <2>1. pc # "stopped" /\ Cursor = curr /\ Cursor' = curr'
      BY <1>1, CursorFacts, CursorFactsAfter DEF Resting
    <2> QED
      BY <1>1, <2>1 DEF Inv, NestedInv
  <1> QED
    BY <1>3, <1>4, <1>5, <1>6 DEF Inv

(* A transition is chosen: it is placed in the current state or in one of
   its superstates, so the way up from there passes its least upper bound. *)
LEMMA GetValidTransitionInv ==
    ASSUME Inv, GetValidTransition
    PROVE  Inv'
  <1>1. /\ UNCHANGED <<stateVars, curr, event, path, tag>>
        /\ pc = "search" /\ pc' = "exit" /\ current' = curr
        /\ curr \in States
    BY DEF GetValidTransition, Inv, ControlInv, Resting
  <1>2. t' \in validTransitions
    <2>1. validTransitions # {}
      <3>1. Cardinality({}) = 0
        BY FS_EmptySet
      <3> QED
        BY <3>1 DEF GetValidTransition
    <2> QED
      BY <2>1 DEF GetValidTransition
  <1>3. t' \in Transitions /\ t'.state \in Range(Chain(curr))
    BY <1>2 DEF validTransitions, enabled
  <1>4. Len(t'.state) <= Len(current') /\ t'.state = Prefix(current', Len(t'.state))
    <2>1. curr \in Seq(Identifiers) /\ Len(curr) \in Nat
      BY <1>1, StateFacts
    <2>2. PICK i \in 1 .. Len(curr) : t'.state = Prefix(curr, i)
      BY <1>3, <2>1, ChainFacts
    <2>3. Len(Prefix(curr, i)) = i
      BY <2>1, <2>2, PrefixFacts
    <2>4. Len(t'.state) = i
      BY <2>2, <2>3
    <2> QED
      BY <1>1, <2>1, <2>2, <2>4
  <1>5. TypeOK'
    BY <1>1, <1>3 DEF Inv, TypeOK, stateVars
  <1>6. ControlInv'
    BY <1>1, <1>3, <1>4 DEF ControlInv, Resting
  <1>7. HistoryInv'
    BY <1>1 DEF Inv, HistoryInv, stateVars
  <1>8. NestedInv'
    <2>1. pc # "stopped" /\ Cursor = curr /\ Cursor' = curr
      BY <1>1, CursorFacts, CursorFactsAfter DEF Resting
    <2> QED
      BY <1>1, <2>1 DEF Inv, NestedInv, stateVars
  <1> QED
    BY <1>5, <1>6, <1>7, <1>8 DEF Inv

(* One turn of the loop that leaves states.                                *)
LEMMA ExitStateInv ==
    ASSUME Inv, ExitState
    PROVE  Inv'
  <1>1. /\ pc = "exit" /\ current # Top /\ current \in States /\ t \in Transitions
        /\ UNCHANGED <<eventQueue, curr, event, t, path, tag>>
        /\ TypeOK /\ HistoryInv
        /\ Len(t.state) <= Len(current) /\ t.state = Prefix(current, Len(t.state))
        /\ curr \in States
    BY DEF ExitState, LeaveCurrent, Inv, TypeOK, ControlInv
  <1>2. exit[current] \in Statements /\ valueEnvironment \in Environments
    BY <1>1 DEF Statements, TypeOK
  <1>3. Nested(configuration, current) /\ configuration \in Seq(States)
    BY <1>1, CursorFacts DEF Inv, NestedInv, TypeOK
  <1>4. PICK o \in Execute(exit[current], valueEnvironment) :
            IF o.returns
            THEN /\ valueEnvironment' = exitedEnvironment(current, o.env)
                 /\ valueHistory' = exitedValueHistory(current, o.env)
                 /\ configuration' = exitedConfiguration(current)
                 /\ stateHistory' = exitedHistory(current)
                 /\ current' = getSuperstate(current)
                 /\ UNCHANGED pc
            ELSE /\ valueEnvironment' = o.env
                 /\ pc' = "stopped"
                 /\ UNCHANGED <<valueHistory, configuration, stateHistory, current>>
    BY DEF ExitState, LeaveCurrent
  <1>5. o.env \in Environments
    BY <1>2, <1>4, ExecuteType
  <1>6. CASE ~o.returns
    <2>1. TypeOK'
      BY <1>1, <1>4, <1>5, <1>6 DEF TypeOK
    <2>2. ControlInv' /\ NestedInv'
      BY <1>4, <1>6 DEF ControlInv, NestedInv, Resting
    <2>3. HistoryInv'
      BY <1>1, <1>4, <1>6 DEF HistoryInv
    <2> QED
      BY <2>1, <2>2, <2>3 DEF Inv
  <1>7. CASE o.returns
    <2>1. /\ current \in Seq(Identifiers) /\ Len(current) \in Nat \ {0}
          /\ \A n \in 1 .. Len(current) : Prefix(current, n) \in States
          /\ t.state \in States /\ Len(t.state) \in Nat \ {0} /\ Top = t.state
      BY <1>1, StateFacts, TopFacts
    <2>2. Len(t.state) <= Len(current) - 1
      <3>1. Len(t.state) # Len(current)
        BY <1>1, <2>1, WholePrefix
      <3> QED
        BY <1>1, <2>1, <3>1
    <2>3. /\ getSuperstate(current) \in States
          /\ Len(getSuperstate(current)) = Len(current) - 1
          /\ Prefix(getSuperstate(current), Len(t.state)) = t.state
      BY <1>1, <2>1, <2>2, SuperstateFacts DEF getSuperstate
    <2>4. TypeOK'
      <3>1. exitedConfiguration(current) \in Seq(States)
        BY <1>1, <1>3, NestedPop
      <3> QED
        BY <1>1, <1>4, <1>5, <1>7, <2>3, <3>1, ExitedType DEF TypeOK
    <2>5. ControlInv'
      BY <1>1, <1>4, <1>7, <2>2, <2>3 DEF ControlInv, Resting
    <2>6. HistoryInv'
      <3>1. stateHistory \in [States -> States \cup {NoState}]
        BY <1>1 DEF TypeOK
      <3>2. stateHistory' = [stateHistory EXCEPT ![getSuperstate(current)] = current]
        BY <1>4, <1>7 DEF exitedHistory
      <3> QED
        BY <1>1, <3>1, <3>2 DEF HistoryInv
    <2>7. NestedInv'
      <3>1. Nested(exitedConfiguration(current), getSuperstate(current))
        BY <1>1, <1>3, NestedPop
      <3>2. Cursor' = current'
        BY <1>1, <1>4, <1>7, CursorFactsAfter
      <3> QED
        BY <1>4, <1>7, <3>1, <3>2 DEF NestedInv
    <2> QED
      BY <2>4, <2>5, <2>6, <2>7 DEF Inv
  <1> QED
    BY <1>6, <1>7

(* The action of the transition.                                           *)
LEMMA TransitionActionInv ==
    ASSUME Inv, TransitionAction
    PROVE  Inv'
  <1>1. /\ pc = "exit" /\ current = Top /\ t \in Transitions
        /\ UNCHANGED <<configuration, stateHistory, valueHistory, eventQueue,
                       curr, event, t, current, tag>>
        /\ TypeOK /\ HistoryInv
        /\ path' = PathBelow(t.destination, Top)
    BY DEF TransitionAction, Inv, ControlInv
  <1>2. t.action \in Statements /\ valueEnvironment \in Environments
    BY <1>1 DEF Statements, TypeOK
  <1>3. valueEnvironment' \in Environments /\ pc' \in {"enter", "stopped"}
    BY <1>2, ExecuteType DEF TransitionAction
  <1>4. /\ path' \in Seq(States) /\ path' # << >>
        /\ Len(path') = Len(t.destination) - Len(t.state)
        /\ \A i \in 1 .. Len(path') :
               path'[i] = Prefix(t.destination, Len(t.destination) - i + 1)
    <2>1. path' = PathBelow(t.destination, t.state)
      BY <1>1, TopFacts
    <2>2. /\ t.destination \in States /\ t.state \in States
          /\ Len(t.state) < Len(t.destination)
      BY <1>1, TransitionFacts
    <2> QED
      BY <2>1, <2>2, PathFacts
  <1>5. TypeOK'
    BY <1>1, <1>3, <1>4 DEF TypeOK
  <1>6. ControlInv'
    <2>1. Len(t.destination) \in Nat /\ Len(t.state) \in Nat
      BY <1>1, TransitionFacts, StateFacts
    <2> QED
      BY <1>1, <1>3, <1>4, <2>1 DEF ControlInv, Resting
  <1>7. HistoryInv'
    BY <1>1 DEF HistoryInv
  <1>8. NestedInv'
    <2>1. Nested(configuration, t.state)
      BY <1>1, TopFacts, CursorFacts DEF Inv, NestedInv
    <2>2. /\ Len(t.destination) \in Nat /\ Len(t.state) \in Nat
          /\ t.state = Prefix(t.destination, Len(t.state))
      BY <1>1, TransitionFacts, StateFacts
    <2>3. pc' = "enter" =>
              Cursor' = Prefix(t.destination, Len(t.destination) - Len(path'))
      BY <1>1, CursorFactsAfter
    <2>4. Len(t.destination) - Len(path') = Len(t.state)
      BY <1>4, <2>2
    <2>5. pc' = "enter" => Cursor' = t.state
      BY <2>2, <2>3, <2>4
    <2> QED
      BY <1>1, <1>3, <2>1, <2>5 DEF NestedInv
  <1> QED
    BY <1>5, <1>6, <1>7, <1>8 DEF Inv

(* All of a sequence but its last element.                                 *)
LEMMA FrontFacts ==
    ASSUME NEW S, NEW q \in Seq(S), q # << >>
    PROVE  /\ Front(q) \in Seq(S)
           /\ Len(Front(q)) = Len(q) - 1
           /\ \A i \in 1 .. Len(q) - 1 : Front(q)[i] = q[i]
  BY DEF Front

(* Where the loop that enters states is.                                   *)
LEMMA PathStep ==
    ASSUME Inv, pc = "enter"
    PROVE  /\ t \in Transitions /\ t.destination \in States
           /\ Last(path) \in States
           /\ getSuperstate(Last(path)) = Cursor
           /\ Len(path) \in 1 .. Len(t.destination)
           /\ Len(t.destination) \in Nat \ {0}
           /\ Last(path) = Prefix(t.destination, Len(t.destination) - Len(path) + 1)
           /\ Front(path) \in Seq(States)
           /\ Len(Front(path)) = Len(path) - 1
           /\ \A i \in 1 .. Len(path) - 1 : Front(path)[i] = path[i]
           /\ Nested(enteredConfiguration(Last(path)), Last(path))
  <1> DEFINE d == t.destination
             k == Len(path)
  <1>1. /\ t \in Transitions /\ path \in Seq(States) /\ path # << >>
        /\ Len(path) <= Len(d) - Len(t.state)
        /\ \A i \in 1 .. Len(path) : path[i] = Prefix(d, Len(d) - i + 1)
        /\ configuration \in Seq(States)
    BY DEF Inv, TypeOK, ControlInv
  <1>2. /\ d \in States /\ t.state \in States
    BY <1>1, TransitionFacts
  <1>3. /\ d \in Seq(Identifiers) /\ Len(d) \in Nat \ {0} /\ Len(t.state) \in Nat \ {0}
    BY <1>2, StateFacts
  <1>4. Len(path) \in Nat \ {0}
    BY <1>1
  <1>5. Cursor = Prefix(d, Len(d) - Len(path))
    BY CursorFacts
  <1> HIDE DEF d, k
  <1>6. /\ k \in 1 .. Len(d) /\ k < Len(d)
        /\ Last(path) = Prefix(d, Len(d) - k + 1)
        /\ Cursor = Prefix(d, Len(d) - k)
    BY <1>1, <1>3, <1>4, <1>5 DEF Last, k
  <1>7. Len(d) - k + 1 \in 0 .. Len(d) /\ Len(d) - k \in 0 .. (Len(d) - k + 1)
    BY <1>3, <1>6
  <1>8. /\ Len(Last(path)) = Len(d) - k + 1
        /\ Prefix(Last(path), Len(d) - k) = Prefix(d, Len(d) - k)
    <2>1. /\ Len(Prefix(d, Len(d) - k + 1)) = Len(d) - k + 1
          /\ Prefix(Prefix(d, Len(d) - k + 1), Len(d) - k) = Prefix(d, Len(d) - k)
      BY <1>3, <1>7, PrefixFacts
    <2> QED
      BY <2>1, <1>6
  <1>9. Last(path) \in States
    BY <1>1, <1>4 DEF Last
  <1>10. getSuperstate(Last(path)) = Cursor
    <2>1. Len(Last(path)) - 1 = Len(d) - k
      BY <1>3, <1>6, <1>8
    <2> QED
      BY <2>1, <1>6, <1>8 DEF getSuperstate
  <1>11. Nested(enteredConfiguration(Last(path)), Last(path))
    BY <1>1, <1>9, <1>10, NestedPush DEF Inv, NestedInv, enteredConfiguration
  <1>12. /\ Front(path) \in Seq(States)
         /\ Len(Front(path)) = Len(path) - 1
         /\ \A i \in 1 .. Len(path) - 1 : Front(path)[i] = path[i]
    BY <1>1, FrontFacts
  <1> QED
    BY <1>1, <1>2, <1>3, <1>6, <1>9, <1>10, <1>11, <1>12 DEF d, k

(* Arriving at the destination, all states on the path entered or not.     *)
LEMMA ArriveInv ==
    ASSUME Inv, pc = "enter", Arrive,
           configuration' = enteredConfiguration(Last(path)),
           valueEnvironment' \in Environments, path' \in Seq(States),
           UNCHANGED <<stateHistory, valueHistory, eventQueue, curr, event, t>>
    PROVE  Inv'
  <1>1. /\ t.destination \in States /\ Last(path) \in States
        /\ Len(path) \in 1 .. Len(t.destination) /\ Len(t.destination) \in Nat \ {0}
        /\ Last(path) = Prefix(t.destination, Len(t.destination) - Len(path) + 1)
        /\ Nested(enteredConfiguration(Last(path)), Last(path))
    BY PathStep
  <1>2. enteredConfiguration(Last(path)) \in Seq(States)
    BY <1>1, EnteredType DEF Inv
  <1>3. TypeOK'
    BY <1>1, <1>2 DEF Inv, TypeOK, Arrive
  <1>4. ControlInv' /\ HistoryInv'
    BY DEF Inv, ControlInv, HistoryInv, Arrive, Resting
  <1>5. NestedInv'
    <2>1. Cursor' = t.destination
      BY CursorFactsAfter DEF Arrive
    <2>2. Len(t.destination) - Len(path) + 1 \in 0 .. Len(t.destination)
      BY <1>1
    <2>3. Nested(enteredConfiguration(Last(path)), t.destination)
      BY <1>1, <2>2, NestedBelow
    <2> QED
      BY <2>1, <2>3 DEF NestedInv
  <1> QED
    BY <1>3, <1>4, <1>5 DEF Inv

(* One turn of the loop that enters states.                                *)
LEMMA EnterPathInv ==
    ASSUME Inv, EnterPath
    PROVE  Inv'
  <1>1. /\ pc = "enter" /\ TypeOK
        /\ configuration' = enteredConfiguration(Last(path))
        /\ path' = Front(path)
        /\ UNCHANGED <<stateHistory, valueHistory, eventQueue, curr, event, t>>
    BY DEF EnterPath, Inv
  <1>2. /\ t \in Transitions /\ t.destination \in States
        /\ Last(path) \in States
        /\ Len(path) \in 1 .. Len(t.destination) /\ Len(t.destination) \in Nat \ {0}
        /\ Last(path) = Prefix(t.destination, Len(t.destination) - Len(path) + 1)
        /\ Front(path) \in Seq(States)
        /\ Len(Front(path)) = Len(path) - 1
        /\ \A i \in 1 .. Len(path) - 1 : Front(path)[i] = path[i]
        /\ Nested(enteredConfiguration(Last(path)), Last(path))
    BY <1>1, PathStep
  <1>3. PICK o \in Execute(entry[Last(path)], enteredEnvironment(Last(path))) :
            /\ valueEnvironment' = o.env
            /\ IF o.returns /\ Len(path) = 1 THEN Arrive
               ELSE /\ pc' = IF o.returns THEN "enter" ELSE "stopped"
                    /\ UNCHANGED <<current, tag>>
    BY DEF EnterPath
  <1>4. valueEnvironment' \in Environments
    <2>1. entry[Last(path)] \in Statements
      BY <1>2 DEF Statements
    <2> QED
      BY <1>1, <1>2, <1>3, <2>1, EnteredType, ExecuteType
  <1>5. CASE o.returns /\ Len(path) = 1
    BY <1>1, <1>2, <1>3, <1>4, <1>5, ArriveInv
  <1>6. CASE ~(o.returns /\ Len(path) = 1)
    <2>1. /\ pc' = IF o.returns THEN "enter" ELSE "stopped"
          /\ UNCHANGED <<current, tag>>
      BY <1>3, <1>6
    <2>2. enteredConfiguration(Last(path)) \in Seq(States)
      BY <1>1, <1>2, EnteredType
    <2>3. TypeOK'
      BY <1>1, <1>2, <1>4, <2>1, <2>2 DEF TypeOK
    <2>4. HistoryInv'
      BY <1>1 DEF Inv, HistoryInv
    <2>5. CASE ~o.returns
      BY <2>1, <2>3, <2>4, <2>5 DEF Inv, ControlInv, NestedInv, Resting
    <2>6. CASE o.returns
      <3>1. /\ pc' = "enter" /\ Len(path) # 1
            /\ Len(path') = Len(path) - 1 /\ Len(path') \in Nat \ {0}
        BY <1>1, <1>2, <1>6, <2>1, <2>6
      <3>2. ControlInv'
        <4>1. /\ Len(path) <= Len(t.destination) - Len(t.state)
              /\ \A i \in 1 .. Len(path) :
                     path[i] = Prefix(t.destination, Len(t.destination) - i + 1)
              /\ Len(t.state) \in Nat
          BY <1>1, <1>2, TransitionFacts, StateFacts DEF Inv, ControlInv
        <4>2. path' # << >>
          BY <3>1
        <4>3. Len(path') <= Len(t.destination) - Len(t.state)
          BY <1>2, <3>1, <4>1
        <4>4. \A i \in 1 .. Len(path') :
                  path'[i] = Prefix(t.destination, Len(t.destination) - i + 1)
          <5>1. \A i \in 1 .. Len(path') :
                    i \in 1 .. Len(path) - 1 /\ i \in 1 .. Len(path)
            BY <1>2, <3>1
          <5> QED
            BY <1>1, <1>2, <4>1, <5>1
        <4> QED
          BY <1>1, <1>2, <3>1, <4>2, <4>3, <4>4 DEF ControlInv, Resting
      <3>3. NestedInv'
        <4>1. Cursor' = Prefix(t.destination, Len(t.destination) - Len(path'))
          BY <1>1, <3>1, CursorFactsAfter
        <4>2. Len(t.destination) - Len(path') = Len(t.destination) - Len(path) + 1
          BY <1>2, <3>1
        <4>3. Cursor' = Last(path)
          BY <1>2, <4>1, <4>2
        <4> QED
          BY <1>1, <1>2, <4>3 DEF NestedInv
      <3> QED
        BY <2>3, <2>4, <3>2, <3>3 DEF Inv
    <2> QED
      BY <2>5, <2>6
  <1> QED
    BY <1>5, <1>6

(* An entry that throws on the way down.                                   *)
LEMMA EnterPathThrowsInv ==
    ASSUME Inv, EnterPathThrows
    PROVE  Inv'
  <1>1. /\ pc = "enter" /\ Arrive
        /\ configuration' = enteredConfiguration(Last(path))
        /\ valueEnvironment' = enteredEnvironment(Last(path))
        /\ path' = << >> /\ path' \in Seq(States)
        /\ UNCHANGED <<stateHistory, valueHistory, eventQueue, curr, event, t>>
    BY DEF EnterPathThrows
  <1>2. Last(path) \in States
    BY <1>1, PathStep
  <1>3. valueEnvironment' \in Environments
    BY <1>1, <1>2, EnteredType DEF Inv
  <1> QED
    BY <1>1, <1>3, ArriveInv

(* The state get_atomic_state goes on with is a substate: the default one,
   or the one the history remembers.                                       *)
LEMMA SubstateFacts ==
    ASSUME TypeOK, HistoryInv, NEW s \in States, ~isAtomic(s)
    PROVE  Substate(s) \in States /\ getSuperstate(Substate(s)) = s
  <1>1. /\ states[s] \in Seq(States) /\ states[s] # << >>
        /\ Range(states[s]) = {c \in States : getSuperstate(c) = s}
    BY TreeAssumption DEF TreeWellFormed, isAtomic
  <1>2. Head(states[s]) \in Range(states[s])
    BY <1>1 DEF Range
  <1>3. stateHistory[s] # NoState =>
            stateHistory[s] \in States /\ getSuperstate(stateHistory[s]) = s
    BY DEF TypeOK, HistoryInv
  <1> QED
    BY <1>1, <1>2, <1>3 DEF Substate, getHistoryState

(* What follows in get_atomic_state once its state counts as entered.      *)
LEMMA DescendInv ==
    ASSUME Inv, pc = "get_atomic_state", Descend,
           configuration' \in Seq(States), Nested(configuration', current),
           valueEnvironment' \in Environments,
           UNCHANGED <<stateHistory, valueHistory, eventQueue, event, t, path>>
    PROVE  Inv'
  <1>1. TypeOK /\ HistoryInv /\ current \in States
    BY DEF Inv, TypeOK
  <1>2. HistoryInv'
    BY <1>1 DEF HistoryInv
  <1>3. CASE isAtomic(current)
    <2>1. curr' = current /\ pc' = "getEvent" /\ UNCHANGED <<current, tag>>
      BY <1>3 DEF Descend
    <2>2. TypeOK' /\ ControlInv'
      BY <1>1, <2>1 DEF TypeOK, ControlInv, Resting
    <2>3. NestedInv'
      BY <2>1, CursorFactsAfter DEF NestedInv, Resting
    <2> QED
      BY <1>2, <2>2, <2>3 DEF Inv
  <1>4. CASE ~isAtomic(current)
    <2>1. current' = Substate(current) /\ tag' = 1 /\ UNCHANGED <<pc, curr>>
      BY <1>4 DEF Descend
    <2>2. Substate(current) \in States /\ getSuperstate(Substate(current)) = current
      BY <1>1, <1>4, SubstateFacts
    <2>3. TypeOK' /\ ControlInv'
      BY <1>1, <2>1, <2>2 DEF TypeOK, ControlInv, Resting
    <2>4. NestedInv'
      <3>1. Cursor' = current
        BY <2>1, <2>2, CursorFactsAfter
      <3> QED
        BY <3>1 DEF NestedInv
    <2> QED
      BY <1>2, <2>3, <2>4 DEF Inv
  <1> QED
    BY <1>3, <1>4

(* get_atomic_state enters a state, with or without an exception.          *)
LEMMA EnterAtomicPathInv ==
    ASSUME Inv, EnterAtomicPath \/ EnterAtomicPathThrows
    PROVE  Inv'
  <1>1. /\ TypeOK /\ HistoryInv /\ current \in States
        /\ pc = "get_atomic_state" /\ tag = 1
        /\ configuration' = enteredConfiguration(current)
        /\ UNCHANGED <<stateHistory, valueHistory, eventQueue, event, t, path>>
    BY DEF Inv, TypeOK, EnterAtomicPath, EnterAtomicPathThrows
  <1>2. enteredConfiguration(current) \in Seq(States)
        /\ enteredEnvironment(current) \in Environments
    BY <1>1, EnteredType
  <1>3. Nested(enteredConfiguration(current), current)
    <2>1. Nested(configuration, getSuperstate(current))
      BY <1>1, CursorFacts DEF Inv, NestedInv
    <2> QED
      BY <1>1, <2>1, NestedPush DEF TypeOK, enteredConfiguration
  <1>4. HistoryInv'
    BY <1>1 DEF HistoryInv
  <1>5. CASE EnterAtomicPathThrows
    <2>1. /\ valueEnvironment' = enteredEnvironment(current)
          /\ curr' = current /\ pc' = "getEvent" /\ UNCHANGED <<current, tag>>
      BY <1>5 DEF EnterAtomicPathThrows
    <2>2. TypeOK' /\ ControlInv'
      BY <1>1, <1>2, <2>1 DEF TypeOK, ControlInv, Resting
    <2>3. NestedInv'
      BY <1>1, <1>3, <2>1, CursorFactsAfter DEF NestedInv, Resting
    <2> QED
      BY <1>4, <2>2, <2>3 DEF Inv
  <1>6. CASE EnterAtomicPath
    <2>1. PICK o \in Execute(entry[current], enteredEnvironment(current)) :
              /\ valueEnvironment' = o.env
              /\ IF o.returns THEN Descend
                 ELSE pc' = "stopped" /\ UNCHANGED <<curr, current, tag>>
      BY <1>6 DEF EnterAtomicPath
    <2>2. valueEnvironment' \in Environments
      <3>1. entry[current] \in Statements
        BY <1>1 DEF Statements
      <3> QED
        BY <1>2, <2>1, <3>1, ExecuteType
    <2>3. CASE o.returns
      BY <1>1, <1>2, <1>3, <2>1, <2>2, <2>3, DescendInv
    <2>4. CASE ~o.returns
      <3>1. pc' = "stopped" /\ UNCHANGED <<curr, current, tag>>
        BY <2>1, <2>4
      <3> QED
        BY <1>1, <1>2, <1>4, <2>2, <3>1
           DEF Inv, TypeOK, ControlInv, NestedInv, Resting
    <2> QED
      BY <2>3, <2>4
  <1> QED
    BY <1>5, <1>6

(* get_atomic_state of a state that performTransition has entered.         *)
LEMMA AlreadyEnteredInv ==
    ASSUME Inv, AlreadyEntered
    PROVE  Inv'
  <1>1. /\ pc = "get_atomic_state" /\ tag = 0 /\ Descend
        /\ UNCHANGED <<stateVars, event, t, path>>
        /\ TypeOK
    BY DEF AlreadyEntered, Inv
  <1>2. Nested(configuration, current)
    BY <1>1, CursorFacts DEF Inv, NestedInv
  <1>3. /\ configuration' \in Seq(States) /\ valueEnvironment' \in Environments
        /\ configuration' = configuration
        /\ UNCHANGED <<stateHistory, valueHistory, eventQueue, event, t, path>>
    BY <1>1 DEF TypeOK, stateVars
  <1> QED
    BY <1>1, <1>2, <1>3, DescendInv

(* Steps that change nothing.                                              *)
LEMMA StutterInv ==
    ASSUME Inv, UNCHANGED vars
    PROVE  Inv'
  <1>1. UNCHANGED <<valueEnvironment, configuration, eventQueue, stateHistory,
                    valueHistory, pc, curr, event, t, current, path, tag>>
    BY DEF vars, stateVars, controlVars
  <1>2. TypeOK' /\ HistoryInv'
    BY <1>1 DEF Inv, TypeOK, HistoryInv
  <1>3. ControlInv'
    BY <1>1 DEF Inv, ControlInv
  <1>4. NestedInv'
    BY <1>1 DEF Inv, NestedInv, Cursor
  <1> QED
    BY <1>2, <1>3, <1>4 DEF Inv

(* The invariant is inductive.                                             *)
LEMMA NextInv == Inv /\ [Next]_vars => Inv'
  <1> SUFFICES ASSUME Inv, [Next]_vars PROVE Inv'
    OBVIOUS
  <1>1. CASE EnterAtomicPath \/ EnterAtomicPathThrows
    BY <1>1, EnterAtomicPathInv
  <1>2. CASE AlreadyEntered
    BY <1>2, AlreadyEnteredInv
  <1>3. CASE GetEvent \/ AddEvents
    BY <1>3, EventStepInv
  <1>4. CASE NextLine \/ DeclineEvents \/ InputFails \/ Halt
    BY <1>4, LoopStepInv
  <1>5. CASE GetValidTransition
    BY <1>5, GetValidTransitionInv
  <1>6. CASE ExitState
    BY <1>6, ExitStateInv
  <1>7. CASE TransitionAction
    BY <1>7, TransitionActionInv
  <1>8. CASE EnterPath
    BY <1>8, EnterPathInv
  <1>9. CASE EnterPathThrows
    BY <1>9, EnterPathThrowsInv
  <1>10. CASE UNCHANGED vars
    BY <1>10, StutterInv
  <1> QED
    BY <1>1, <1>2, <1>3, <1>4, <1>5, <1>6, <1>7, <1>8, <1>9, <1>10
       DEF Next, Compute, User, Terminated

-----------------------------------------------------------------------------
(* Theorems for every chart.                                               *)

(* The inductive invariant holds in every state the simulator reaches: in
   the middle of performTransition's loops the active states are among the
   cursor and its superstates.                                             *)
THEOREM Invariance == Spec => []Inv
  BY InitInv, NextInv, PTL DEF Spec

(* The maps, lists and program variables of the simulator keep their types:
   no step reads outside a map it has filled or enters what is no state.   *)
THEOREM TypeCorrectness == Spec => []TypeOK
  <1>1. Inv => TypeOK
    BY DEF Inv
  <1> QED
    BY <1>1, Invariance, PTL

(* Between two transitions of any chart, only the current state and its
   superstates are in the configuration, in order and once each, whatever
   exceptions enterState has thrown on the way.                            *)
THEOREM ActiveStatesNest == Spec => []ActiveStatesEnclose
  <1>1. Inv => ActiveStatesEnclose
    <2> SUFFICES ASSUME Inv, AtRest,
                        NEW i \in DOMAIN configuration
                 PROVE  /\ configuration[i] \in Range(Chain(curr))
                        /\ \A j \in 1 .. i - 1 :
                               Len(configuration[j]) < Len(configuration[i])
      BY DEF ActiveStatesEnclose
    <2>1. pc \in Resting /\ pc # "stopped"
      BY DEF AtRest, Resting
    <2>2. curr \in States /\ configuration \in Seq(States)
      BY <2>1 DEF Inv, ControlInv, TypeOK
    <2>3. Nested(configuration, curr)
      BY <2>1, CursorFacts DEF Inv, NestedInv
    <2>4. Range(Chain(curr)) = {Prefix(curr, n) : n \in 1 .. Len(curr)}
      BY <2>2, StateFacts, ChainFacts
    <2> QED
      BY <2>2, <2>3, <2>4 DEF Nested
  <1> QED
    BY <1>1, Invariance, PTL

(* The configuration of any chart is used as a stack: removing the state
   that is left by value never takes one from the middle of the list.      *)
THEOREM ConfigurationIsAStack == Spec => StackDiscipline
  <1>1. Inv /\ [Next]_vars =>
            [\/ configuration' = configuration
             \/ \E s \in States : configuration' = Append(configuration, s)
             \/ configuration' = Front(configuration)]_vars
    <2> SUFFICES ASSUME Inv, Next
                 PROVE  \/ configuration' = configuration
                        \/ \E s \in States :
                               configuration' = Append(configuration, s)
                        \/ configuration' = Front(configuration)
      OBVIOUS
    <2>1. CASE EnterAtomicPath \/ EnterAtomicPathThrows
      <3>1. current \in States /\ configuration' = Append(configuration, current)
        BY <2>1 DEF EnterAtomicPath, EnterAtomicPathThrows, enteredConfiguration,
                    Inv, TypeOK
      <3> QED
        BY <3>1
    <2>2. CASE EnterPath \/ EnterPathThrows
      <3>1. pc = "enter" /\ configuration' = Append(configuration, Last(path))
        BY <2>2 DEF EnterPath, EnterPathThrows, enteredConfiguration
      <3>2. Last(path) \in States
        BY <3>1, PathStep
      <3> QED
        BY <3>1, <3>2
    <2>3. CASE ExitState
      <3>1. /\ pc = "exit" /\ configuration \in Seq(States) /\ current \in States
            /\ Nested(configuration, current)
        BY <2>3, CursorFacts DEF ExitState, LeaveCurrent, Inv, TypeOK, NestedInv
      <3>2. exitedConfiguration(current) \in {configuration, Front(configuration)}
        BY <3>1, NestedPop
      <3>3. \/ configuration' = exitedConfiguration(current)
            \/ configuration' = configuration
        BY <2>3 DEF ExitState, LeaveCurrent
      <3> QED
        BY <3>2, <3>3
    <2>4. CASE \/ AlreadyEntered \/ GetEvent \/ GetValidTransition \/ Halt
               \/ TransitionAction \/ User \/ Terminated
      BY <2>4 DEF AlreadyEntered, GetEvent, GetValidTransition, Halt,
                  TransitionAction, User, NextLine, AddEvents, DeclineEvents,
                  InputFails, Terminated, vars, stateVars
    <2> QED
      BY <2>1, <2>2, <2>3, <2>4 DEF Next, Compute
  <1> QED
    BY <1>1, Invariance, PTL DEF Spec, StackDiscipline
=============================================================================
