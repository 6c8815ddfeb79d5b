------------------------- MODULE ConfigurationProofs -------------------------
(***************************************************************************)
(* Charts without static variables below the substates of the statechart:  *)
(* enterState never throws, and the configuration is at every moment the   *)
(* chain of states down to the one the simulator has reached.              *)
(***************************************************************************)
EXTENDS SimulatorProofs

-----------------------------------------------------------------------------
(* The inductive invariant.                                                *)

(* enterState finds saved values for every state with a static variable.   *)
StaticsSaved ==
    \A s \in States : Scoped(s, "static") # {} => valueHistory[s] # NoHistory

ChainInv ==
    /\ pc # "stopped" => configuration = Chain(Cursor)
    /\ pc \in Resting => isAtomic(curr)

FullInv == Inv /\ StaticsSaved /\ ChainInv

-----------------------------------------------------------------------------
(* Chains as stacks.                                                       *)

(* The last of a sequence that was appended to is taken off again.         *)
LEMMA FrontAppend ==
    ASSUME NEW S, NEW q \in Seq(S), NEW e \in S
    PROVE  Front(Append(q, e)) = q
  <1> DEFINE a == Append(q, e)
  <1>1. /\ a \in Seq(S) /\ a # << >> /\ Len(a) = Len(q) + 1 /\ Len(q) \in Nat
        /\ \A i \in 1 .. Len(q) : a[i] = q[i]
    OBVIOUS
  <1> HIDE DEF a
  <1>2. /\ Front(a) \in Seq(S) /\ Len(Front(a)) = Len(a) - 1
        /\ \A i \in 1 .. Len(a) - 1 : Front(a)[i] = a[i]
    BY <1>1, FrontFacts
  <1>3. Len(Front(a)) = Len(q) /\ \A i \in 1 .. Len(q) : Front(a)[i] = q[i]
    BY <1>1, <1>2
  <1>4. Front(a) = q
    BY <1>2, <1>3, SeqEqual
  <1> QED
    BY <1>4 DEF a

(* Entering a state whose superstates are the active states.               *)
LEMMA ChainPush ==
    ASSUME NEW s \in States, configuration = Chain(getSuperstate(s))
    PROVE  enteredConfiguration(s) = Chain(s)
  BY StateFacts, ChainAppend DEF enteredConfiguration, NoState

(* Leaving the innermost active state.                                     *)
LEMMA ChainPop ==
    ASSUME NEW s \in States, configuration \in Seq(States),
           Nested(configuration, s), configuration = Chain(s)
    PROVE  exitedConfiguration(s) = Chain(getSuperstate(s))
  <1>1. /\ s \in Seq(Identifiers) /\ s # << >> /\ Len(s) \in Nat \ {0}
        /\ Prefix(s, Len(s)) = s
        /\ getSuperstate(s) \in Seq(Identifiers)
    BY StateFacts, WholePrefix, SuperstateFacts DEF NoState
  <1>2. /\ Len(configuration) = Len(s) /\ configuration[Len(s)] = s
    BY <1>1, ChainFacts
  <1>3. exitedConfiguration(s) = Front(configuration)
    BY <1>1, <1>2, NestedPop
  <1>4. configuration = Append(Chain(getSuperstate(s)), s)
    BY <1>1, ChainAppend
  <1>5. Chain(getSuperstate(s)) \in Seq(Seq(Identifiers))
    BY <1>1, ChainFacts
  <1> QED
    BY <1>1, <1>3, <1>4, <1>5, FrontAppend

(* With saved values for all of them, no static variable makes enterState
   throw.                                                                  *)
LEMMA NeverThrows ==
    ASSUME StaticsSaved, NEW s \in States
    PROVE  ~enterStateThrows(s)
  BY DEF StaticsSaved, enterStateThrows

-----------------------------------------------------------------------------
(* The constructor saves values for the states of NoDeepStatics, and no
   exit takes a saved map away.                                            *)
LEMMA InitFullInv ==
    ASSUME NoDeepStatics, Init
    PROVE  FullInv
  <1>1. Inv
    BY InitInv
  <1>2. StaticsSaved
    <2> SUFFICES ASSUME NEW s \in States, Scoped(s, "static") # {}
                 PROVE  valueHistory[s] # NoHistory
      BY DEF StaticsSaved
    <2>1. s \in populated
      BY DEF NoDeepStatics
    <2>2. PICK d \in Declared(s) : scope[d] = "static"
      BY DEF Scoped
    <2>3. NonLocals(s) # {}
      BY <2>2 DEF NonLocals, Scoped
    <2>4. [d1 \in Declarations |-> Null] \in SavedValues
      BY DEF SavedValues
    <2>5. valueHistory[s] = [d1 \in Declarations |-> Null]
      BY <2>1, <2>3 DEF Init, InitialValueHistory
    <2> QED
      BY <2>4, <2>5, ValueAssumption
  <1>3. ChainInv
    <2>1. pc = "get_atomic_state" /\ tag = 1 /\ current = Root /\ configuration = << >>
      BY DEF Init
    <2>2. Root \in Seq(Identifiers) /\ Root # << >> /\ Len(Root) = 1
      BY TreeAssumption DEF TreeWellFormed, NoState
    <2>3. getSuperstate(Root) \in Seq(Identifiers) /\ Len(getSuperstate(Root)) = 0
      BY <2>2, SuperstateFacts
    <2>4. Cursor = getSuperstate(Root)
      BY <2>1, CursorFacts
    <2>5. Chain(getSuperstate(Root)) \in Seq(Seq(Identifiers))
          /\ Len(Chain(getSuperstate(Root))) = 0
      BY <2>3, ChainFacts
    <2>6. Chain(getSuperstate(Root)) = << >>
      BY <2>5, EmptySeq
    <2> QED
      BY <2>1, <2>4, <2>6 DEF ChainInv, Resting
  <1> QED
    BY <1>1, <1>2, <1>3 DEF FullInv

(* Saved values stay.                                                      *)
LEMMA StaticsStaySaved ==
    ASSUME Inv, StaticsSaved, [Next]_vars
    PROVE  StaticsSaved'
  <1>1. valueHistory \in [States -> SavedValues \cup {NoHistory}]
        /\ current \in States /\ valueEnvironment \in Environments
    BY DEF Inv, TypeOK
  <1>2. CASE valueHistory' = valueHistory
    BY <1>2 DEF StaticsSaved
  <1>3. ASSUME NEW env \in Environments,
               valueHistory' = exitedValueHistory(current, env)
        PROVE  StaticsSaved'
    <2> DEFINE saved == [d \in Declarations |->
                            IF d \in Declared(current) THEN Got(env[d]) ELSE Null]
    <2>1. \A d \in Declarations : Got(env[d]) \in Values \cup {Null}
      BY DEF Environments, Got
    <2>2. saved \in SavedValues
      BY <2>1 DEF SavedValues
    <2>3. saved # NoHistory
      BY <2>2, ValueAssumption
    <2>4. \/ valueHistory' = valueHistory
          \/ valueHistory' = [valueHistory EXCEPT ![current] = saved]
      BY <1>3 DEF exitedValueHistory
    <2> HIDE DEF saved
    <2> QED
      BY <1>1, <2>3, <2>4 DEF StaticsSaved
  <1>4. CASE ExitState
    <2>1. exit[current] \in Statements
      BY <1>1 DEF Statements
    <2>2. PICK o \in Execute(exit[current], valueEnvironment) :
              \/ valueHistory' = exitedValueHistory(current, o.env)
              \/ valueHistory' = valueHistory
      BY <1>4 DEF ExitState, LeaveCurrent
    <2>3. o.env \in Environments
      BY <1>1, <2>1, <2>2, ExecuteType
    <2> QED
      BY <1>2, <1>3, <2>2, <2>3
  <1>5. CASE ~ExitState
    <2>1. valueHistory' = valueHistory
      BY <1>5 DEF Next, Compute, User, EnterAtomicPath, EnterAtomicPathThrows,
             AlreadyEntered, GetEvent, GetValidTransition, Halt, TransitionAction,
             EnterPath, EnterPathThrows, NextLine, AddEvents, DeclineEvents,
             InputFails, Terminated, vars, stateVars
    <2> QED
      BY <2>1, <1>2
  <1> QED
    BY <1>4, <1>5

(* get_atomic_state goes down from a state that is entered.                *)
LEMMA DescendChain ==
    ASSUME Inv, pc = "get_atomic_state", Descend, configuration' = Chain(current),
           current \in States, UNCHANGED stateHistory
    PROVE  ChainInv'
  <1>1. CASE isAtomic(current)
    <2>1. curr' = current /\ pc' = "getEvent"
      BY <1>1 DEF Descend
    <2> QED
      BY <1>1, <2>1, CursorFactsAfter DEF ChainInv, Resting, isAtomic
  <1>2. CASE ~isAtomic(current)
    <2>1. current' = Substate(current) /\ tag' = 1 /\ pc' = pc
      BY <1>2 DEF Descend
    <2>2. getSuperstate(Substate(current)) = current
      BY <1>2, SubstateFacts DEF Inv
    <2>3. Cursor' = current
      BY <2>1, <2>2, CursorFactsAfter
    <2> QED
      BY <2>1, <2>3 DEF ChainInv, Resting
  <1> QED
    BY <1>1, <1>2

(* The configuration stays the chain of the cursor.                        *)
LEMMA NextChainInv ==
    ASSUME FullInv, [Next]_vars
    PROVE  ChainInv'
  <1>1. /\ Inv /\ StaticsSaved /\ ChainInv /\ TypeOK
        /\ current \in States /\ configuration \in Seq(States)
    BY DEF FullInv, Inv, TypeOK
  <1>2. CASE EnterAtomicPath
    <2>1. /\ pc = "get_atomic_state" /\ tag = 1
          /\ configuration' = enteredConfiguration(current)
          /\ UNCHANGED stateHistory
      BY <1>2 DEF EnterAtomicPath
    <2>2. configuration' = Chain(current)
      BY <1>1, <2>1, CursorFacts, ChainPush DEF ChainInv
    <2>3. Descend \/ pc' = "stopped"
      BY <1>2 DEF EnterAtomicPath
    <2>4. CASE Descend
      BY <1>1, <2>1, <2>2, <2>4, DescendChain
    <2>5. CASE pc' = "stopped"
      BY <2>5 DEF ChainInv, Resting
    <2> QED
      BY <2>3, <2>4, <2>5
  <1>3. CASE AlreadyEntered
    <2>1. /\ pc = "get_atomic_state" /\ tag = 0 /\ Descend
          /\ configuration' = configuration /\ UNCHANGED stateHistory
      BY <1>3 DEF AlreadyEntered, stateVars
    <2>2. configuration' = Chain(current)
      BY <1>1, <2>1, CursorFacts DEF ChainInv
    <2> QED
      BY <1>1, <2>1, <2>2, DescendChain
  <1>4. ~EnterAtomicPathThrows
    BY <1>1, NeverThrows DEF EnterAtomicPathThrows
  <1>5. ~EnterPathThrows
    BY <1>1, PathStep, NeverThrows DEF EnterPathThrows
  <1>6. CASE GetEvent \/ AddEvents \/ NextLine \/ DeclineEvents \/ InputFails \/ Halt
    <2>1. /\ configuration' = configuration /\ curr' = curr
          /\ pc \in Resting /\ pc' \in Resting \cup {"stopped"}
      BY <1>6 DEF GetEvent, AddEvents, NextLine, DeclineEvents, InputFails, Halt,
                  Resting, stateVars
    <2>2. Cursor = curr /\ pc # "stopped" /\ (pc' # "stopped" => Cursor' = curr)
      BY <2>1, CursorFacts, CursorFactsAfter DEF Resting
    <2> QED
      BY <1>1, <2>1, <2>2 DEF ChainInv, Resting, isAtomic
  <1>7. CASE GetValidTransition
    <2>1. /\ pc = "search" /\ pc' = "exit" /\ current' = curr
          /\ configuration' = configuration
      BY <1>7 DEF GetValidTransition, stateVars
    <2>2. Cursor = curr /\ Cursor' = curr
      BY <2>1, CursorFacts, CursorFactsAfter DEF Resting
    <2> QED
      BY <1>1, <2>1, <2>2 DEF ChainInv, Resting
  <1>8. CASE ExitState
    <2>1. pc = "exit" /\ Cursor = current
      BY <1>8, CursorFacts DEF ExitState, LeaveCurrent
    <2>2. Nested(configuration, current) /\ configuration = Chain(current)
      BY <1>1, <2>1 DEF Inv, NestedInv, ChainInv
    <2>3. \/ pc' = "stopped"
          \/ /\ configuration' = exitedConfiguration(current)
             /\ current' = getSuperstate(current) /\ pc' = "exit"
      BY <1>8, <2>1 DEF ExitState, LeaveCurrent
    <2>4. CASE pc' = "stopped"
      BY <2>4 DEF ChainInv, Resting
    <2>5. CASE pc' # "stopped"
      <3>1. configuration' = Chain(current') /\ pc' = "exit"
        BY <1>1, <2>2, <2>3, <2>5, ChainPop
      <3> QED
        BY <3>1, CursorFactsAfter DEF ChainInv, Resting
    <2> QED
      BY <2>4, <2>5
  <1>9. CASE TransitionAction
    <2>1. /\ pc = "exit" /\ current = Top /\ t \in Transitions
          /\ configuration' = configuration /\ t' = t
          /\ path' = PathBelow(t.destination, Top)
          /\ pc' \in {"enter", "stopped"}
      BY <1>1, <1>9 DEF TransitionAction, Inv, ControlInv
    <2>2. configuration = Chain(t.state) /\ Top = t.state
      BY <1>1, <2>1, TopFacts, CursorFacts DEF ChainInv
    <2>3. /\ t.destination \in States /\ t.state \in States
          /\ Len(t.state) < Len(t.destination)
          /\ t.state = Prefix(t.destination, Len(t.state))
          /\ Len(t.destination) \in Nat /\ Len(t.state) \in Nat
      BY <2>1, TransitionFacts, StateFacts
    <2>4. Len(path') = Len(t.destination) - Len(t.state)
      BY <2>1, <2>2, <2>3, PathFacts
    <2>5. Len(t.destination) - Len(path') = Len(t.state)
      BY <2>3, <2>4
    <2>6. pc' = "enter" => Cursor' = t.state
      BY <2>1, <2>3, <2>5, CursorFactsAfter
    <2> QED
      BY <2>1, <2>2, <2>6 DEF ChainInv, Resting
  <1>10. CASE EnterPath
    <2>1. /\ pc = "enter" /\ t' = t
          /\ configuration' = enteredConfiguration(Last(path))
          /\ path' = Front(path)
      BY <1>10 DEF EnterPath
    <2>2. /\ Last(path) \in States /\ getSuperstate(Last(path)) = Cursor
          /\ Len(path) \in 1 .. Len(t.destination) /\ Len(t.destination) \in Nat \ {0}
          /\ Last(path) = Prefix(t.destination, Len(t.destination) - Len(path) + 1)
          /\ Len(path') = Len(path) - 1
          /\ t.destination \in States
      BY <1>1, <2>1, PathStep
    <2>3. configuration' = Chain(Last(path))
      BY <1>1, <2>1, <2>2, ChainPush DEF ChainInv
    <2>4. \/ pc' = "stopped" \/ pc' = "enter"
          \/ /\ Len(path) = 1 /\ pc' = "get_atomic_state"
             /\ current' = t.destination /\ tag' = 0
      BY <1>10 DEF EnterPath, Arrive
    <2>5. CASE pc' = "stopped"
      BY <2>5 DEF ChainInv, Resting
    <2>6. CASE pc' = "enter"
      <3>1. Cursor' = Prefix(t.destination, Len(t.destination) - Len(path'))
        BY <2>1, <2>6, CursorFactsAfter
      <3>2. Len(t.destination) - Len(path') = Len(t.destination) - Len(path) + 1
        BY <2>2
      <3> QED
        BY <2>2, <2>3, <2>6, <3>1, <3>2 DEF ChainInv, Resting
    <2>7. CASE /\ Len(path) = 1 /\ pc' = "get_atomic_state"
               /\ current' = t.destination /\ tag' = 0
      <3>1. Cursor' = t.destination
        BY <2>7, CursorFactsAfter
      <3>2. Len(t.destination) - Len(path) + 1 = Len(t.destination)
        BY <2>2, <2>7
      <3>3. Prefix(t.destination, Len(t.destination)) = t.destination
        BY <2>2, StateFacts, WholePrefix
      <3>4. Last(path) = t.destination
        BY <2>2, <3>2, <3>3
      <3> QED
        BY <2>3, <2>7, <3>1, <3>4 DEF ChainInv, Resting
    <2> QED
      BY <2>4, <2>5, <2>6, <2>7
  <1>11. CASE UNCHANGED vars
    <2>1. UNCHANGED <<configuration, pc, curr, t, current, path, tag>>
      BY <1>11 DEF vars, stateVars, controlVars
    <2>2. Cursor' = Cursor
      BY <2>1 DEF Cursor
    <2> QED
      BY <1>1, <2>1, <2>2 DEF ChainInv, isAtomic
  <1> QED
    BY <1>2, <1>3, <1>4, <1>5, <1>6, <1>7, <1>8, <1>9, <1>10, <1>11
       DEF Next, Compute, User, Terminated

-----------------------------------------------------------------------------
(* Theorems.                                                               *)

(* The strengthened invariant holds in every state the simulator reaches.   *)
LEMMA FullInvariance ==
    ASSUME NoDeepStatics
    PROVE  Spec => []FullInv
  <1>1. Init => FullInv
    BY InitFullInv
  <1>2. FullInv /\ [Next]_vars => FullInv'
    BY NextInv, StaticsStaySaved, NextChainInv DEF FullInv
  <1> QED
    BY <1>1, <1>2, PTL DEF Spec

(* Between two transitions the active states are exactly the current state
   and its superstates, and the current state is atomic: in every chart the
   ExecutionState constructor is right about, whatever its statements do.  *)
THEOREM ActiveStatesAreAChain ==
    ASSUME NoDeepStatics
    PROVE  Spec => []ActiveChain
  <1>1. FullInv => ActiveChain
    <2> SUFFICES ASSUME FullInv, AtRest
                 PROVE  configuration = Chain(curr) /\ isAtomic(curr)
      BY DEF ActiveChain
    <2>1. pc \in Resting /\ pc # "stopped"
      BY DEF AtRest, Resting
    <2> QED
      BY <2>1, CursorFacts DEF FullInv, ChainInv
  <1> QED
    BY <1>1, FullInvariance, PTL

(* performTransition leaves and enters no state at or above the least upper
   bound of the source and the destination.                                *)
THEOREM EnclosingStatesStayActive ==
    ASSUME NoDeepStatics
    PROVE  Spec => []EnclosingStatesStay
  <1>1. FullInv => EnclosingStatesStay
    <2> SUFFICES ASSUME FullInv, pc \in {"exit", "enter"}
                 PROVE  IsPrefix(Chain(Top), configuration)
      BY DEF EnclosingStatesStay
    <2>1. /\ Inv /\ ChainInv /\ t \in Transitions
      BY DEF FullInv, Inv, ControlInv
    <2>2. /\ Top = t.state /\ Top \in States /\ t.destination \in States
          /\ Top = Prefix(t.destination, Len(Top))
          /\ Len(Top) < Len(t.destination)
      BY <2>1, TopFacts, TransitionFacts
    <2>3. /\ Len(Top) \in Nat \ {0} /\ Len(t.destination) \in Nat \ {0}
          /\ Top \in Seq(Identifiers) /\ t.destination \in Seq(Identifiers)
      BY <2>2, StateFacts
    <2>4. /\ configuration = Chain(Cursor) /\ Cursor \in Seq(Identifiers)
          /\ Len(Top) <= Len(Cursor) /\ Top = Prefix(Cursor, Len(Top))
      <3>1. configuration = Chain(Cursor)
        BY <2>1 DEF ChainInv
      <3>2. CASE pc = "exit"
        <4>1. Cursor = current /\ current \in States
          BY <2>1, <3>2, CursorFacts DEF Inv, TypeOK
        <4> QED
          BY <2>1, <2>2, <3>1, <3>2, <4>1, StateFacts DEF Inv, ControlInv
      <3>3. CASE pc = "enter"
        <4>1. /\ path # << >> /\ path \in Seq(States)
              /\ Len(path) <= Len(t.destination) - Len(t.state)
              /\ Cursor = Prefix(t.destination, Len(t.destination) - Len(path))
          BY <2>1, <3>3, CursorFacts DEF Inv, ControlInv, TypeOK
        <4>2. /\ Len(Top) \in Nat /\ Len(t.destination) \in Nat /\ Len(path) \in Nat
              /\ Len(path) <= Len(t.destination) - Len(Top)
          <5>1. Len(path) \in Nat
            BY <4>1, LenProperties
          <5> QED
            BY <2>2, <2>3, <4>1, <5>1
        <4>3. PICK n \in 0 .. Len(t.destination) :
                  n = Len(t.destination) - Len(path) /\ Len(Top) \in 0 .. n
          <5>1. \A u, d, p \in Nat : p <= d - u => d - p \in 0 .. d /\ u \in 0 .. d - p
            OBVIOUS
          <5>2. /\ Len(t.destination) - Len(path) \in 0 .. Len(t.destination)
                /\ Len(Top) \in 0 .. Len(t.destination) - Len(path)
            BY <4>2, <5>1, Zenon
          <5> QED
            BY <5>2, Zenon
        <4>4. /\ Cursor \in Seq(Identifiers) /\ Len(Cursor) = n
              /\ Prefix(Cursor, Len(Top)) = Prefix(t.destination, Len(Top))
          <5>1. /\ Prefix(t.destination, n) \in Seq(Identifiers)
                /\ Len(Prefix(t.destination, n)) = n
                /\ \A m \in 0 .. n :
                       Prefix(Prefix(t.destination, n), m) = Prefix(t.destination, m)
            BY <2>3, PrefixFacts, Zenon
          <5>2. Cursor = Prefix(t.destination, n)
            BY <4>1, <4>3, Zenon
          <5> QED
            BY <4>3, <5>1, <5>2
        <4>5. Len(Top) <= n
          BY <4>3
        <4> QED
          BY <2>2, <3>1, <4>4, <4>5
      <3> QED
        BY <3>2, <3>3
    <2>5. /\ Len(Chain(Top)) = Len(Top)
          /\ \A i \in 1 .. Len(Top) : Chain(Top)[i] = Prefix(Top, i)
          /\ Len(configuration) = Len(Cursor) /\ Len(Cursor) \in Nat
          /\ \A i \in 1 .. Len(Cursor) : configuration[i] = Prefix(Cursor, i)
          /\ Chain(Top) \in Seq(Seq(Identifiers))
          /\ configuration \in Seq(Seq(Identifiers))
      BY <2>3, <2>4, ChainFacts
    <2>6. \A i \in 1 .. Len(Top) : Prefix(Top, i) = Prefix(Cursor, i)
      <3>1. Len(Top) \in 0 .. Len(Cursor)
        BY <2>3, <2>4, <2>5
      <3>2. \A i \in 0 .. Len(Top) :
                Prefix(Prefix(Cursor, Len(Top)), i) = Prefix(Cursor, i)
        BY <2>4, <3>1, PrefixFacts
      <3> QED
        BY <2>3, <2>4, <3>2
    <2>7. \A i \in 1 .. Len(Top) : Chain(Top)[i] = configuration[i]
      <3>1. \A i \in 1 .. Len(Top) : i \in 1 .. Len(Cursor)
        BY <2>3, <2>4, <2>5
      <3> QED
        BY <2>5, <2>6, <3>1
    <2>8. SubSeq(Chain(Top), 1, Len(Top)) = SubSeq(configuration, 1, Len(Top))
      BY <2>3, <2>4, <2>5, <2>7
    <2> QED
      BY <2>4, <2>5, <2>8 DEF IsPrefix
  <1> QED
    BY <1>1, FullInvariance, PTL
=============================================================================
