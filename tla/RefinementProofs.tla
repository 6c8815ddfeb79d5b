-------------------------- MODULE RefinementProofs --------------------------
(***************************************************************************)
(* The simulator implements the step semantics: each of its steps is a     *)
(* step of module StepSemantics or leaves the mapped variables alone, in   *)
(* every chart without static variables below the substates of the         *)
(* statechart.                                                             *)
(***************************************************************************)
EXTENDS SimulatorRefinement, ConfigurationProofs

-----------------------------------------------------------------------------
(* The operators of the step semantics are those of the chart.             *)

(* Its paths, histories and leaves are those of Statechart.                *)
LEMMA SameOperators ==
    /\ \A s, h : Steps!AtomicBelow(s, h) = AtomicBelow(s, h)
    /\ \A s, top, h :
           Steps!HistoryAfterLeaving(s, top, h) = HistoryAfterLeaving(s, top, h)
    /\ \A s : Steps!Range(Steps!Chain(s)) = Range(Chain(s))
    /\ \A q, r : Steps!IsPrefix(q, r) = IsPrefix(q, r)
    /\ Steps!NoStatesYet = NoHistoryYet
    /\ Steps!NoState = NoState
  <1>1. \A s, h : Steps!AtomicBelow(s, h) = AtomicBelow(s, h)
    BY DEF AtomicBelow, Steps!AtomicBelow, isAtomic, Steps!isAtomic, NoState,
           Steps!NoState
  <1>2. \A s, top, h :
            Steps!HistoryAfterLeaving(s, top, h) = HistoryAfterLeaving(s, top, h)
    BY DEF HistoryAfterLeaving, Steps!HistoryAfterLeaving, PathBelow,
           Steps!PathBelow, getSuperstate, Steps!getSuperstate, Prefix,
           Steps!Prefix, Range, Steps!Range
  <1>3. \A s : Steps!Range(Steps!Chain(s)) = Range(Chain(s))
    BY DEF Chain, Steps!Chain, Prefix, Steps!Prefix, Range, Steps!Range
  <1>4. \A q, r : Steps!IsPrefix(q, r) = IsPrefix(q, r)
    BY DEF IsPrefix, Steps!IsPrefix
  <1>5. Steps!NoStatesYet = NoHistoryYet /\ Steps!NoState = NoState
    BY DEF Steps!NoStatesYet, NoHistoryYet, NoState, Steps!NoState
  <1> QED
    BY <1>1, <1>2, <1>3, <1>4, <1>5

-----------------------------------------------------------------------------
(* The refinement mapping, by where the thread is.                         *)

(* What the mapping answers at each place of the thread.                   *)
LEMMA MappingFacts ==
    /\ pc \in {"halted", "stopped"} =>
           Phase = "gone" /\ LeafToCome = NoState /\ HistoryToCome = NoHistoryYet
    /\ pc = "exit" =>
           /\ Phase = "idle"
           /\ HistoryToCome = HistoryAfterLeaving(current, Top, stateHistory)
           /\ LeafToCome = AtomicBelow(t.destination, HistoryToCome)
    /\ pc = "enter" =>
           /\ Phase = "idle" /\ HistoryToCome = stateHistory
           /\ LeafToCome = AtomicBelow(t.destination, stateHistory)
    /\ pc = "get_atomic_state" =>
           /\ Phase = "idle" /\ HistoryToCome = stateHistory
           /\ LeafToCome = AtomicBelow(current, stateHistory)
    /\ pc = "getEvent" =>
           Phase = "idle" /\ LeafToCome = curr /\ HistoryToCome = stateHistory
    /\ pc \in {"nextLine", "prompt", "search"} =>
           Phase = "offered" /\ LeafToCome = curr /\ HistoryToCome = stateHistory
    /\ Phase # "offered" => Open = {}
    /\ Phase = "offered" =>
           Open = {tr \in Transitions : Evaluate(tr.guard, valueEnvironment) = True}
  BY DEF Phase, LeafToCome, HistoryToCome, Gone, Open

(* The same after a step.                                                  *)
LEMMA MappingFactsAfter ==
    /\ pc' \in {"halted", "stopped"} =>
           Phase' = "gone" /\ LeafToCome' = NoState /\ HistoryToCome' = NoHistoryYet
    /\ pc' = "exit" =>
           /\ Phase' = "idle"
           /\ HistoryToCome' = HistoryAfterLeaving(current', Top', stateHistory')
           /\ LeafToCome' = AtomicBelow(t'.destination, HistoryToCome')
    /\ pc' = "enter" =>
           /\ Phase' = "idle" /\ HistoryToCome' = stateHistory'
           /\ LeafToCome' = AtomicBelow(t'.destination, stateHistory')
    /\ pc' = "get_atomic_state" =>
           /\ Phase' = "idle" /\ HistoryToCome' = stateHistory'
           /\ LeafToCome' = AtomicBelow(current', stateHistory')
    /\ pc' = "getEvent" =>
           Phase' = "idle" /\ LeafToCome' = curr' /\ HistoryToCome' = stateHistory'
    /\ pc' \in {"nextLine", "prompt", "search"} =>
           Phase' = "offered" /\ LeafToCome' = curr' /\ HistoryToCome' = stateHistory'
    /\ Phase' # "offered" => Open' = {}
    /\ Phase' = "offered" =>
           Open' = {tr \in Transitions : Evaluate(tr.guard, valueEnvironment') = True}
  <1> USE DEF Phase, LeafToCome, HistoryToCome, Gone
  <1>1. pc' \in {"halted", "stopped"} =>
            Phase' = "gone" /\ LeafToCome' = NoState /\ HistoryToCome' = NoHistoryYet
    BY DEF NoState, NoHistoryYet
  <1>2. pc' = "exit" =>
            /\ Phase' = "idle"
            /\ HistoryToCome' = HistoryAfterLeaving(current', Top', stateHistory')
            /\ LeafToCome' = AtomicBelow(t'.destination, HistoryToCome')
    OBVIOUS
  <1>3. pc' = "enter" =>
            /\ Phase' = "idle" /\ HistoryToCome' = stateHistory'
            /\ LeafToCome' = AtomicBelow(t'.destination, stateHistory')
    OBVIOUS
  <1>4. pc' = "get_atomic_state" =>
            /\ Phase' = "idle" /\ HistoryToCome' = stateHistory'
            /\ LeafToCome' = AtomicBelow(current', stateHistory')
    OBVIOUS
  <1>5. pc' \in {"getEvent", "nextLine", "prompt", "search"} =>
            LeafToCome' = curr' /\ HistoryToCome' = stateHistory'
    OBVIOUS
  <1>6. /\ pc' = "getEvent" => Phase' = "idle"
        /\ pc' \in {"nextLine", "prompt", "search"} => Phase' = "offered"
    OBVIOUS
  <1>7. /\ Phase' # "offered" => Open' = {}
        /\ Phase' = "offered" =>
               Open' = {tr \in Transitions : Evaluate(tr.guard, valueEnvironment') = True}
    BY DEF Open
  <1> QED
    BY <1>1, <1>2, <1>3, <1>4, <1>5, <1>6, <1>7

(* The history the simulator keeps is one.                                 *)
LEMMA StateHistoryIsHistory ==
    ASSUME Inv
    PROVE  stateHistory \in Histories
  BY DEF Inv, TypeOK, HistoryInv, Histories

(* The program ends: the step semantics ends.                              *)
LEMMA StoppingIsEnd ==
    ASSUME pc' \in {"halted", "stopped"}, UNCHANGED <<eventQueue, event>>
    PROVE  Steps!End
  BY MappingFactsAfter, SameOperators DEF Steps!End

(* The user is asked for events only in place of a null event.             *)
PromptInv == pc = "prompt" => event = NullEvent

(* No event is at hand while the thread waits at the prompt.               *)
LEMMA NextPromptInv ==
    ASSUME PromptInv, [Next]_vars, TypeOK
    PROVE  PromptInv'
  BY DEF PromptInv, Next, Compute, User, EnterAtomicPath, EnterAtomicPathThrows,
         AlreadyEntered, Descend, GetEvent, GetValidTransition, Halt, ExitState,
         LeaveCurrent, TransitionAction, EnterPath, EnterPathThrows, Arrive,
         NextLine, AddEvents, DeclineEvents, InputFails, Terminated, vars,
         controlVars, stateVars

-----------------------------------------------------------------------------
(* The steps of the simulator, one by one.                                 *)

Stutter == UNCHANGED <<LeafToCome, HistoryToCome, eventQueue, event, Phase, Open>>

(* get_atomic_state goes down, or returns the atomic state it has reached:
   the state it will return stays the same.                                *)
LEMMA DescendStutters ==
    ASSUME Inv, pc = "get_atomic_state", Descend,
           UNCHANGED <<stateHistory, eventQueue, event>>
    PROVE  Stutter
  <1>1. stateHistory \in Histories /\ current \in States
    BY StateHistoryIsHistory DEF Inv, TypeOK
  <1>2. CASE isAtomic(current)
    <2>1. curr' = current /\ pc' = "getEvent"
      BY <1>2 DEF Descend
    <2>2. AtomicBelow(current, stateHistory) = current
      BY <1>1, <1>2, AtomicBelowEquation
    <2> QED
      BY <2>1, <2>2, MappingFacts, MappingFactsAfter DEF Stutter
  <1>3. CASE ~isAtomic(current)
    <2>1. current' = Substate(current) /\ pc' = "get_atomic_state"
      BY <1>3 DEF Descend
    <2>2. Substate(current) = Resumed(current, stateHistory)
      BY DEF Substate, getHistoryState, Resumed
    <2>3. AtomicBelow(current', stateHistory) = AtomicBelow(current, stateHistory)
      BY <1>1, <1>3, <2>1, <2>2, AtomicBelowEquation
    <2> QED
      BY <2>1, <2>3, MappingFacts, MappingFactsAfter DEF Stutter
  <1> QED
    BY <1>2, <1>3

(* A state is entered by get_atomic_state, or the program ends there.      *)
LEMMA EnterAtomicPathRefines ==
    ASSUME Inv, EnterAtomicPath
    PROVE  Stutter \/ Steps!End
  <1>1. /\ pc = "get_atomic_state" /\ UNCHANGED <<stateHistory, eventQueue, event>>
        /\ Descend \/ pc' = "stopped"
    BY DEF EnterAtomicPath
  <1> QED
    BY <1>1, DescendStutters, StoppingIsEnd

(* The destination was entered before: get_atomic_state goes on below.     *)
LEMMA AlreadyEnteredRefines ==
    ASSUME Inv, AlreadyEntered
    PROVE  Stutter
  BY DescendStutters DEF AlreadyEntered, stateVars

(* An event is taken from the queue: it is offered to the chart.           *)
LEMMA GetEventRefines ==
    ASSUME GetEvent
    PROVE  Steps!Offer
  <1>1. /\ pc = "getEvent" /\ pc' \in {"search", "nextLine"}
        /\ event' = getEvent(eventQueue) /\ eventQueue' = Remaining(eventQueue)
        /\ UNCHANGED <<curr, stateHistory>>
    BY DEF GetEvent
  <1>2. /\ Phase = "idle" /\ Phase' = "offered"
        /\ UNCHANGED <<LeafToCome, HistoryToCome>>
        /\ Open' \in SUBSET Transitions
    BY <1>1, MappingFacts, MappingFactsAfter
  <1>3. \/ eventQueue = << >> /\ event' = NullEvent /\ eventQueue' = << >>
        \/ /\ eventQueue # << >>
           /\ event' = Head(eventQueue) /\ eventQueue' = Tail(eventQueue)
    BY <1>1 DEF getEvent, Remaining
  <1> QED
    BY <1>2, <1>3 DEF Steps!Offer

(* The key is pressed, or no event is added: the event stays offered.      *)
LEMMA WaitingRefines ==
    ASSUME NextLine \/ DeclineEvents
    PROVE  Stutter
  <1>1. /\ {pc, pc'} \subseteq {"nextLine", "prompt", "search"}
        /\ UNCHANGED <<curr, stateHistory, eventQueue, event, valueEnvironment>>
    BY DEF NextLine, DeclineEvents, stateVars
  <1> QED
    BY <1>1, MappingFacts, MappingFactsAfter DEF Stutter

(* Adding events and taking the oldest keeps the order of the others.      *)
LEMMA AddEventsRefines ==
    ASSUME Inv, PromptInv, AddEvents
    PROVE  Steps!Extend
  <1>1. /\ pc = "prompt" /\ pc' = "search"
        /\ UNCHANGED <<curr, stateHistory, valueEnvironment>>
        /\ event = NullEvent /\ eventQueue \in Seq(EventNames)
    BY DEF AddEvents, PromptInv, Inv, TypeOK
  <1>2. PICK added \in BoundedSeq(UserEvents, MaxAdded) :
            /\ event' = getEvent(eventQueue \o added)
            /\ eventQueue' = Remaining(eventQueue \o added)
    BY DEF AddEvents
  <1>3. added \in Seq(EventNames)
    BY <1>2, ModeAssumption DEF BoundedSeq, SeqOf, EventNames
  <1>4. IsPrefix(eventQueue, <<event'>> \o eventQueue')
    <2> DEFINE q == eventQueue \o added
    <2>1. /\ q \in Seq(EventNames) /\ Len(eventQueue) <= Len(q)
          /\ Len(q) \in Nat /\ Len(eventQueue) \in Nat
          /\ \A i \in 1 .. Len(eventQueue) : q[i] = eventQueue[i]
      BY <1>1, <1>3
    <2> HIDE DEF q
    <2>2. CASE q = << >>
      <3>1. eventQueue = << >> /\ eventQueue' = << >>
        BY <1>1, <1>2, <2>1, <2>2, EmptySeq DEF Remaining, q
      <3> QED
        BY <3>1 DEF IsPrefix
    <2>3. CASE q # << >>
      <3>1. event' = Head(q) /\ eventQueue' = Tail(q)
        BY <1>2, <2>3 DEF q, getEvent, Remaining
      <3>2. <<event'>> \o eventQueue' = q
        BY <2>1, <2>3, <3>1
      <3>3. SubSeq(eventQueue, 1, Len(eventQueue)) = SubSeq(q, 1, Len(eventQueue))
        BY <1>1, <2>1
      <3> QED
        BY <2>1, <3>2, <3>3 DEF IsPrefix
    <2> QED
      BY <2>2, <2>3
  <1>5. /\ Phase = "offered" /\ Phase' = "offered"
        /\ UNCHANGED <<LeafToCome, HistoryToCome, Open>>
    BY <1>1, MappingFacts, MappingFactsAfter
  <1> QED
    BY <1>1, <1>4, <1>5, SameOperators DEF Steps!Extend

(* At the search, what the step semantics calls enabled is what the code
   finds: a transition whose source is active is placed in an active state. *)
LEMMA SameEnabled ==
    ASSUME FullInv, pc = "search", NEW e
    PROVE  Steps!Enabled(e) = enabled(e)
  <1>1. configuration = Chain(curr) /\ curr \in States
    BY CursorFacts DEF FullInv, ChainInv, Resting, Inv, ControlInv
  <1>2. LeafToCome = curr
    BY MappingFacts
  <1>3. Open = {tr \in Transitions : Evaluate(tr.guard, valueEnvironment) = True}
    BY MappingFacts
  <1>4. ASSUME NEW tr \in Transitions, tr.source \in Range(Chain(curr))
        PROVE  tr.state \in Range(Chain(curr))
    <2>1. /\ curr \in Seq(Identifiers) /\ Len(curr) \in Nat
          /\ tr.state \in States /\ Len(tr.state) \in Nat \ {0}
          /\ Len(tr.state) < Len(tr.source)
          /\ tr.state = Prefix(tr.source, Len(tr.state))
      BY <1>1, TransitionFacts, StateFacts
    <2>2. PICK n \in 1 .. Len(curr) : tr.source = Prefix(curr, n)
      BY <1>4, <2>1, ChainFacts
    <2>3. n \in 0 .. Len(curr)
      BY <2>1
    <2>4. Len(tr.source) = n /\ \A m \in 0 .. n : Prefix(tr.source, m) = Prefix(curr, m)
      BY <2>1, <2>2, <2>3, PrefixFacts
    <2>5. Len(tr.state) \in 0 .. n /\ Len(tr.state) \in 1 .. Len(curr)
      BY <2>1, <2>2, <2>4
    <2>6. tr.state = Prefix(curr, Len(tr.state))
      BY <2>1, <2>4, <2>5
    <2> QED
      BY <2>1, <2>5, <2>6, ChainFacts
  <1> QED
    BY <1>1, <1>2, <1>3, <1>4, SameOperators
       DEF Steps!Enabled, enabled, presentInConfiguration

(* The transition that get_valid_transition finds fires.                   *)
LEMMA GetValidTransitionRefines ==
    ASSUME FullInv, GetValidTransition
    PROVE  \E tr \in Transitions : Steps!Fire(tr)
  <1>1. /\ pc = "search" /\ pc' = "exit" /\ current' = curr
        /\ Cardinality(validTransitions) = 1
        /\ t' = CHOOSE tr \in validTransitions : TRUE
        /\ UNCHANGED <<stateHistory, eventQueue, event>>
    BY DEF GetValidTransition, stateVars
  <1>2. validTransitions = {t'}
    <2>1. validTransitions \subseteq Transitions
      BY DEF validTransitions, enabled
    <2>2. IsFiniteSet(validTransitions)
      BY <2>1, TransitionAssumption, FS_Subset DEF TransitionsWellPlaced
    <2>3. PICK x : validTransitions = {x}
      BY <1>1, <2>2, FS_Singleton
    <2> QED
      BY <1>1, <2>3
  <1>3. t' \in Transitions
    BY <1>2 DEF validTransitions, enabled
  <1>4. \/ Steps!Enabled(event) = {t'}
        \/ Steps!Enabled(event) = {} /\ Steps!Enabled(NullEvent) = {t'}
    BY <1>1, <1>2, SameEnabled DEF validTransitions
  <1>5. Top' = t'.state
    BY <1>3, TransitionFacts DEF Top
  <1>6. /\ Phase = "offered" /\ LeafToCome = curr /\ HistoryToCome = stateHistory
        /\ Phase' = "idle" /\ Open' = {}
        /\ HistoryToCome' = HistoryAfterLeaving(curr, t'.state, stateHistory)
        /\ LeafToCome' = AtomicBelow(t'.destination, HistoryToCome')
    BY <1>1, <1>5, MappingFacts, MappingFactsAfter
  <1>7. Steps!Fire(t')
    BY <1>1, <1>4, <1>6, SameOperators DEF Steps!Fire
  <1> QED
    BY <1>3, <1>7

(* A state is left: the history to come already counted it.                *)
LEMMA ExitStateRefines ==
    ASSUME Inv, ExitState
    PROVE  Stutter \/ Steps!End
  <1>1. /\ pc = "exit" /\ current # Top /\ UNCHANGED <<eventQueue, event, t>>
        /\ \/ pc' = "stopped"
           \/ /\ pc' = "exit" /\ current' = getSuperstate(current)
              /\ stateHistory' = exitedHistory(current)
    BY DEF ExitState, LeaveCurrent
  <1>2. CASE pc' = "stopped"
    BY <1>1, <1>2, StoppingIsEnd
  <1>3. CASE pc' # "stopped"
    <2>1. /\ stateHistory \in Histories /\ current \in States
          /\ t \in Transitions /\ Top \in States /\ Top = t.state /\ Top' = Top
      BY <1>1, StateHistoryIsHistory, TopFacts DEF Inv, TypeOK, ControlInv, Top
    <2>2. Len(Top) <= Len(current) /\ Top = Prefix(current, Len(Top))
      BY <1>1, <2>1 DEF Inv, ControlInv
    <2>3. /\ Len(Top) \in Nat /\ Len(current) \in Nat
          /\ Prefix(current, Len(current)) = current
      BY <2>1, StateFacts, WholePrefix
    <2>4. Len(Top) < Len(current)
      BY <1>1, <2>2, <2>3
    <2>5. HistoryAfterLeaving(current', Top', stateHistory')
              = HistoryAfterLeaving(current, Top, stateHistory)
      BY <1>1, <1>3, <2>1, <2>2, <2>4, LeavingInSteps DEF exitedHistory
    <2> QED
      BY <1>1, <1>3, <2>5, MappingFacts, MappingFactsAfter DEF Stutter
  <1> QED
    BY <1>2, <1>3

(* At the least upper bound nothing is left to leave.                      *)
LEMMA TransitionActionRefines ==
    ASSUME Inv, TransitionAction
    PROVE  Stutter \/ Steps!End
  <1>1. /\ pc = "exit" /\ current = Top /\ pc' \in {"enter", "stopped"}
        /\ UNCHANGED <<eventQueue, event, t, stateHistory>>
    BY DEF TransitionAction
  <1>2. CASE pc' = "stopped"
    BY <1>1, <1>2, StoppingIsEnd
  <1>3. CASE pc' = "enter"
    <2>1. stateHistory \in Histories /\ Top \in States
      BY <1>1, StateHistoryIsHistory DEF Inv, TypeOK
    <2>2. HistoryAfterLeaving(current, Top, stateHistory) = stateHistory
      BY <1>1, <2>1, NothingLeft
    <2> QED
      BY <1>1, <1>3, <2>2, MappingFacts, MappingFactsAfter DEF Stutter
  <1> QED
    BY <1>1, <1>2, <1>3

(* A state on the way down is entered, or the program ends there.          *)
LEMMA EnterPathRefines ==
    ASSUME EnterPath
    PROVE  Stutter \/ Steps!End
  <1>1. /\ pc = "enter" /\ UNCHANGED <<eventQueue, event, t, stateHistory>>
        /\ \/ pc' \in {"enter", "stopped"}
           \/ pc' = "get_atomic_state" /\ current' = t.destination
    BY DEF EnterPath, Arrive
  <1>2. CASE pc' = "stopped"
    BY <1>1, <1>2, StoppingIsEnd
  <1>3. CASE pc' # "stopped"
    BY <1>1, <1>3, MappingFacts, MappingFactsAfter DEF Stutter
  <1> QED
    BY <1>2, <1>3

(* The program has ended, or nothing happens.                              *)
LEMMA NothingRefines ==
    ASSUME UNCHANGED vars
    PROVE  Stutter
  BY DEF vars, stateVars, controlVars, Stutter, LeafToCome, HistoryToCome, Phase,
         Gone, Top, Open

(* Every step of the simulator is a step of the step semantics or none.    *)
LEMMA NextRefines ==
    ASSUME FullInv, PromptInv, [Next]_vars
    PROVE  [Steps!Next]_(Steps!vars)
  <1>1. Inv /\ StaticsSaved /\ current \in States
    BY DEF FullInv, Inv, TypeOK
  <1>2. ~EnterAtomicPathThrows
    BY <1>1, NeverThrows DEF EnterAtomicPathThrows
  <1>3. ~EnterPathThrows
    BY <1>1, PathStep, NeverThrows DEF EnterPathThrows
  <1>4. CASE EnterAtomicPath \/ ExitState \/ TransitionAction \/ EnterPath
    BY <1>1, <1>4, EnterAtomicPathRefines, ExitStateRefines,
       TransitionActionRefines, EnterPathRefines DEF Stutter, Steps!Next, Steps!vars
  <1>5. CASE AlreadyEntered \/ NextLine \/ DeclineEvents \/ UNCHANGED vars
    BY <1>1, <1>5, AlreadyEnteredRefines, WaitingRefines, NothingRefines
       DEF Stutter, Steps!vars
  <1>6. CASE GetEvent
    BY <1>6, GetEventRefines DEF Steps!Next
  <1>7. CASE AddEvents
    BY <1>1, <1>7, AddEventsRefines DEF Steps!Next
  <1>8. CASE GetValidTransition
    BY <1>8, GetValidTransitionRefines DEF Steps!Next
  <1>9. CASE Halt \/ InputFails
    <2>1. pc' \in {"halted", "stopped"} /\ UNCHANGED <<eventQueue, event>>
      BY <1>9 DEF Halt, InputFails, stateVars
    <2> QED
      BY <2>1, StoppingIsEnd DEF Steps!Next
  <1> QED
    BY <1>2, <1>3, <1>4, <1>5, <1>6, <1>7, <1>8, <1>9
       DEF Next, Compute, User, Terminated

(* The simulator starts where the step semantics does.                     *)
LEMMA InitRefines ==
    ASSUME Init
    PROVE  Steps!Init
  <1>1. /\ pc = "get_atomic_state" /\ current = Root
        /\ stateHistory = NoHistoryYet /\ eventQueue = events /\ event = NullEvent
    BY DEF Init, NoHistoryYet
  <1> QED
    BY <1>1, MappingFacts, SameOperators DEF Steps!Init

-----------------------------------------------------------------------------
(* Theorems.                                                               *)

(* The simulator implements the step semantics: whatever statements do and
   however many steps performTransition and get_atomic_state take, a chart
   takes its events in order, the one transition enabled for the event fires,
   one for the null event only when there is none, and the chart ends in the
   atomic state that the destination and the histories below it determine. *)
THEOREM SimulatorImplementsSteps ==
    ASSUME NoDeepStatics
    PROVE  Spec => ImplementsSteps
  <1>1. Init => Steps!Init /\ PromptInv
    BY InitRefines DEF Init, PromptInv
  <1>2. FullInv /\ PromptInv /\ [Next]_vars =>
            PromptInv' /\ [Steps!Next]_(Steps!vars)
    BY NextRefines, NextPromptInv DEF FullInv, Inv
  <1> QED
    BY <1>1, <1>2, FullInvariance, PTL DEF Spec, ImplementsSteps, Steps!Spec

(* In the middle of a transition it is already settled in which state the
   chart will be, and that is an atomic state, the destination or a state
   below it: the recursion of get_atomic_state ends.                       *)
LeafSettled ==
    ~Gone => /\ LeafToCome \in States
             /\ isAtomic(LeafToCome)
             /\ pc \in {"exit", "enter"} =>
                    t.destination \in Range(Chain(LeafToCome))

(* A destination and the histories below it always determine an atomic
   state, whatever the histories the run has left behind.                  *)
THEOREM TransitionsEndInAtomicStates ==
    ASSUME NoDeepStatics
    PROVE  Spec => []LeafSettled
  <1>1. FullInv => LeafSettled
    <2> SUFFICES ASSUME FullInv, ~Gone
                 PROVE  /\ LeafToCome \in States /\ isAtomic(LeafToCome)
                        /\ pc \in {"exit", "enter"} =>
                               t.destination \in Range(Chain(LeafToCome))
      BY DEF LeafSettled
    <2>1. Inv /\ ChainInv /\ stateHistory \in Histories /\ current \in States
      BY StateHistoryIsHistory DEF FullInv, Inv, TypeOK
    <2>2. CASE pc \in {"exit", "enter"}
      <3>1. t \in Transitions /\ t.destination \in States /\ Top \in States
        BY <2>1, <2>2, TopFacts, TransitionFacts DEF Inv, ControlInv
      <3>2. PICK h \in Histories : LeafToCome = AtomicBelow(t.destination, h)
        BY <2>1, <2>2, <3>1, MappingFacts, LeavingKeepsHistories
      <3>3. LeafToCome \in LeavesFrom(t.destination, h)
        BY <3>1, <3>2, AtomicBelowReached
      <3>4. /\ LeafToCome \in States /\ isAtomic(LeafToCome)
            /\ Len(t.destination) <= Len(LeafToCome)
            /\ t.destination = Prefix(LeafToCome, Len(t.destination))
        BY <3>3 DEF LeavesFrom, LeadsTo
      <3>5. /\ LeafToCome \in Seq(Identifiers) /\ Len(LeafToCome) \in Nat
            /\ Len(t.destination) \in Nat \ {0}
        BY <3>1, <3>4, StateFacts
      <3>6. Len(t.destination) \in 1 .. Len(LeafToCome)
        BY <3>4, <3>5
      <3> QED
        BY <3>4, <3>5, <3>6, ChainFacts
    <2>3. CASE pc = "get_atomic_state"
      <3>1. LeafToCome \in LeavesFrom(current, stateHistory)
        BY <2>1, <2>3, MappingFacts, AtomicBelowReached
      <3> QED
        BY <2>3, <3>1 DEF LeavesFrom, LeadsTo
    <2>4. CASE pc \in {"getEvent", "nextLine", "prompt", "search"}
      <3>1. curr \in States /\ isAtomic(curr)
        BY <2>1, <2>4 DEF Inv, ControlInv, ChainInv, Resting
      <3> QED
        BY <2>4, <3>1, MappingFacts
    <2> QED
      BY <2>1, <2>2, <2>3, <2>4 DEF Gone, Inv, TypeOK
  <1> QED
    BY <1>1, FullInvariance, PTL
=============================================================================
