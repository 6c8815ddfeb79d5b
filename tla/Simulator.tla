------------------------------ MODULE Simulator ------------------------------
(***************************************************************************)
(* The statechart simulator: simulator/Simulator.java and the main loop of *)
(* the three SimulationMode classes, over the ExecutionState.              *)
(*                                                                         *)
(* The simulator is one thread; a step of this specification is one        *)
(* iteration of one of its loops (a state left, a state entered, an event  *)
(* taken, a search for a transition), so that the states between, which an *)
(* exception or a statement that never returns can expose, are states of   *)
(* the model.  What statements and guards compute is a parameter: module   *)
(* Interpreter gives it.                                                   *)
(***************************************************************************)
EXTENDS ExecutionState

CONSTANTS
    entry, exit,        \* State.entry and State.exit: a statement per state
    Execute(_, _),      \* the outcomes of a statement from an environment
    Evaluate(_, _),     \* the value of an expression in an environment
    True,               \* the boolean constant true
    NullEvent,          \* the event "null"
    simulationMode,     \* which SimulationMode class runs the loop
    UserEvents,         \* what the user may type as an event
    MaxAdded,           \* bound: events the user adds at one prompt
    MaxQueue            \* bound: events in the queue when the user adds some

Modes == {"UserEventInSteps", "PreEventInSteps", "PreEventOneShot"}

(* An outcome is the environment a statement leaves, whether control returns
   (System.exit and StackOverflowError end the program), and whether the
   statement called input() and so waited for the user.                    *)
Outcomes == [returns : BOOLEAN, asks : BOOLEAN, env : Environments]

EventNames == Range(events) \cup UserEvents \cup {NullEvent}

Statements == {entry[s] : s \in States} \cup {exit[s] : s \in States}
                  \cup {tr.action : tr \in Transitions}

ASSUME ModeAssumption ==
    /\ simulationMode \in Modes
    /\ MaxAdded \in Nat /\ MaxQueue \in Nat
    /\ events \in Seq(EventNames)

(* Every statement, executed anywhere, has an outcome.                     *)
ASSUME ExecuteAssumption ==
    \A s \in Statements, env \in Environments :
        Execute(s, env) \in (SUBSET Outcomes) \ {{}}

VARIABLES
    pc,         \* where the thread is
    curr,       \* simulate: the innermost active state
    event,      \* simulate: the event being processed
    t,          \* simulate: the transition being performed
    current,    \* performTransition: current; get_atomic_state: init
    path,       \* performTransition: the states still to be entered
    tag         \* get_atomic_state: 1 when init is still to be entered

controlVars == <<pc, curr, event, t, current, path, tag>>
vars == <<stateVars, controlVars>>

NoTransition == [name |-> "none"]

-----------------------------------------------------------------------------
(* The constructor: all declared events are queued, and simulate starts by *)
(* looking for the atomic state of the statechart.                         *)
Init ==
    /\ valueEnvironment = InitialEnvironment
    /\ valueHistory = InitialValueHistory
    /\ configuration = << >>
    /\ stateHistory = [s \in States |-> NoState]
    /\ eventQueue = events
    /\ pc = "get_atomic_state" /\ current = Root /\ tag = 1
    /\ curr = NoState /\ t = NoTransition /\ path = << >>
    /\ event = NullEvent

-----------------------------------------------------------------------------
(* get_atomic_state(init, tag), one call of its recursion per step.        *)

(* What follows once init is entered: the recursive call for a substate,
   or the return of init to simulate.                                      *)
Substate(s) == IF s \in HistoryStates THEN getHistoryState(s)
                                      ELSE Head(states[s])

Descend ==
    IF isAtomic(current)
    THEN /\ curr' = current /\ pc' = "getEvent"
         /\ UNCHANGED <<current, tag>>
    ELSE /\ current' = Substate(current) /\ tag' = 1
         /\ UNCHANGED <<pc, curr>>

(* tag = 1: enter the state, execute its entry statement, go on.           *)
EnterAtomicPath ==
    /\ pc = "get_atomic_state" /\ tag = 1
    /\ ~enterStateThrows(current)
    /\ configuration' = enteredConfiguration(current)
    /\ \E o \in Execute(entry[current], enteredEnvironment(current)) :
           /\ valueEnvironment' = o.env
           /\ IF o.returns THEN Descend
              ELSE pc' = "stopped" /\ UNCHANGED <<curr, current, tag>>
    /\ UNCHANGED <<stateHistory, valueHistory, eventQueue, event, t, path>>

(* enterState throws: the catch block prints the trace and init is
   returned, entered but neither initialised nor descended into.           *)
EnterAtomicPathThrows ==
    /\ pc = "get_atomic_state" /\ tag = 1
    /\ enterStateThrows(current)
    /\ configuration' = enteredConfiguration(current)
    /\ valueEnvironment' = enteredEnvironment(current)
    /\ curr' = current /\ pc' = "getEvent"
    /\ UNCHANGED <<stateHistory, valueHistory, eventQueue, event, t, path,
                   current, tag>>

(* tag = 0: the state was entered by performTransition.                    *)
AlreadyEntered ==
    /\ pc = "get_atomic_state" /\ tag = 0
    /\ Descend
    /\ UNCHANGED <<stateVars, event, t, path>>

-----------------------------------------------------------------------------
(* The main loop of simulate up to the search.                             *)

getEvent(q) == IF q = << >> THEN NullEvent ELSE Head(q)

(* Fault: the event is looked at and stays in the queue.                   *)
RemainingAll(q) == q

Remaining(q) == IF q = << >> THEN << >> ELSE Tail(q)

GetEvent ==
    /\ pc = "getEvent"
    /\ event' = getEvent(eventQueue)
    /\ eventQueue' = Remaining(eventQueue)
    /\ pc' = IF simulationMode = "PreEventOneShot" THEN "search" ELSE "nextLine"
    /\ UNCHANGED <<valueEnvironment, configuration, stateHistory, valueHistory,
                   curr, t, current, path, tag>>

(* The user presses the key that steps the simulation.                     *)
NextLine ==
    /\ pc = "nextLine"
    /\ pc' = IF simulationMode = "UserEventInSteps" /\ event = NullEvent
             THEN "prompt" ELSE "search"
    /\ UNCHANGED <<stateVars, curr, event, t, current, path, tag>>

(* The user answers y and adds events; the first in the queue is taken.    *)
AddEvents ==
    /\ pc = "prompt"
    /\ \E added \in BoundedSeq(UserEvents, MaxAdded) :
           LET q == eventQueue \o added
           IN  /\ Len(q) <= MaxQueue
               /\ event' = getEvent(q)
               /\ eventQueue' = Remaining(q)
    /\ pc' = "search"
    /\ UNCHANGED <<valueEnvironment, configuration, stateHistory, valueHistory,
                   curr, t, current, path, tag>>

(* The user answers anything else: on with the null event.                 *)
DeclineEvents ==
    /\ pc = "prompt"
    /\ pc' = "search"
    /\ UNCHANGED <<stateVars, curr, event, t, current, path, tag>>

(* The input ends, or is no number where one is asked for: the exception
   reaches the catch block around the loop and simulate returns.           *)
InputFails ==
    /\ pc \in {"nextLine", "prompt"}
    /\ pc' = "stopped"
    /\ UNCHANGED <<stateVars, curr, event, t, current, path, tag>>

-----------------------------------------------------------------------------
(* get_valid_transition: the transitions of curr and of every superstate   *)
(* are tried; with none for the event, the search is run again for "null". *)

enabled(e) ==
    {tr \in Transitions : /\ tr.state \in Range(Chain(curr))
                          /\ Evaluate(tr.guard, valueEnvironment) = True
                          /\ presentInConfiguration(tr.source)
                          /\ tr.trigger = e}

(* Fault: the null event is tried first.                                   *)
validTransitionsNullFirst == IF enabled(NullEvent) # {} THEN enabled(NullEvent)
                                                        ELSE enabled(event)

validTransitions == IF enabled(event) # {} THEN enabled(event)
                                           ELSE enabled(NullEvent)

GetValidTransition ==
    /\ pc = "search"
    /\ Cardinality(validTransitions) = 1
    /\ t' = CHOOSE tr \in validTransitions : TRUE
    /\ current' = curr
    /\ pc' = "exit"
    /\ UNCHANGED <<stateVars, curr, event, path, tag>>

(* "No Viable Transition!" or "Non Determinism Detected": System.exit.     *)
Halt ==
    /\ pc = "search"
    /\ Cardinality(validTransitions) # 1
    /\ pc' = "halted"
    /\ UNCHANGED <<stateVars, curr, event, t, current, path, tag>>

-----------------------------------------------------------------------------
(* performTransition.                                                      *)

Top == lub(t.source, t.destination)

(* The body of the loop that bubbles up: the exit statement, exitState.    *)
LeaveCurrent ==
    /\ \E o \in Execute(exit[current], valueEnvironment) :
           IF o.returns
           THEN /\ valueEnvironment' = exitedEnvironment(current, o.env)
                /\ valueHistory' = exitedValueHistory(current, o.env)
                /\ configuration' = exitedConfiguration(current)
                /\ stateHistory' = exitedHistory(current)
                /\ current' = getSuperstate(current)
                /\ UNCHANGED pc
           ELSE /\ valueEnvironment' = o.env
                /\ pc' = "stopped"
                /\ UNCHANGED <<valueHistory, configuration, stateHistory, current>>
    /\ UNCHANGED <<eventQueue, curr, event, t, path, tag>>

(* Fault: the loop goes on at the least upper bound and leaves it too.     *)
ExitLubToo == pc = "exit" /\ current # Root /\ LeaveCurrent

(* Fault: the loop does not move up to the superstate.                     *)
ExitWithoutMovingUp ==
    /\ pc = "exit"
    /\ current # Top
    /\ configuration' = exitedConfiguration(current)
    /\ stateHistory' = exitedHistory(current)
    /\ UNCHANGED <<valueEnvironment, valueHistory, eventQueue, controlVars>>

ExitState ==
    /\ pc = "exit"
    /\ current # Top
    /\ LeaveCurrent

(* At the least upper bound: the action, and the path down is collected.   *)
TransitionAction ==
    /\ pc = "exit"
    /\ current = Top
    /\ \E o \in Execute(t.action, valueEnvironment) :
           /\ valueEnvironment' = o.env
           /\ pc' = IF o.returns THEN "enter" ELSE "stopped"
    /\ path' = PathBelow(t.destination, Top)
    /\ UNCHANGED <<configuration, stateHistory, valueHistory, eventQueue,
                   curr, event, t, current, tag>>

(* Fault: get_atomic_state(destination, 1) enters the destination again.   *)
ArriveOutside == /\ pc' = "get_atomic_state"
                 /\ current' = t.destination
                 /\ tag' = 1

(* performTransition returns, and get_atomic_state(destination, 0) starts. *)
Arrive == /\ pc' = "get_atomic_state"
          /\ current' = t.destination
          /\ tag' = 0

(* One turn of the loop that bubbles down: enterState, the entry statement. *)
EnterPath ==
    /\ pc = "enter"
    /\ ~enterStateThrows(Last(path))
    /\ configuration' = enteredConfiguration(Last(path))
    /\ path' = Front(path)
    /\ \E o \in Execute(entry[Last(path)], enteredEnvironment(Last(path))) :
           /\ valueEnvironment' = o.env
           /\ IF o.returns /\ Len(path) = 1 THEN Arrive
              ELSE /\ pc' = IF o.returns THEN "enter" ELSE "stopped"
                   /\ UNCHANGED <<current, tag>>
    /\ UNCHANGED <<stateHistory, valueHistory, eventQueue, curr, event, t>>

(* enterState throws: the states further down are not entered, and simulate
   goes on as if the destination had been reached.                         *)
EnterPathThrows ==
    /\ pc = "enter"
    /\ enterStateThrows(Last(path))
    /\ configuration' = enteredConfiguration(Last(path))
    /\ valueEnvironment' = enteredEnvironment(Last(path))
    /\ path' = << >>
    /\ Arrive
    /\ UNCHANGED <<stateHistory, valueHistory, eventQueue, curr, event, t>>

-----------------------------------------------------------------------------
(* The program has ended.                                                  *)
Terminated == pc \in {"halted", "stopped"} /\ UNCHANGED vars

(* The steps of the thread between two prompts.                            *)
Compute ==
    \/ EnterAtomicPath \/ EnterAtomicPathThrows \/ AlreadyEntered
    \/ GetEvent
    \/ GetValidTransition \/ Halt
    \/ ExitState \/ TransitionAction
    \/ EnterPath \/ EnterPathThrows

User == NextLine \/ AddEvents \/ DeclineEvents \/ InputFails

Next == Compute \/ User \/ Terminated

Spec == Init /\ [][Next]_vars

(* The statement that is executed next calls input(): the thread is blocked
   until the user has typed something.                                     *)
Asks(statement, env) == \E o \in Execute(statement, env) : o.asks

AwaitsInput ==
    \/ /\ pc = "get_atomic_state" /\ tag = 1
       /\ ~enterStateThrows(current)
       /\ Asks(entry[current], enteredEnvironment(current))
    \/ pc = "exit" /\ current # Top /\ Asks(exit[current], valueEnvironment)
    \/ pc = "exit" /\ current = Top /\ Asks(t.action, valueEnvironment)
    \/ /\ pc = "enter"
       /\ ~enterStateThrows(Last(path))
       /\ Asks(entry[Last(path)], enteredEnvironment(Last(path)))

(* The thread runs as long as it need not wait: nothing in the simulator
   blocks but reading the user's input, at a prompt or in input(), for which
   nothing is assumed.                                                     *)
FairSpec == Spec /\ WF_vars(Compute /\ ~AwaitsInput)

-----------------------------------------------------------------------------
(* What the simulator should guarantee.                                    *)

TypeOK ==
    /\ valueEnvironment \in Environments
    /\ configuration \in Seq(States)
    /\ eventQueue \in Seq(EventNames)
    /\ stateHistory \in [States -> States \cup {NoState}]
    /\ valueHistory \in [States -> SavedValues \cup {NoHistory}]
    /\ pc \in {"get_atomic_state", "getEvent", "nextLine", "prompt", "search",
               "exit", "enter", "halted", "stopped"}
    /\ curr \in States \cup {NoState}
    /\ event \in EventNames
    /\ t \in Transitions \cup {NoTransition}
    /\ current \in States
    /\ path \in Seq(States)
    /\ tag \in {0, 1}

(* simulate's loop is between two transitions.                             *)
AtRest == pc \in {"getEvent", "nextLine", "prompt", "search", "halted"}

(* No static variable is declared below the substates of the statechart, the
   states whose saved values the ExecutionState constructor does not set up. *)
NoDeepStatics == \A s \in States : Scoped(s, "static") # {} => s \in populated

(* From env1 to env2 only variables of ds are assigned; an assignment leaves
   an entry in the map.                                                    *)
AssignsOnly(ds, env1, env2) ==
    \A d \in Declarations : env2[d] # env1[d] => d \in ds /\ env2[d] # Absent

(* Statements assign what they may: entry and exit statements variables of
   their state and its superstates, actions those of the write environment.
   The type checker sees to it where names are not fully qualified.        *)
StatementsRespectScope ==
    \A env \in Environments :
        /\ \A s \in States : \A o \in Execute(entry[s], env) \cup Execute(exit[s], env) :
               AssignsOnly(getEnvironment(s), env, o.env)
        /\ \A tr \in Transitions : \A o \in Execute(tr.action, env) :
               AssignsOnly(getWriteEnvironment(tr), env, o.env)

(* Between two transitions the active states are exactly the current state
   and its superstates, listed outermost first, and the current state is
   atomic: get_atomic_state and performTransition leave no state out, enter
   none twice and stop nowhere half way.                                   *)
ActiveChain == AtRest => configuration = Chain(curr) /\ isAtomic(curr)

(* Whatever the chart, between two transitions only the current state and
   its superstates are active, in the order they nest, none of them twice:
   even when an entry fails half way and some are left out, no state of
   another branch stays in the configuration.                              *)
ActiveStatesEnclose ==
    AtRest => \A i \in DOMAIN configuration :
                  /\ configuration[i] \in Range(Chain(curr))
                  /\ \A j \in 1 .. i - 1 :
                         Len(configuration[j]) < Len(configuration[i])

(* While a transition is performed, the states that enclose both its ends
   stay active: performTransition leaves and enters only states below the
   least upper bound.                                                      *)
EnclosingStatesStay ==
    pc \in {"exit", "enter"} => IsPrefix(Chain(Top), configuration)

(* Between two transitions a local variable has an entry in the value
   environment exactly while its state is active: exitState removes it, and
   nothing a transition assigns on its way leaves one behind.              *)
LocalsLiveWithTheirState ==
    AtRest => \A s \in States : \A d \in Scoped(s, "local") :
                  valueEnvironment[d] # Absent <=> presentInConfiguration(s)

(* Between two transitions a static variable of an inactive state still has
   the value that was saved when the state was left, so enterState resumes
   it with the value it had.                                               *)
InactiveStaticsKept ==
    AtRest => \A s \in States : \A d \in Scoped(s, "static") :
                  ~presentInConfiguration(s) /\ valueHistory[s] # NoHistory
                      => Got(valueEnvironment[d]) = valueHistory[s][d]

(* The configuration is a stack: a step pushes a state, pops the innermost
   one, or leaves it alone, though the code removes by value from a list.  *)
StackDiscipline ==
    [][\/ configuration' = configuration
       \/ \E s \in States : configuration' = Append(configuration, s)
       \/ configuration' = Front(configuration)]_vars

(* The user does not leave a call of input() unanswered for ever.          *)
UserAnswers == []<>~AwaitsInput

(* A transition that is begun is completed, or the program has ended, as long
   as the user answers where a statement calls input(): no loop of
   performTransition or get_atomic_state runs for ever.                    *)
TransitionCompletes ==
    UserAnswers => (pc = "exit" ~> pc \in {"getEvent", "stopped"})

(* The events that are queued when the simulation starts are all taken, in
   the mode that does not ask for events, unless the program ends or a call
   of input() is never answered.                                           *)
EventsAreTaken ==
    UserAnswers => <>(eventQueue = << >> \/ pc \in {"halted", "stopped"})

-----------------------------------------------------------------------------
(* What the comments and the report say of the simulator, and the code does
   not do.                                                                 *)

(* Simulator.java says that get_atomic_state returns the atomic state for a
   state, and that its last line is never reached.                         *)
AtomicStateReturned == AtRest => isAtomic(curr)

(* The report says that the action of a transition may use the variables of
   the source state: when the action is executed they exist.               *)
ActionReadsSource ==
    pc = "exit" /\ current = Top =>
        \A d \in getReadOnlyEnvironment(t) : valueEnvironment[d] # Absent
=============================================================================
