# A TLA+ development of the StaBL statechart tools

StaBL is a statechart language: states nest, variables are declared in states
(local, static or parameter), transitions carry a trigger, a guard and an action,
and entry and exit statements run as states come and go.  The repository parses and
type checks StaBL (`src/src/dfa/frontend`), simulates it (`src/src/dfa/simulator`) and
executes it symbolically (`src/src/dfa/symbolic_execution`, `src/src/dfa/set`,
`src/src/dfa/stablcfg`); an OCaml prototype (`src/src/sim-see`) executes small imperative
programs symbolically.  This directory models the simulator, the type checker, the
symbolic execution engine and the prototype, checks them with TLC on small charts, and
proves with TLAPS, for every chart, that the simulator's set of active states and its
variables stay what the chart says they should be, that its loops implement one step
between atomic states per transition, and that the symbolic engine loses no path, takes
every path deeper in each round, and keeps its one set of active states right for all of
them where the guards allow it.

## 1. The system

### Components, their state, their operations

| component (code) | state | operations | what makes it correct |
|---|---|---|---|
| abstract syntax (`ast/`) | the tree of `State`s, their `DeclarationList`s, `Transition`s, `Environment`s | `getSuperstate`, `getAllSuperstates`, `isAncestor`, `lub`, `getEnvironment`, read and write environments of a transition | `lub` is the innermost state that properly encloses both ends; the loops over superstates end there |
| type checker (`frontend/Typechecker.java`) | none of its own; annotates the tree | `typecheckTransition`, `typecheckTrigger`, `checkNameDuplication`, typing of expressions and statements | what it accepts, the simulator can run |
| execution state (`simulator/ExecutionState.java`) | `valueEnvironment`, `configuration`, `eventQueue`, `stateHistory`, `valueHistory` | constructor, `enterState`, `exitState`, `getHistoryState`, `presentInConfiguration`, `getValue`, `setValue`, the event queue | the list of active states is a branch of the tree; locals live while their state is active; statics and histories survive |
| simulator (`simulator/Simulator.java`) | local variables of its methods | `get_atomic_state`, `performTransition`, `get_valid_transition` | a transition leaves and enters exactly the states between its ends and their least upper bound, and ends in an atomic state |
| simulation modes (`simulator/*Event*.java`) | `curr`, `event`, `t` | the main loop; prompts | events are taken in order, one per transition, none is lost unseen |
| interpreter (`EvaluateExpression.java`, `ExecuteStatement.java`) | none; changes `valueEnvironment` | `evaluate`, `executeStatement` and one method per class | well-typed programs evaluate to values of their type; exceptions leave the state consistent |
| symbolic execution engine (`symbolic_execution/`) | a static set `conf` of active states, two static depth bounds, the tree of nodes (each knows its parent), live and done leaves | `execute`, `takeTransition`, `executeStatement`, `sym_eval`, `Solver.solve` | each leaf stands for one execution of the chart, its symbolic values are those of the assignments on the path, no path vanishes, and the search ends |
| graphs and trees (`stablcfg/`, `set/`, `see/`) | nodes, edges | `addEdge`, `addNode`, ... | nothing in the repository builds one, see section 5 |
| OCaml prototype (`src/src/sim-see/imperative`) | the tree of `setnode`s as finished and live leaves, the counter of symbols | `typecheck`, `se_prog` with `se_decls`, `se_stmt`, `se_expr` | every execution of a program follows exactly one path, and the path says what it computes |

The simulator is a single thread.  A `SimulationMode` constructor asks the chart for
its events, builds an `ExecutionState`, calls `get_atomic_state(statechart, 1)` and
then loops: take an event, perhaps ask the user, search for a transition, perform it,
call `get_atomic_state(destination, 0)`.  `Simulator` calls `ExecutionState` to enter
and leave states and `ExecuteStatement` to run statements; those call
`EvaluateExpression`; all of them share one `ExecutionState` by reference.  The symbolic
execution engine shares the syntax tree and nothing else with the simulator; it runs
`z3` as a process for every guard and condition and compares the whole output with
`sat`.

### What is hard about it

Nothing runs concurrently.  The hard behaviours are

* **exceptions half way**: every method of the simulator wraps its body in a `try`
  whose `catch` prints a trace and lets the caller go on, so a failing entry leaves a
  half-performed transition behind and the main loop continues;
* **long sequences of legal calls**: histories, saved values and the list of active
  states are updated a piece at a time by loops that go up and down the tree, and
  entering and leaving are split over two methods that must agree on who enters the
  destination (`tag`);
* **order of effects**: locals are removed on exit and reset on entry, the action
  runs in between;
* **numbers and nulls**: wrap-around, division by zero, unset variables, a `while`
  that recurses until the stack is exhausted;
* **progress**: the null event is searched for whenever another finds nothing; the
  symbolic search ends only by its depth bound;
* **paths that must neither vanish nor double**: both symbolic executors carry lists of
  finished and live leaves through nested loops, split them at conditions and cut them
  off at a bound;
* **state shared by what should be separate**: the symbolic engine explores many paths
  with one static set of active states, and one answer of the solver that outlives a
  failure to run it;
* **two judges of one program**: the type checker decides by static types and scopes,
  the interpreter by the class of the values it meets.

The list with lines is `hazards` in `PROJECT.json`.

## 2. Modules

| module | models | extends |
|---|---|---|
| `Statechart` | package `ast` and the part of the type checker the simulator needs | |
| `JavaValues` | `null` and missing map entries | |
| `ExecutionState` | `ExecutionState.java` | `Statechart`, `JavaValues` |
| `Simulator` | `Simulator.java`, `UserEventInSteps`, `PreEventInSteps`, `PreEventOneShot` | `ExecutionState` |
| `ActionLanguage` | the classes of expressions and statements, as records | |
| `Interpreter` | `EvaluateExpression.java`, `ExecuteStatement.java` | `JavaValues`, `ActionLanguage` |
| `Typechecker` | `Typechecker.java` for names, expressions, statements; `Environment.java` | `Statechart`, `ActionLanguage` |
| `TypedExecution` | a block of accepted statements and its execution | `Typechecker`, `Interpreter` |
| `SymbolicTree` | package `se_tree`, `SymbolicExecutionResult`, `initialize_variables` | `Statechart`, `ActionLanguage` |
| `SymbolicEvaluator` | statements and expressions in `SymbolicExecutionEngine.java`; `Solver.java` | `SymbolicTree`, `JavaValues` |
| `SymbolicExecution` | `execute`, `takeTransition` and the states in `SymbolicExecutionEngine.java` | `SymbolicTree` |
| `SymbolicSoundness` | the two together, and symbolic values against concrete ones | `SymbolicExecution`, `SymbolicEvaluator` |
| `ImperativeLanguage` | the prototype's `syntax.ml`, `env.ml`, and the type checker in `interpreter.ml` | |
| `ImperativeExecution` | module `SE` of `interpreter.ml` | `ImperativeLanguage` |
| `ImperativeSoundness` | the prototype's tree against a plain interpreter | `ImperativeExecution` |
| `StepSemantics` | the abstract specification: a transition is one step between atomic states | `Statechart` |
| `SimulatorRefinement` | the refinement mapping | `Simulator` |
| `SimulatorParameters` | the simulator's statements and guards given by the interpreter | `Interpreter` |
| `MCSimulator`, `MCDeepStatics`, `MCOneShot` | charts for the simulator | |
| `MCTyping` | a chart and programs for the type checker | |
| `MCSymbolic`, `MCSymbolicHistory` | charts for the symbolic engine | |
| `MCImperative` | programs for the prototype | |
| `StatechartProofs` | lemmas about prefixes, `lub`, and the atomic state below a state | `Statechart` |
| `SimulatorProofs`, `ConfigurationProofs`, `VariableProofs` | theorems about the simulator's state, each module on the one before | `Simulator`, `StatechartProofs` |
| `RefinementProofs` | theorems about the refinement of `StepSemantics` | `SimulatorRefinement`, `ConfigurationProofs` |
| `SymbolicProofs` | that the symbolic engine loses no path | `SymbolicExecution`, `StatechartProofs` |
| `SymbolicStateProofs` | theorems about the states on its paths, and about `conf` | `SymbolicProofs` |

### How the model corresponds to the code

*States* are fully qualified names, sequences of identifiers, as `getFullName` builds
them; the superstate is the name without its last element and `null` is the empty
name.  `lub` follows the code: it compares the lists of **proper** superstates, so the
bound of a state and itself is its superstate, and the bound of a state and its
substate is the superstate of the outer one.

*Variables of the specification* are the fields of `ExecutionState` under their names,
and the local variables of the methods on the thread's stack: `curr`, `event`, `t` of
`simulate`, `current` and `path` of `performTransition` (`current` is also `init` of
`get_atomic_state`, the two are never live together), `tag`, and `pc`.

*Actions* are loop iterations:

| action | code |
|---|---|
| `EnterAtomicPath`, `EnterAtomicPathThrows`, `AlreadyEntered` | one call of `get_atomic_state`: `enterState`, entry statement, choice of substate; its `catch`; `tag = 0` |
| `GetEvent` | `getEvent` in each mode |
| `NextLine`, `AddEvents`, `DeclineEvents`, `InputFails` | the user at `UserEventInSteps` and `PreEventInSteps` (which is the former without the prompt for events) |
| `GetValidTransition`, `Halt` | `get_valid_transition` with its retry for `null` and its two `System.exit`s |
| `ExitState` | one turn of the loop up in `performTransition`: exit statement, `exitState`, superstate |
| `TransitionAction` | the action, and the list of states to enter |
| `EnterPath`, `EnterPathThrows` | one turn of the loop down, and its exception |

An exception out of `enterState` (a static variable of a state for which the
constructor made no map) happens after the state was appended to `configuration` and
after the declarations before the static one were treated; `Reached` says which.

*Statements and guards* are parameters of `Simulator`: `Execute(statement, env)` is a
set of outcomes (several because `input()` answers anything), each an environment,
whether control returns (`System.exit` and `StackOverflowError` do not), and whether
`input()` was called on the way, where `Scanner.nextInt` waits for the user.
`Interpreter` gives the operators in the runs; the theorems hold for every `Execute`
that has an outcome for every statement.  A guard has one value: a guard that calls
`input()` is outside the model.

*The type checker* annotates the tree or throws; in the model a check has the set of its
results, the annotated tree or nothing.  An environment is the sequence of declaration
lists the linked `Environment` objects hold, so that hiding and the copying of chains
(`copyExclusive`, `copyInclusive`) are modelled, while `Statechart` has the sets of
variables they should reach; `AssignsInScope` compares the two.

*The symbolic engine.*  A node has a parent and nothing below it, so it is the sequence
of the nodes on the way to it.  `Start` is a call of `execute` up to the loops,
`EnterInitial` one turn of the loop over `conf`, `StartRound`, `TryTransition` and
`EndRound` the parts of the main loop (`TryTransition` is one leaf and one transition,
with all of `takeTransition`), `Return` its end.  `takeTransition` is one loop over the
works of the transition (`worksOf`: the exits, the action, the entries of superstates of
the destination, those of its first substates), each done on all nodes the one before
left alive.  Sets of states keep their order of
insertion.  Statements and the solver are parameters of `SymbolicExecution`, given by
`SymbolicEvaluator`.  The solver's verdict follows the text it is sent: which formulas
`z3` cannot read (a missing operand, no space after an operator, an undeclared symbol)
is part of the model, and an answer other than exactly `sat` counts as no.

Names of symbols are the names of variables, and `SymVars.symvarslist` keeps one type per
name; `SymbolAssumption` asks for charts where variables of one name have one type, for
which nothing is overwritten.

*The prototype.*  A `setnode` knows its parent, so it is the sequence of nodes from the
entry to it.  `Declare` is one turn of the loop of `se_decls`, over all leaves;
`ExecuteNext` adds one statement to the program and executes it on all leaves
(`se_stmt_all` with all of `se_stmt`), so that a state stands for a program and every
beginning of a program is covered; `Return` is the end of `se_prog`.  The
counter of symbols is the length of `symbols`, the list of the types asked for.  `let ...
and ...` leaves the order of evaluation open; the model takes left to right, and only the
numbers of symbols depend on it.  The program must pass `typecheck`, as it must in
`evaluate.ml`.

*Fault operators.*  Operators with the word "Fault" in their comment are wrong
variants of the operator that follows them.  They are used only to see that each
property notices the bug.

### Bounds

| constant | value | why it is enough |
|---|---|---|
| charts of the simulator | 8, 10 and 5 states | depth 4 and 5: enough for states above, at and below the two levels the `ExecutionState` constructor populates, for nested history, for self loops, transitions into and out of the middle of the tree, and a least upper bound at three different depths |
| `IntWidth` | 2 (3 in `MCOneShot`) | values wrap around within a few steps in `MCOneShot` and `MCTyping`; guards compare with the numbers in range |
| `Inputs` | two to five numbers, and `null` for an answer that is no number | each guard gets both values |
| `MaxAdded`, `MaxQueue` | 2 | one event is taken from the added ones and one remains queued behind it |
| `Depths`, `TreeDepths` | {5, 8, 14, 60}, {20, 40, 52}; {1, 9}, {4, 7} | the bound on assignments stops paths in the initial entries, in a transition, and never; the bound on nodes lets the loops of the charts run several times |
| `MaxCalls` | 1; 2 | the second call meets the `conf` of the first |
| `SolverInts` | -1 .. 2; 0 .. 1 | solutions of the guards of the charts lie inside, and their negations too |
| `Statements` (`MCTyping`) | assignments of constants, names and binary expressions, conditionals, loops; about 220 | all operators' classes, all pairs of types on the two sides, all pairs of names that hide each other |
| `MaxStatements`, `MaxDepths` | 3; {1, 3, 4, 5, 7, 12} | the bound falls on a declaration, on an assignment in each position and in each branch, between decisions, and nowhere |
| `InputValues`, `MaxInputs` | 3 pairs of an integer and a boolean; 3 | each condition gets both values; no path of the programs reads more |
| `SymbolNames` | `X1` to `X64` | more symbols than the largest program makes |
| `MaxStack` | 8 (12 in `MCTyping`) | every straight-line statement of the charts fits, and the endless loop of `MCSimulator` does not |

## 3. Runs

| run | chart | checks | result |
|---|---|---|---|
| `simulator` | `MCSimulator`, the user may type any events | `TypeOK`, `ActiveChain`, `EnclosingStatesStay`, `LocalsLiveWithTheirState`, `InactiveStaticsKept`, `TransitionCompletes`, `ImplementsSteps` | hold |
| `deep_statics` | `MCDeepStatics`, entries that throw | `ActiveStatesEnclose`, `StackDiscipline`, `TransitionCompletes` | hold |
| `one_shot` | `MCOneShot`, in the mode that does not ask for events; one action calls `input()` | `EventsAreTaken` | holds |
| `typing` | `MCTyping`, one block of any accepted statements | `ValuesTyped`, `ExpressionsTyped`, `AssignsInScope` | hold |
| `symbolic` | `MCSymbolic` | `PathsConsistent`, `LeavesAreConfigurations`, `SymbolicValuesSound`, `GuardsExclude`, `NoPathLost`, `RoundsAreSteps` | hold |
| `symbolic_ends` | `MCSymbolicHistory`, `z3` may fail at any call, and a parameter is read that nothing has set | `ExecutionEnds`, `TriedPathsContinue`, `RoundsDeepen` | hold |
| `imperative` | `MCImperative`, all programs of up to three statements | `OnePathPerExecution`, `PathsDescribe`, `SymbolsFresh`, `SymbolicValuesTyped` | hold |
| `atomic_state` | `MCDeepStatics` | `AtomicStateReturned` | violated |
| `action_reads` | `MCSimulator` | `ActionReadsSource` | violated |
| `symbolic_history` | `MCSymbolicHistory` | `HistoryResumed` | violated |
| `typing_fields` | `MCTyping` with a struct | `ExpressionsTyped` | violated |
| `typing_names` | `MCTyping` with qualified names | `DefinedNamesLookedUp` | violated |

* `ActiveChain`: between transitions `configuration` is exactly the chain of the
  current atomic state.  It needs `NoDeepStatics`; without it only the weaker
  `ActiveStatesEnclose` holds, and `deep_statics` shows that one on a chart where
  entries fail.
* `StackDiscipline`: `exitState` removes by value from a list; the removed element is
  always the last.
* `LocalsLiveWithTheirState`, `InactiveStaticsKept`: what relates the value environment
  and the saved values to the configuration.  They depend on statements assigning only
  variables in their scope, which the type checker sees to for simple names
  (`AssignsInScope`).  `StatementsRespectScope` says it of a chart; TLC evaluates it for
  `MCSimulator`, and the theorems of section 4 have it as a hypothesis.
* `ImplementsSteps`: the simulator refines `StepSemantics`.  The mapping takes the
  abstract step when the transition is chosen and predicts the leaf and the history it
  will lead to; every later step of the transition must then agree with the prediction.
  While an event is offered, `open` is the set of transitions whose guards hold; `Fire`
  takes the one that is enabled for the event, and the one enabled for `null` only when
  there is none for the event.  In `MCSimulator` null transitions compete with others
  (`t6` with `t1`, `t11` with `t4`).  Proved for every chart without deep statics.
* `TransitionCompletes` and `EventsAreTaken` are liveness properties under `FairSpec`:
  weak fairness of the thread's own steps (`Compute`) except where the statement to be
  executed calls `input()` (`AwaitsInput`).  The thread blocks only when it reads the
  console, at a prompt or in `input()`, so the code justifies it, and `FairSpec` assumes
  nothing of the user.  Both properties are about users who answer `input()` in the end
  (`UserAnswers`, a hypothesis in the properties); without it TLC finds the transition
  that waits for ever, at `t5` of `MCSimulator` and at `start` of `MCOneShot`.  At the
  prompts for steps and events nothing is assumed.  A program that ends in the middle of
  a transition, by `halt` or an exhausted stack, counts as having completed it.

* `ValuesTyped`, `ExpressionsTyped`: static typing.  The interpreter picks its case by
  the class of the left operand and stores what it gets, so nothing but the type checker
  keeps a value of the wrong type out of a variable; nulls, wrap-around, division by
  zero and `input()` are among the statements.  An expression may be null only for the
  causes `mayLackValue` lists: an unset variable, a call (an answer that is no number, or
  a call as an operand), division by zero, comparisons of strings, and those of booleans
  other than `=`; any other operator that the checker accepts has its case.  The
  properties hold without structs and with `input` declared as a function to `int`.
* `PathsConsistent`, `LeavesAreConfigurations`: `conf` is one set for all leaves.  It
  agrees with every path on charts where transitions leave atomic states, have distinct
  simple names and exclude each other, as in `MCSymbolic` (an `if` still splits the
  leaves).  On other charts it is the union over the leaves; there the engine tries
  transitions on leaves that are not in their source.  Proved for every chart of the
  first kind.
* `GuardsExclude`: what "exclude each other" means for one set `conf`.  Of two transitions
  that leave one state at most one may be taken in a round, on one path or on two, where
  a solver that fails may let any be taken.  It is about the values that variables have
  along the paths: in `MCSymbolic` the guards `n + 1 < 3` and `n != 1` of two
  transitions exclude each other only because `n` has been counted up before.
* `SymbolicValuesSound`: what `sym_eval` finds by going back along a path denotes, for
  all values of the symbols, what executing the path's assignments in order gives.  Two
  inputs into variables of one name are one symbol in the code and in the property.
* `NoPathLost`: each leaf of a round has a successor or is done, on a chart where every
  configuration has a transition to try (`NoDeadEnds`); a leaf with none is dropped by the
  code, as `EndRound` says.  Proved for every such chart.
* `RoundsAreSteps`: the states a path lists before and after a transition tried on it are
  those before and after one step of the chart, from the innermost active state to the
  initial leaf below the destination.  Histories are ignored, as the code does.
* `TriedPathsContinue`: of all that may happen in `takeTransition` only an expression
  statement or `skip` makes a tried path vanish.  The chart has such a transition, and
  without the exception for it the property is violated.
* `ExecutionEnds`: liveness under `FairSpec` of `SymbolicExecution`, weak fairness of the
  engine's own steps: it is one loop that waits for nothing but `z3`, whose runs end.
  With a final state, loops, stale answers of the solver and a second call.
* `RoundsDeepen`: why it ends.  Each path that comes out of a round goes on from one that
  went into it, is deeper, and within `max_tree_depth`.  Proved for every chart.

* `OnePathPerExecution`, `PathsDescribe`: soundness and completeness of the prototype.
  The reference is an interpreter with one environment that reads inputs from a stream
  and stops when `maxdepth` nodes are used up; for every stream the conditions of
  exactly one path hold, and on it `get_var_value` answers what the interpreter
  computes.  One of the declared variables is called `X1`.
* `SymbolsFresh`: two paths share symbols only up to the decision that separates them,
  whose condition is evaluated once.
* `SymbolicValuesTyped`: with a name declared twice, the environment of the type checker
  and the search back along the path find the same declaration.

The violated properties are what a comment or the report in `src/doc/tr1` says:
`findings` in `PROJECT.json` quotes them.  `atomic_state`: a static variable declared
three or more levels down makes `enterState` throw, and `get_atomic_state` returns the
composite state it was entering.  `action_reads`: the action of a transition runs after
the source's locals are removed, although the report says it may use them.
`symbolic_history`: the first substate is entered below a destination with a history
mark.  `typing_fields`: all fields of a struct variable are one value.  `typing_names`: a
fully qualified name is never looked up in an environment.

Disagreements of the same kind that have no run of their own: an action's assignment to
a local of a state on the way to the destination is overwritten on entry
(`ExecutionState.java:116`, against the report, line 105); parameters are not copied from
the value history (`ExecutionState.java:118`, against the comment in line 108); a
transition out of a composite state leaves its substates in `conf`
(`SymbolicExecutionEngine.java:244`, against the comment in line 236); after an `if` with
two feasible branches only the last path goes on (`SymbolicExecutionEngine.java:343`; the
draft in `dummy.txt` collects all); comparisons of strings, and `!=` of booleans, are
accepted and evaluate to null (`EvaluateExpression.java:89`); an `if` or `while` on a
boolean variable is accepted and does nothing (`ExecuteStatement.java:83`).

## 4. Proofs

The theorems are about `Spec` (no fairness), for every chart: every tree of states,
every `Execute` and `Evaluate`, every mode, every solver and every bound.  Assumptions,
all named and all evaluated by TLC for the charts of the runs:

* `TreeAssumption`, `DeclarationAssumption`, `TransitionAssumption`, `EventAssumption`:
  what the parser builds and the type checker accepts (the transitions are finitely many,
  each is placed in the least upper bound of its ends);
* `ValueAssumption`, `NullAssumption`: the special values are distinct from values;
* `ModeAssumption`, `ExecuteAssumption`: the mode is one of three, and a statement
  leaves an environment;
* `VariableAssumption`, `EngineAssumption`: every declaration has a name and a type,
  `all_ts` lists the chart's transitions, and the symbolic engine's bounds are numbers.

Some theorems have hypotheses on the chart besides, since without them the code does
not do what they say:

* `NoDeepStatics`: no static variable below the substates of the statechart, where the constructor of
  `ExecutionState` makes no map and entering throws (`deep_statics` is a chart without it);
* `StatementsRespectScope`: a statement changes only variables it can see.  TLC
  evaluates both on `MCSimulator`;
* `NoDeadEnds`: the states that execution starts in, and those each transition leads to,
  have a transition out; TLC evaluates it on `MCSymbolic`;
* `BlocksContinue(N)`: with nodes from `N`, executing a block on a path answers paths, at
  least one of which continues the given one.  In the code it fails only for blocks with
  an expression statement or a `skip`, for which no node is answered.  The hypothesis
  quantifies over all paths; TLC evaluates it on `MCSymbolic` for the path at which
  execution starts (`BlocksContinueFrom(startnode)`), and `TriedPathsContinue` is its
  counterpart for the paths a run meets.
* `BlocksQuiet(N)`: with nodes from `N`, executing a block answers paths that continue the
  given one without entering or leaving states.  Statements add instruction and decision
  nodes only, so the code always has it; TLC evaluates `BlocksQuietFrom(startnode)`;
* `DistinctNames`, `AtomicSources`: no two states have one simple name, by which the engine
  tells them apart, and transitions leave atomic states, since leaving a composite one
  keeps its substates in `conf`.  TLC evaluates both on `MCSymbolic`;
* `MaxCalls = 1`: the program calls `execute` once, as `SymTest.java` does; a second
  call meets what the first left in `conf`;
* `[]GuardsExclude`, a hypothesis on the behaviour and not on the chart alone: whether guards
  exclude each other depends on the values along the paths.  It is an invariant of the run
  `symbolic`, and `SingleExits` (at most one transition out of a state) implies it.

| theorem | module | says |
|---|---|---|
| `TypeCorrectness` | `SimulatorProofs` | `Spec => []TypeOK` |
| `ActiveStatesNest` | `SimulatorProofs` | `Spec => []ActiveStatesEnclose` |
| `ConfigurationIsAStack` | `SimulatorProofs` | `Spec => StackDiscipline` |
| `ActiveStatesAreAChain` | `ConfigurationProofs` | `NoDeepStatics` implies `Spec => []ActiveChain` |
| `EnclosingStatesStayActive` | `ConfigurationProofs` | `NoDeepStatics` implies `Spec => []EnclosingStatesStay` |
| `LocalsLiveWithTheState` | `VariableProofs` | `NoDeepStatics` and `StatementsRespectScope` imply `Spec => []LocalsLiveWithTheirState` |
| `StaticsKeptWhileInactive` | `VariableProofs` | the same hypotheses imply `Spec => []InactiveStaticsKept`: an invariant between transitions; within one, an action may write statics of inactive states that are about to be entered |
| `SimulatorImplementsSteps` | `RefinementProofs` | `NoDeepStatics` implies `Spec => ImplementsSteps` |
| `TransitionsEndInAtomicStates` | `RefinementProofs` | `NoDeepStatics` implies that, whatever the histories, the state predicted while a transition runs is atomic and at or below its destination |
| `PathsAreKept` | `SymbolicProofs` | `NoDeadEnds` and `BlocksContinue(N)`, for some `N`, imply `Spec => NoPathLost` |
| `RoundsTakePathsDeeper` | `SymbolicStateProofs` | `BlocksQuiet(N)`, for some `N`, implies `Spec => RoundsDeepen` |
| `TransitionsFitTogether` | `SymbolicStateProofs` | `BlocksQuiet(N)`, `DistinctNames`, `AtomicSources` and `MaxCalls = 1` imply `Spec /\ []GuardsExclude => []PathsConsistent` |
| `ConfIsRightForAllPaths` | `SymbolicStateProofs` | the same hypotheses imply `Spec /\ []GuardsExclude => []LeavesAreConfigurations` |
| `SingleExitsSuffice` | `SymbolicStateProofs` | with `SingleExits` in addition, `Spec` alone implies both |

*Active states.*  `TypeOK` is not inductive: `ExitState` sets `current` to its
superstate, which is a state only because the loop has not yet passed the least upper
bound.  `ControlInv` says so: in the loop up, the bound is a superstate of `current` or
`current` itself; in the loop down, `path` is what remains of the way from the bound to
the destination.  The loop starts at or below
the bound because `get_valid_transition` searches only the transitions placed in `curr`
or a superstate of it, and the type checker places a transition in its least upper
bound.  `NestedInv` is about the configuration: the configuration lists, in order and
without repetition, some of the states from the root to the *cursor*, the innermost
state that can be active where the thread is (`current` in the loop up, the part of
the destination already entered in the loop down, the superstate of the state about to
be entered in `get_atomic_state`).  `HistoryInv` says that the history of a state is
one of its substates, so that `get_atomic_state` goes down.  `Inv` is the conjunction.
With `NoDeepStatics` every state with statics has saved values for ever
(`StaticsSaved`), no entry throws, and "some of the states" becomes "all the states"
(`ChainInv`); `FullInv` is that strengthening.  `StatechartProofs` has the facts about
prefixes and `lub` that both rest on.

*Variables.*  `VariableInv` relates the value environment to the configuration at every
state of the chart except the *pending* ones, those `performTransition` is about to
enter: the action has run by then and may have given their variables values, which
`enterState` is going to overwrite.  Between transitions nothing is pending.  With
`FullInv` it is inductive: leaving a state removes its locals and saves its statics,
entering sets both, and a statement changes only variables of active or pending states
(`StatementsRespectScope`).

*Refinement.*  `AtomicBelow`, where the step semantics says a transition ends, is a
recursive function over the tree.  `StatechartProofs` shows that its equation has a
solution when the histories are substates, that following it ends in an atomic state,
and that leaving the states one at a time gives the histories that the abstract step
predicts at once (`LeavingInSteps`).  The proof of `SimulatorImplementsSteps` then has
one step per action: choosing a transition is `Fire` (the transitions the search meets, those placed in
the current state or above, are all that have an active source: `SameEnabled`), taking an
event `Offer`, adding events at the
prompt `Extend`, stopping `End`, and everything else stutters, since each turn of the two
loops leaves the prediction as it was.  Besides `FullInv` it needs that the user is asked
only when there is no event (`PromptInv`).

*Paths.*  `PathInv(N)` has three parts: the lists hold paths of nodes from `N`
(`PathsTyped`); while the engine runs some transition leaves a state of `conf`
(`CanLeave`); and within a round every leaf is still on the agenda or is continued by a
path that is live or done (`LeavesAccounted`).  The last is what
`NoPathLost` needs when the round ends; the second makes the agenda hold every leaf when
it begins.  Most of the work is in the lemmas on the operators: the states entered and
left, and that works done one after the other on lists of live and finished paths
(`perform`, `onEach`, `JoinedAll`) continue every path they were given.  For
`RoundsDeepen` the same lemmas are used with another set of outcomes: a transition leaves
at least one state, whose exit node makes the path longer, and `RoundInv` remembers
within a round that the paths of the next one continue leaves of this one.

*States on paths.*  `StateInv` says where the paths are.  Between rounds, and while the
first states are entered, `conf` lists the chain of an atomic state, and what is not still
to be entered is active on every live path (`EnteredSoFar`); this needs that a state is not
listed twice, so that entering one never enters an active state.  Within a round all leaves
are at one atomic state `a`, every transition on the agenda leaves `a`, and either nothing
has been taken and `conf` is still the chain of `a`, or some transition has been, and `conf`
and all paths of the next round are at the atomic state it leads to (`RoundsAgree`).  The
second case is where `conf` is ahead of the leaves that are still to be tried.  It is kept
because the next transition that is taken leaves `a` too: `GuardsExclude` makes it the same
one, and `confAfter` adds nothing to what it did the first time.  The transitions on the
agenda are found by name, so `DistinctNames` makes their sources active states, and
`AtomicSources` makes these the only atomic state of the chain.  What a transition does to a
path is followed work by work: `Midway(t, i)` is the set of states active after `i` works of
`takeTransition`, from the chain of the source to that of the atomic state below the
destination (`MidwayEnds`), and each work leaves an active state or enters an inactive one
(`MidwaySteps`).

*Induction.*  The induction theorems of the library take an operator, which the
installed provers cannot instantiate.  Where a proof needs induction over the tree or a
list it takes a least counterexample instead: `WFMin` on the subsets of a finite set
(the states, or the numbers up to a bound) ordered by inclusion.  The recursive functions
get their equations the same way.

### Only model-checked

* The liveness properties (`TransitionCompletes`, `EventsAreTaken`, `ExecutionEnds`):
  fairness is out of the prover's reach.
* What `Interpreter`, `Typechecker`, `SymbolicEvaluator` and `ImperativeExecution`
  compute: they are recursive operators, and induction over programs is needed.  This is
  `ValuesTyped`, `ExpressionsTyped`, `AssignsInScope`, `SymbolicValuesSound`,
  `TriedPathsContinue`, `RoundsAreSteps`, `OnePathPerExecution`, `PathsDescribe`,
  `SymbolsFresh` and `SymbolicValuesTyped`.
* `GuardsExclude`, for a given chart: it depends on what its guards evaluate to along whole
  paths.

## 5. What is not modelled

* Lexer, parser, pretty printing, metrics: no state the properties are about.
* Polymorphic types and functions, type declarations, and the rules for shell, region
  and final states in the type checker (the simulator ignores these states).
* In the symbolic engine's solver: division, and solutions for symbols of type string or
  boolean.  A `BinaryExpression` with a missing operand counts as unreadable also where
  `z3` would accept the operator with one operand.  A `SymbolicExpression` without a right
  operand is written as its left operand, as `Solver.formula` does (`rightMissing`; the
  chart of `symbolic_ends` has one, `g + p` with an unset `p`); on charts that read unset
  variables `SymbolicValuesSound` need not hold, and the one of `symbolic` reads none.
* Structs in the simulator: a name with fields reads and writes the whole variable, as
  `ExecutionState.getValue` and `setValue` do; `Typechecker` has their types.
* Functions other than `input`: `EvaluateExpression` knows no other.
* `src/src/dfa/simulator/Configuration.java` does not compile, `CFGNode.java` beside
  it and `SymbolicEngine`'s numbering of inputs are read by nothing.
* `stablcfg`: classes of nodes and edges; no method of the repository makes a graph of
  them.  `see/SEE.java`, which would build a tree from a graph, is commented out, and
  `set/` imports packages the repository does not have.
* In the prototype: `and`, `or` and `=` take any two operands of one type in its type
  checker, so `and` of integers passes; the programs of the run have booleans there.  A
  bound of 0 (`evaluate.ml` passes positive ones), with which no declaration stops a
  path.
* External solvers, and the sources of Z3 under `src/src/dfa/z3-master`.  Those are a copy
  of another project and by far the most of the repository's lines; the engine uses the
  program `z3` as a process, and the model has what it answers.

## 6. Plan

1. (done) `Statechart`, `ExecutionState`, `Simulator`, `Interpreter`, the step
   semantics and its refinement, the proofs about the configuration.
2. (done) `Typechecker` beside `Interpreter`: typing and scope are preserved by execution.
   Left: regions and shells, polymorphic types.
3. (done) The symbolic engine with its solver, its rounds as steps of the chart, and what
   makes a path vanish.
4. (done) The prototype against a plain interpreter.
5. Left in the model: the type checker's rules for regions, shells and final states, and
   polymorphic types; more than one type for a symbol's name.
6. (done) Proofs: locals and saved statics under the hypothesis that statements respect
   their scope; the refinement; no path of the symbolic engine is lost.
7. (done) Proofs: `RoundsDeepen`; `PathsConsistent` and `LeavesAreConfigurations` under
   hypotheses on the chart and its guards.
8. Proofs left: that a second call of `execute` still ends with consistent paths on charts
   where the first one ends in the states it began with; conditions on guards, other than
   `SingleExits`, that imply `GuardsExclude`.
