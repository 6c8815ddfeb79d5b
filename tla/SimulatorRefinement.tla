------------------------- MODULE SimulatorRefinement -------------------------
(***************************************************************************)
(* The simulator implements the step semantics: the whole of a transition  *)
(* is the step in which get_valid_transition finds it, and what follows    *)
(* carries that step out.  The mapping computes, from the state in the     *)
(* middle of a transition, where the transition will end.                  *)
(***************************************************************************)
EXTENDS Simulator

Gone == pc \in {"halted", "stopped"}

NoHistoryYet == [s \in States |-> NoState]

(* The history once the exits that are still to come have been made.       *)
HistoryToCome == CASE Gone        -> NoHistoryYet
                   [] pc = "exit" -> HistoryAfterLeaving(current, Top, stateHistory)
                   [] OTHER       -> stateHistory

(* The atomic state that get_atomic_state is going to return.              *)
LeafToCome ==
    CASE Gone                      -> NoState
      [] pc \in {"exit", "enter"}  -> AtomicBelow(t.destination, HistoryToCome)
      [] pc = "get_atomic_state"   -> AtomicBelow(current, HistoryToCome)
      [] OTHER                     -> curr

Phase == CASE Gone                                   -> "gone"
           [] pc \in {"nextLine", "prompt", "search"} -> "offered"
           [] OTHER                                  -> "idle"

(* The guards that hold, as long as the search is still to come.           *)
Open == IF Phase = "offered"
        THEN {tr \in Transitions : Evaluate(tr.guard, valueEnvironment) = True}
        ELSE {}

Steps == INSTANCE StepSemantics WITH
             leaf <- LeafToCome, history <- HistoryToCome,
             queue <- eventQueue, phase <- Phase, open <- Open

(* Every behaviour of the simulator is one of the step semantics: events are
   taken in order and one at a time, a null transition is taken only when the
   event enables none, a transition leaves and enters what it should however
   many steps that takes, and history states are resumed in the substate
   they were left from.                                                    *)
ImplementsSteps == Steps!Spec
=============================================================================
