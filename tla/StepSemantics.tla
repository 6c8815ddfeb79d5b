---------------------------- MODULE StepSemantics ----------------------------
(***************************************************************************)
(* What the simulator promises of the states of a chart: a statechart is   *)
(* in one atomic state, takes the events in order, and a transition is one *)
(* step, from an atomic state to the atomic state its destination and the  *)
(* history of the states below it determine.  Of the values it only says   *)
(* which guards hold when an event is offered.                             *)
(***************************************************************************)
EXTENDS Statechart

CONSTANTS NullEvent

VARIABLES
    leaf,       \* the atomic state the chart is in
    history,    \* for each state, the substate it was last left from
    queue,      \* the events to come
    event,      \* the event taken last
    phase,      \* "idle", "offered" (an event is taken), or "gone"
    open        \* while an event is offered, the transitions whose guards hold

vars == <<leaf, history, queue, event, phase, open>>

NoStatesYet == [s \in States |-> NoState]

Init ==
    /\ history = NoStatesYet
    /\ leaf = AtomicBelow(Root, NoStatesYet)
    /\ queue = events
    /\ event = NullEvent
    /\ phase = "idle" /\ open = {}

(* The next event is taken, the null event when there is none.             *)
Offer ==
    /\ phase = "idle" /\ phase' = "offered"
    /\ \/ queue = << >> /\ event' = NullEvent /\ queue' = << >>
       \/ queue # << >> /\ event' = Head(queue) /\ queue' = Tail(queue)
    /\ open' \in SUBSET Transitions
    /\ UNCHANGED <<leaf, history>>

(* The user adds events in place of a null event; the oldest is taken.     *)
Extend ==
    /\ phase = "offered" /\ event = NullEvent
    /\ IsPrefix(queue, <<event'>> \o queue')
    /\ UNCHANGED <<leaf, history, phase, open>>

(* What is enabled for an event.                                           *)
Enabled(e) == {tr \in open : tr.source \in Range(Chain(leaf)) /\ tr.trigger = e}

(* The one transition that is enabled for the event at hand fires, or, only
   when there is none, the one that is enabled for the null event.         *)
Fire(tr) ==
    /\ phase = "offered" /\ phase' = "idle"
    /\ \/ Enabled(event) = {tr}
       \/ Enabled(event) = {} /\ Enabled(NullEvent) = {tr}
    /\ open' = {}
    /\ history' = HistoryAfterLeaving(leaf, tr.state, history)
    /\ leaf' = AtomicBelow(tr.destination, history')
    /\ UNCHANGED <<queue, event>>

(* The program ends and the state of the chart with it.                    *)
End ==
    /\ phase' = "gone" /\ leaf' = NoState /\ history' = NoStatesYet /\ open' = {}
    /\ UNCHANGED <<queue, event>>

Next == Offer \/ Extend \/ (\E tr \in Transitions : Fire(tr)) \/ End

Spec == Init /\ [][Next]_vars
=============================================================================
