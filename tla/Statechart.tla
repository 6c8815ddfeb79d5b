----------------------------- MODULE Statechart -----------------------------
(***************************************************************************)
(* The abstract syntax of a StaBL statechart (package ast) as the          *)
(* simulator sees it once the front end has parsed and type checked it.    *)
(*                                                                         *)
(* A state is identified with its fully qualified name, the sequence of    *)
(* identifiers that State.getFullName joins with dots: sibling states have *)
(* different names (Typechecker.checkNameDuplication), so the name         *)
(* determines the State object.  The superstate of a state is then the     *)
(* name without its last identifier, the empty name stands for null, and   *)
(* the superstates of a state are its proper prefixes.                     *)
(***************************************************************************)
EXTENDS Integers, Sequences, FiniteSets, SequencesExt

CONSTANTS
    Identifiers,    \* the identifiers states are named with
    States,         \* every state of the chart, the statechart itself included
    Root,           \* the Statechart object, the outermost state
    states,         \* State.states: the substates of a state, in order
    HistoryStates,  \* the states whose history flag is set
    Declarations,   \* the variable declarations of all states
    declarations,   \* State.declarations: those of one state, in order
    scope,          \* Declaration.getScope: "local", "static" or "parameter"
    Transitions,    \* the transitions, records with the fields of Transition
    events          \* Statechart.events: the declared events, in order

-----------------------------------------------------------------------------
(* The tree of states.                                                     *)

NoState == << >>    \* a null State reference

Prefix(s, n) == SubSeq(s, 1, n)

getSuperstate(s) == Prefix(s, Len(s) - 1)

(* A state with the states that enclose it, outermost first: the states
   that are active together when s is the innermost active state.          *)
Chain(s) == [i \in 1 .. Len(s) |-> Prefix(s, i)]

getAllSuperstates(s) == Chain(getSuperstate(s))

isAncestor(a, s) == a \in Range(getAllSuperstates(s))

isAtomic(s) == states[s] = << >>

(* Statechart.lub pops equal heads off the two lists of superstates and
   answers the last pair popped, null when there is none.                  *)
lub(s1, s2) ==
    LET a1 == getAllSuperstates(s1)
        a2 == getAllSuperstates(s2)
        popped == {n \in 0 .. Len(a1) : /\ n <= Len(a2)
                                        /\ \A i \in 1 .. n : a1[i] = a2[i]}
        n == Max(popped)
    IN  IF n = 0 THEN NoState ELSE a1[n]

(* The states performTransition collects from the destination upwards,
   the destination first, the outermost state below top last.              *)
PathBelow(s, top) ==
    [i \in 1 .. (Len(s) - Len(top)) |-> Prefix(s, Len(s) - i + 1)]

-----------------------------------------------------------------------------
(* Histories: for each state, the substate it was last left from.          *)

(* The atomic state reached when s is entered with history h.              *)
AtomicBelow(s, h) ==
    LET atomic[x \in States] ==
            IF isAtomic(x) THEN x
            ELSE IF x \in HistoryStates /\ h[x] # NoState THEN atomic[h[x]]
            ELSE atomic[Head(states[x])]
    IN  atomic[s]

(* History once the states from s up to below top are left.                *)
HistoryAfterLeaving(s, top, h) ==
    LET left == Range(PathBelow(s, top))
    IN  [x \in States |-> IF \E c \in left : getSuperstate(c) = x
                          THEN CHOOSE c \in left : getSuperstate(c) = x
                          ELSE h[x]]

-----------------------------------------------------------------------------
(* Declarations and the environments statements are type checked in.  An   *)
(* Environment is a chain of declaration lists; what matters here is the   *)
(* set of declarations it reaches.                                         *)

Declared(s) == Range(declarations[s])

Scoped(s, sc) == {d \in Declared(s) : scope[d] = sc}

(* State.getEnvironment: the declarations of the state and its superstates. *)
getEnvironment(s) == UNION {Declared(a) : a \in Range(Chain(s))}

(* Transition.getWriteEnvironment: the parameters of the destination, every
   variable of the states between it and the state the transition is placed
   in, and that state's whole environment.                                 *)
getWriteEnvironment(t) ==
    Scoped(t.destination, "parameter")
        \cup getEnvironment(getSuperstate(t.destination))

(* Transition.getReadOnlyEnvironment: source.getEnvironment() cut off below
   the environment of the state the transition is placed in.               *)
getReadOnlyEnvironment(t) ==
    UNION {Declared(a) : a \in Range(PathBelow(t.source, t.state))}

-----------------------------------------------------------------------------
(* What the parser builds and the type checker accepts.                    *)

(* The constructor State(...) sets the superstate of every state in its
   list, and checkNameDuplication rejects two substates of one name.       *)
TreeWellFormed ==
    /\ States \subseteq Seq(Identifiers) \ {NoState}
    /\ IsFiniteSet(States)
    /\ Root \in States /\ Len(Root) = 1
    /\ \A s \in States : /\ Prefix(s, 1) = Root
                         /\ \A n \in 1 .. Len(s) : Prefix(s, n) \in States
    /\ states \in [States -> Seq(States)]
    /\ \A s \in States : Range(states[s]) = {c \in States : getSuperstate(c) = s}
    /\ HistoryStates \subseteq States

(* Every declaration belongs to one state (DeclarationList.setState).      *)
DeclarationsWellFormed ==
    /\ declarations \in [States -> Seq(Declarations)]
    /\ scope \in [Declarations -> {"local", "static", "parameter"}]
    /\ \A d \in Declarations : \E s \in States : d \in Declared(s)
    /\ \A s1, s2 \in States :
           s1 # s2 => Declared(s1) \cap Declared(s2) = {}

(* The transitions of a state are a list of the parser's.
   Typechecker.typecheckTransition: the source and the destination have a
   least upper bound and the transition is placed in it; typecheckTrigger:
   its trigger is a declared event.                                        *)
TransitionsWellPlaced ==
    /\ IsFiniteSet(Transitions)
    /\ \A t \in Transitions :
           /\ t.source \in States
           /\ t.destination \in States
           /\ lub(t.source, t.destination) # NoState
           /\ t.state = lub(t.source, t.destination)
           /\ t.trigger \in Range(events)

(* The parser rejects an event that is declared twice.                     *)
EventsDistinct == IsInjective(events)

ASSUME EventAssumption == EventsDistinct
ASSUME TreeAssumption == TreeWellFormed
ASSUME DeclarationAssumption == DeclarationsWellFormed
ASSUME TransitionAssumption == TransitionsWellPlaced
=============================================================================
