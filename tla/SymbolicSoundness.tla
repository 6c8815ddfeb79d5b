-------------------------- MODULE SymbolicSoundness --------------------------
(***************************************************************************)
(* The symbolic values of variables against a concrete execution of the    *)
(* assignments on a path, and the engine's parameters given by the         *)
(* evaluator.                                                              *)
(***************************************************************************)
EXTENDS SymbolicExecution, SymbolicEvaluator

MCExecuteBlock(block, leaf, md) == executeBlock(block, leaf, md)
MCSolve(guard, leaf) == solve(sym_eval(guard, leaf), leaf)

(* The values after the assignments on the way to a leaf, executed one after
   the other with the symbols' values for what is read.                    *)
RECURSIVE Replay(_, _)
Replay(leaf, val) ==
    IF leaf = << >> THEN [d \in Declarations |-> Null]
    ELSE LET env == Replay(Front(leaf), val)
             n == Last(leaf)
         IN  IF n.node # "instruction" THEN env
             ELSE [env EXCEPT ![n.variable] = meaning(n.expression, val, env)]

(* At every node, what sym_eval finds for a variable by looking back along
   the path denotes, for all values of the symbols, the value the variable
   has when the assignments of the path are executed in order.             *)
SymbolicValuesSound ==
    \A leaf \in Nodes : \A val \in Valuations(leaf) :
        LET values == Replay(leaf, val)
        IN  \A d \in Declarations :
                meaning(sym_eval(Var(d), leaf), val, NoNames) = values[d]

-----------------------------------------------------------------------------
(* Paths against the semantics of transitions.                             *)

(* st is the atomic state below d that first substates lead to.            *)
InitialBelow(d, st) ==
    /\ isAtomic(st) /\ IsPrefix(d, st)
    /\ \A n \in Len(d) .. Len(st) - 1 : Prefix(st, n + 1) = Head(states[Prefix(st, n)])

StatesIn(nodes, kind) ==
    LET ns == SelectSeq(nodes, LAMBDA n : n.node = kind)
    IN  [i \in DOMAIN ns |-> ns[i].s]

(* What leads from l1 to l2 is transition t, from one atomic state to another:
   the states below the transition's state are left, innermost first, and
   entered, each once, and the first entry comes after the last exit; and the
   guard holds for some values of the symbols.                             *)
IsStep(l1, t, l2) ==
    LET new == SubSeq(l2, Len(l1) + 1, Len(l2))
        entries == StatesIn(new, "entry")
        exits == StatesIn(new, "exit")
        moves == SelectSeq(new, LAMBDA n : n.node \in {"entry", "exit"})
    IN  /\ \E from \in States :
               /\ isAtomic(from) /\ ActiveOn(l1) = Range(Chain(from))
               /\ t.source \in ActiveOn(l1)
               /\ exits = PathBelow(from, t.state)
        /\ \E to \in States :
               /\ InitialBelow(t.destination, to)
               /\ Range(entries) = Range(PathBelow(to, t.state))
               /\ Len(entries) = Len(to) - Len(t.state)
        /\ \A i \in DOMAIN exits : moves[i].node = "exit"
        /\ \E val \in Valuations(l1) : meaning(t.guard, val, Replay(l1, val)) = TRUE

(* A round takes every path that lives on by exactly one transition of the
   chart, which the path enables, although transitions are looked for in a
   set that all paths share and change, and states are found by name.      *)
RoundsAreSteps ==
    [][pc = "try" /\ agenda = << >> =>
           \A l2 \in Range(leaves') :
               \E l1 \in Range(leaves) : \E t \in Transitions :
                   IsPrefix(l1, l2) /\ IsStep(l1, t, l2)]_vars

-----------------------------------------------------------------------------

(* The statements takeTransition executes for t.                           *)
StatementsOf(t) ==
    {t.action} \cup {exit[st] : st \in Range(upTo(t.source, t.state))}
               \cup {entry[st] : st \in Range(upTo(t.destination, t.state)
                                                \o firstSubstates(t.destination))}

NewNodes(list, new) == Range(SubSeq(new, Len(list) + 1, Len(new)))

(* A path vanishes only by an expression statement or skip: to try any other
   transition on a leaf leaves a node that continues it, finished or live,
   whatever branches are taken, bounds reached and runs of z3 failed on the
   way.                                                                    *)
TriedPathsContinue ==
    [][pc = "try" /\ agenda # << >> =>
           \/ \E l \in NewNodes(done, done') \cup NewNodes(leaves_temp2, leaves_temp2') :
                  IsPrefix(Head(agenda)[1], l)
           \/ \E s2 \in StatementsOf(Head(agenda)[2]) : answersNoNode(s2)]_vars
=============================================================================
