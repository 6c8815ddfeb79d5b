-------------------------- MODULE SymbolicExecution --------------------------
(***************************************************************************)
(* symbolic_execution/SymbolicExecutionEngine.java: the symbolic execution *)
(* of a chart, breadth first.  Each round tries, for every live leaf, the  *)
(* transitions that leave the states of conf, and stops a leaf that is     *)
(* deeper than max_tree_depth.  conf is one static set for all leaves.     *)
(*                                                                         *)
(* A step is an iteration of one of the loops of execute.  What blocks of  *)
(* statements and the solver answer is a parameter that module             *)
(* SymbolicEvaluator gives.                                                *)
(***************************************************************************)
EXTENDS SymbolicTree

CONSTANTS
    all_ts,                 \* the transitions of all states, in order
    entry, exit,            \* State.entry and State.exit
    ExecuteBlock(_, _, _),  \* the results of a block from a leaf, max_depth
    Solve(_, _),            \* the solver's answers for a guard at a leaf
    Depths, TreeDepths,     \* what set_maxDepth may be called with
    MaxCalls                \* bound: calls of execute in one program

ASSUME EngineAssumption ==
    /\ all_ts \in Seq(Transitions) /\ Range(all_ts) = Transitions
    /\ Depths \subseteq Nat /\ TreeDepths \subseteq Nat /\ MaxCalls \in Nat

VARIABLES
    max_depth, max_tree_depth,  \* the static bounds
    conf,           \* LinkedHashSet<State>: the active states, static
    calls,          \* how often execute was called
    pc,
    leaves, done,   \* execute: live and finished nodes
    leaves_temp2,   \* execute: the live nodes of the next round
    entering,       \* execute: states of conf still to be entered
    agenda,         \* execute: pairs of a leaf and a transition still to be tried
    s               \* execute: the last answer of the solver

vars == <<max_depth, max_tree_depth, conf, calls, pc, leaves, done,
          leaves_temp2, entering, agenda, s>>

-----------------------------------------------------------------------------
(* Sets that keep the order of insertion.                                  *)

Added(c, sts) == c \o Kept(sts, States \ Range(c))

Removed(c, sts) == Kept(c, States \ Range(sts))

-----------------------------------------------------------------------------
(* States.                                                                 *)

get_all_states(st) ==
    LET below[x \in States] ==
            <<x>> \o FlattenSeq([i \in DOMAIN states[x] |-> below[states[x][i]]])
    IN  below[st]

(* The first substates, from below st down to an atomic state.             *)
firstSubstates(st) ==
    LET leaf == AtomicBelow(st, [x \in States |-> NoState])
    IN  [i \in 1 .. Len(leaf) - Len(st) |-> Prefix(leaf, Len(st) + i)]

(* Fault: the superstates are left out.                                    *)
upToItself(st, top) == <<st>>

(* st and its superstates as long as the next one is not called as top is:
   names are compared, not states.                                         *)
upTo(st, top) ==
    LET sameName == {n \in 1 .. Len(st) - 1 : Last(Prefix(st, n)) = Last(top)}
    IN  PathBelow(st, Prefix(st, Max(sameName)))

(* The transitions whose source is called as a state of c is.              *)
compute_outts(c) ==
    Kept(all_ts, {tr \in Transitions : \E st \in Range(c) : Last(st) = Last(tr.source)})

enterSuperstate(st, leaf) ==
    ExecuteBlock(entry[st],
                 initialize_variables(st, "local", StateEntryNode(st, leaf)),
                 max_depth)

enterSubstate(st, leaf) ==
    ExecuteBlock(entry[st],
                 initialize_variables(st, "parameter",
                     initialize_variables(st, "local", StateEntryNode(st, leaf))),
                 max_depth)

exitState(st, leaf) == ExecuteBlock(exit[st], StateExitNode(st, leaf), max_depth)

-----------------------------------------------------------------------------
(* takeTransition: the source and its superstates are left, the action is  *)
(* executed, the destination and its superstates are entered, the innermost*)
(* first, and then the first substates below the destination.              *)

Each(work, list) == [i \in DOMAIN list |-> [work |-> work, of |-> list[i]]]

worksOf(t) == Each("exit", upTo(t.source, t.state))
                  \o Each("action", <<t.action>>)
                  \o Each("enterSuperstate", upTo(t.destination, t.state))
                  \o Each("enterSubstate", firstSubstates(t.destination))

perform(w, leaf) ==
    CASE w.work = "exit"            -> exitState(w.of, leaf)
      [] w.work = "action"          -> ExecuteBlock(w.of, leaf, max_depth)
      [] w.work = "enterSuperstate" -> enterSuperstate(w.of, leaf)
      [] w.work = "enterSubstate"   -> enterSubstate(w.of, leaf)

(* What the nodes of a list result in, put together: rs[n] for the n-th.   *)
JoinedAll(rs) ==
    LET results[n \in 0 .. Len(rs)] ==
            IF n = 0 THEN {Result(<< >>, << >>)}
            ELSE {Joined(r1, r2) : r1 \in results[n - 1], r2 \in rs[n]}
    IN  results[Len(rs)]

onEach(w, nodes) == JoinedAll([i \in DOMAIN nodes |-> perform(w, nodes[i])])

(* Each work is done on all nodes the one before has left alive.           *)
takeTransition(t, leaf) ==
    LET works == worksOf(t)
        results[n \in 0 .. Len(works)] ==
            IF n = 0 THEN {Result(<< >>, <<leaf>>)}
            ELSE UNION {{Result(r1.done \o r2.done, r2.live)
                             : r2 \in onEach(works[n], r1.live)}
                        : r1 \in results[n - 1]}
    IN  results[Len(works)]

(* Fault: the source stays in the set.                                     *)
confKeepingSource(t) == Added(conf, upTo(t.destination, t.state)
                                        \o firstSubstates(t.destination))

confAfter(t) == Added(Removed(conf, upTo(t.source, t.state)),
                      upTo(t.destination, t.state)
                          \o firstSubstates(t.destination))

-----------------------------------------------------------------------------
(* execute.                                                                *)

Init ==
    /\ max_depth \in Depths /\ max_tree_depth \in TreeDepths
    /\ conf = << >> /\ calls = 0 /\ pc = "idle"
    /\ leaves = << >> /\ done = << >> /\ leaves_temp2 = << >>
    /\ entering = << >> /\ agenda = << >> /\ s = " "

(* The root of the tree with the static variables of all states.           *)
startnode ==
    LET all_states == get_all_states(Root)
        node[n \in 0 .. Len(all_states)] ==
            IF n = 0 THEN << >>
            ELSE initialize_variables(all_states[n], "static", node[n - 1])
    IN  node[Len(all_states)]

(* The call: statics are initialised, the statechart and its first substates
   are added to conf, which keeps what an earlier call left in it.         *)
Start ==
    /\ pc = "idle" /\ calls < MaxCalls
    /\ calls' = calls + 1
    /\ conf' = Added(conf, <<Root>> \o firstSubstates(Root))
    /\ leaves' = <<startnode>>
    /\ entering' = conf'
    /\ done' = << >> /\ s' = " "
    /\ pc' = "enter"
    /\ UNCHANGED <<max_depth, max_tree_depth, leaves_temp2, agenda>>

(* A state of conf is entered on every leaf, up to the first that does not
   survive it.                                                             *)
entered(st) ==
    LET results[n \in 0 .. Len(leaves)] ==
            IF n = 0 THEN {[broken |-> FALSE, res |-> Result(<< >>, << >>)]}
            ELSE UNION {IF b.broken THEN {b}
                        ELSE {[broken |-> r.live = << >>, res |-> Joined(b.res, r)]
                                  : r \in enterSubstate(st, leaves[n])}
                        : b \in results[n - 1]}
    IN  {b.res : b \in results[Len(leaves)]}

EnterInitial ==
    /\ pc = "enter" /\ entering # << >>
    /\ \E r \in entered(Head(entering)) :
           /\ done' = done \o r.done
           /\ leaves' = r.live
    /\ entering' = Tail(entering)
    /\ UNCHANGED <<max_depth, max_tree_depth, conf, calls, pc, leaves_temp2,
                   agenda, s>>

(* Every leaf with every transition, in the order of the two loops.        *)
tried(ls, out_ts) ==
    FlattenSeq([i \in DOMAIN ls |-> [j \in DOMAIN out_ts |-> <<ls[i], out_ts[j]>>]])

(* The body of the main loop begins with the leaves and the transitions.   *)
StartRound ==
    /\ pc = "enter" /\ entering = << >> /\ leaves # << >>
    /\ agenda' = tried(leaves, compute_outts(conf))
    /\ leaves_temp2' = << >>
    /\ pc' = "try"
    /\ UNCHANGED <<max_depth, max_tree_depth, conf, calls, leaves, done, entering, s>>

Return ==
    /\ pc = "enter" /\ entering = << >> /\ leaves = << >>
    /\ pc' = "idle"
    /\ UNCHANGED <<max_depth, max_tree_depth, conf, calls, leaves, done,
                   leaves_temp2, entering, agenda, s>>

(* The solver is asked; when it cannot be run, the answer it gave before is
   taken for the new one.                                                  *)
Ask(t, leaf) == \E answer \in Solve(t.guard, leaf) :
                    s' = IF answer = "IOException" THEN s ELSE answer

(* One leaf and one transition.                                            *)
TryTransition ==
    /\ pc = "try" /\ agenda # << >>
    /\ LET leaf == Head(agenda)[1]
           t == Head(agenda)[2]
       IN  /\ Ask(t, leaf)
           /\ \/ /\ s' = "sat"
                 /\ \E r \in takeTransition(t, leaf) :
                        /\ done' = done \o r.done
                        /\ leaves_temp2' = leaves_temp2 \o r.live
                 /\ conf' = confAfter(t)
              \/ /\ s' # "sat"
                 /\ done' = Append(done, leaf)
                 /\ UNCHANGED <<leaves_temp2, conf>>
    /\ agenda' = Tail(agenda)
    /\ UNCHANGED <<max_depth, max_tree_depth, calls, pc, leaves, entering>>

(* Fault: one node more than the bound.                                    *)
tooDeepByTwo == {l \in Range(leaves_temp2) : treedepth(l) > max_tree_depth + 1}

(* The nodes of the next round that are deeper than the bound.             *)
tooDeep == {l \in Range(leaves_temp2) : treedepth(l) > max_tree_depth}

(* Fault: the leaves live on when there is no transition to try.           *)
EndRoundIdle ==
    /\ pc = "try" /\ agenda = << >>
    /\ done' = done \o Kept(leaves_temp2, tooDeep)
    /\ leaves' = IF compute_outts(conf) = << >> THEN leaves
                 ELSE Kept(leaves_temp2, Range(leaves_temp2) \ tooDeep)
    /\ leaves_temp2' = << >>
    /\ pc' = "enter"
    /\ UNCHANGED <<max_depth, max_tree_depth, conf, calls, entering, agenda, s>>

(* The deep leaves are done, the others live on.  A leaf for which there was
   no transition to try is in neither list.                                *)
EndRound ==
    /\ pc = "try" /\ agenda = << >>
    /\ done' = done \o Kept(leaves_temp2, tooDeep)
    /\ leaves' = Kept(leaves_temp2, Range(leaves_temp2) \ tooDeep)
    /\ leaves_temp2' = << >>
    /\ pc' = "enter"
    /\ UNCHANGED <<max_depth, max_tree_depth, conf, calls, entering, agenda, s>>

(* No further call is made.                                                *)
Finished == pc = "idle" /\ calls = MaxCalls /\ UNCHANGED vars

Compute == EnterInitial \/ StartRound \/ Return \/ TryTransition \/ EndRound

Next == Start \/ Compute \/ Finished

Spec == Init /\ [][Next]_vars

(* execute runs on its own once it is called, and every run of z3 ends.    *)
FairSpec == Spec /\ WF_vars(Compute)

-----------------------------------------------------------------------------
(* What symbolic execution should guarantee.                               *)

(* The states that are active on a path: entered and not left since.       *)
ActiveOn(leaf) ==
    {st \in States :
        \E i \in DOMAIN leaf :
            /\ leaf[i].node = "entry" /\ leaf[i].s = st
            /\ \A j \in i + 1 .. Len(leaf) :
                   ~(leaf[j].node = "exit" /\ leaf[j].s = st)}

(* On every path a state is entered only while it is inactive and left only
   while it is active: the transitions taken on a path fit together.       *)
PathConsistent(leaf) ==
    \A i \in DOMAIN leaf :
        /\ leaf[i].node = "entry" => leaf[i].s \notin ActiveOn(Prefix(leaf, i - 1))
        /\ leaf[i].node = "exit" => leaf[i].s \in ActiveOn(Prefix(leaf, i - 1))

Nodes == Range(leaves) \cup Range(leaves_temp2) \cup Range(done)

(* The transitions taken on a path fit together, though they are looked for
   in the one set conf: takeTransition leaves what an earlier one entered. *)
PathsConsistent == \A leaf \in Nodes : PathConsistent(leaf)

(* Between two rounds conf has the states that are active on each live path,
   and these are an atomic state and its superstates, as StaBL's semantics
   has them after a transition.                                            *)
LeavesAreConfigurations ==
    pc = "enter" /\ entering = << >> =>
        \A leaf \in Range(leaves) :
            /\ ActiveOn(leaf) = Range(conf)
            /\ \E st \in States : isAtomic(st) /\ ActiveOn(leaf) = Range(Chain(st))

(* Symbolic execution ends, however the chart loops and whatever the solver
   answers or fails to answer.                                             *)
ExecutionEnds == pc = "enter" ~> pc = "idle"

(* No path is dropped: at the end of a round every leaf it began with is a
   finished node or has a successor, live or finished.                     *)
NoPathLost ==
    [][pc = "try" /\ agenda = << >> =>
           \A leaf \in Range(leaves) :
               \E l \in Range(done') \cup Range(leaves') : IsPrefix(leaf, l)]_vars

(* What NoPathLost asks of a chart, for EndRound drops what there was no
   transition to try for: the states a program starts in, and those every
   transition leads to, can be left.                                       *)
NoDeadEnds ==
    /\ compute_outts(<<Root>> \o firstSubstates(Root)) # << >>
    /\ \A t \in Transitions :
           compute_outts(upTo(t.destination, t.state)
                             \o firstSubstates(t.destination)) # << >>

(* What it asks of the blocks: each result has a node, live or finished, that
   the given one leads to.  A statement that is an expression or skip has
   none (executeInstruction).                                              *)
Blocks == {entry[st] : st \in States} \cup {exit[st] : st \in States}
              \cup {t.action : t \in Transitions}

Reached(r) == Range(r.done) \cup Range(r.live)

Continues(r, leaf) == \E l \in Reached(r) : IsPrefix(leaf, l)

BlocksContinueFrom(leaf) ==
    \A b \in Blocks, md \in Depths :
        \A r \in ExecuteBlock(b, leaf, md) : Continues(r, leaf)

(* A round takes the paths deeper: each live path that comes out of it goes on
   from one it began with, by a node at least, and is within the bound.
   Rounds cannot go on for ever, then.                                     *)
RoundsDeepen ==
    [][pc = "try" /\ agenda = << >> =>
           \A l2 \in Range(leaves') :
               /\ treedepth(l2) <= max_tree_depth
               /\ \E l1 \in Range(leaves) :
                      IsPrefix(l1, l2) /\ treedepth(l1) < treedepth(l2)]_vars

(* What the set conf, one for all paths, asks of a chart: states are told
   apart by their simple names, and transitions leave atomic states.       *)
DistinctNames == \A s1, s2 \in States : Last(s1) = Last(s2) => s1 = s2

AtomicSources == \A t \in Transitions : isAtomic(t.source)

(* What it asks of the guards: the live paths of a round agree on the
   transition to take.  Of two transitions that leave one state at most one
   may be taken, on one path or on two; when the solver fails, any may.    *)
MayTake(t, leaf) == Solve(t.guard, leaf) \cap {"sat", "IOException"} # {}

GuardsExclude ==
    pc = "try" =>
        \A l1, l2 \in Range(leaves) :
            \A t1 \in Transitions, t2 \in Transitions :
                (/\ t1.source = t2.source
                 /\ t1.source \in ActiveOn(l1) \cap ActiveOn(l2)
                 /\ MayTake(t1, l1) /\ MayTake(t2, l2))
                    => t1 = t2

(* What it asks of the blocks: they neither enter nor leave states.        *)
Quiet(leaf, l) ==
    /\ IsPrefix(leaf, l)
    /\ \A i \in Len(leaf) + 1 .. Len(l) : l[i].node \notin {"entry", "exit"}

BlocksQuietFrom(leaf) ==
    \A b \in Blocks, md \in Depths :
        \A r \in ExecuteBlock(b, leaf, md) : \A l \in Reached(r) : Quiet(leaf, l)

-----------------------------------------------------------------------------
(* What a comment says of takeTransition, and the code does not do.        *)

StateNodes(leaf) == SelectSeq(leaf, LAMBDA n : n.node \in {"entry", "exit"})

(* The comment in takeTransition says that below a destination with a history
   mark the substate that was active at its last exit is entered.          *)
HistoryResumed ==
    \A leaf \in Nodes :
        LET ns == StateNodes(leaf)
        IN  \A i \in 2 .. Len(ns) :
                LET d == ns[i - 1].s
                    exits == {j \in 1 .. i - 1 : /\ ns[j].node = "exit"
                                                 /\ getSuperstate(ns[j].s) = d}
                IN  (/\ d \in HistoryStates /\ ns[i - 1].node = "entry"
                     /\ ns[i].node = "entry" /\ getSuperstate(ns[i].s) = d
                     /\ exits # {})
                        => ns[i].s = ns[Max(exits)].s
=============================================================================
