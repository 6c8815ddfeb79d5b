---------------------------- MODULE SymbolicTree ----------------------------
(***************************************************************************)
(* The nodes of the symbolic execution tree (symbolic_execution/se_tree).  *)
(*                                                                         *)
(* A node points to its parent only, so it is represented by the sequence  *)
(* of the nodes on the way to it, the node made last at the end: parent is *)
(* Front, treedepth is Len, and the node of the constructor SETNode(null)  *)
(* is the empty sequence.                                                  *)
(*                                                                         *)
(* SymbolicExpression and SymVars add three kinds of expression to those   *)
(* of the action language: "symbolic" with two operands, "unary" with the  *)
(* operator "!" or " " (none), and "symvar".                               *)
(***************************************************************************)
EXTENDS Statechart, ActionLanguage

CONSTANTS
    vname,      \* Declaration.vname: the name of a variable within its state
    typeName    \* Declaration.typeName

BasicTypes == {"int", "string", "boolean"}

ASSUME VariableAssumption ==
    DOMAIN vname = Declarations /\ DOMAIN typeName = Declarations

-----------------------------------------------------------------------------
(* SymbolicExpression and SymVars.                                         *)

Symbolic(l, op, r) == [kind |-> "symbolic", operator |-> op, left |-> l, right |-> r]

Unary(op, e) == [kind |-> "unary", operator |-> op, left |-> e]

(* The symbol for what is read into d has the name of d with "_1": there is
   one for a name, however often and in whatever state it is read into.    *)
SymVar(d) == [kind |-> "symvar", name |-> vname[d], type |-> typeName[d]]

(* evaluate_exp of InstructionNode: the expression is kept as it is written,
   a call of a function is a symbol.                                       *)
evaluate_exp(d, e) == CASE e.kind = "binary" -> Symbolic(e.left, e.operator, e.right)
                        [] e.kind = "call"   -> Unary(" ", SymVar(d))
                        [] OTHER             -> Unary(" ", e)

-----------------------------------------------------------------------------
(* The constructors of the nodes.                                          *)

Instruction(d, e) ==
    [node |-> "instruction", variable |-> d, expression |-> evaluate_exp(d, e)]

InstructionNode(d, e, leaf) == Append(leaf, Instruction(d, e))

StateEntryNode(st, leaf) == Append(leaf, [node |-> "entry", s |-> st])

StateExitNode(st, leaf) == Append(leaf, [node |-> "exit", s |-> st])

(* value is the condition, which nothing reads.                            *)
DecisionNode(c, leaf) == Append(leaf, [node |-> "decision", value |-> c])

treedepth(leaf) == Len(leaf)

depth(leaf) == Cardinality({i \in DOMAIN leaf : leaf[i].node = "instruction"})

-----------------------------------------------------------------------------
(* initialize_variables: the variables of one scope, of the types that have
   an initial value.                                                       *)

initialValue(d) == CASE typeName[d] = "int"     -> IntC(0)
                     [] typeName[d] = "string"  -> StrC(" ")
                     [] typeName[d] = "boolean" -> BoolC(FALSE)

(* The elements of q that are in S, in their order.                        *)
Kept(q, S) ==
    LET kept[n \in 0 .. Len(q)] == IF n = 0 THEN << >>
                                   ELSE IF q[n] \in S THEN Append(kept[n - 1], q[n])
                                   ELSE kept[n - 1]
    IN  kept[Len(q)]

initialize_variables(st, sc, leaf) ==
    LET ds == Kept(declarations[st], {d \in Declarations : /\ scope[d] = sc
                                                           /\ typeName[d] \in BasicTypes})
    IN  leaf \o [i \in DOMAIN ds |-> Instruction(ds[i], Const(initialValue(ds[i])))]

-----------------------------------------------------------------------------
(* SymbolicExecutionResult.                                                *)

Result(d, l) == [done |-> d, live |-> l]

Joined(r1, r2) == Result(r1.done \o r2.done, r1.live \o r2.live)
=============================================================================
