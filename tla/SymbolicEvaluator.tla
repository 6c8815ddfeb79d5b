-------------------------- MODULE SymbolicEvaluator --------------------------
(***************************************************************************)
(* The part of symbolic_execution/SymbolicExecutionEngine.java that works  *)
(* on one leaf, statements and expressions, and symbolic_execution/        *)
(* Solver.java.                                                            *)
(*                                                                         *)
(* The solver may fail to run, so an operation has a set of results.       *)
(***************************************************************************)
EXTENDS SymbolicTree, JavaValues

CONSTANTS
    SolverInts,     \* the integers among which solutions are looked for
    SolverMayFail   \* running z3 may throw an IOException

(* SymVars.symvarslist has one type for a name, that of the symbol made last:
   symbols are declared to z3 with their own type if no two variables have
   one name and different types.                                           *)
ASSUME SymbolAssumption ==
    \A d1, d2 \in Declarations : vname[d1] = vname[d2] => typeName[d1] = typeName[d2]

-----------------------------------------------------------------------------
(* sym_eval.                                                               *)

Updates(leaf, d) ==
    {i \in DOMAIN leaf : leaf[i].node = "instruction" /\ leaf[i].variable = d}

(* A name stands for the expression assigned last on the way to the leaf,
   and the names in that for what they stood for then; for null when nothing
   was assigned.                                                           *)
RECURSIVE sym_eval(_, _)

(* Fault: the oldest assignment is found.                                  *)
backtrackFirst(d, leaf) ==
    IF Updates(leaf, d) = {} THEN Null
    ELSE LET i == Min(Updates(leaf, d))
         IN  sym_eval(leaf[i].expression, Prefix(leaf, i - 1))

backtrack(d, leaf) ==
    IF Updates(leaf, d) = {} THEN Null
    ELSE LET i == Max(Updates(leaf, d))
         IN  sym_eval(leaf[i].expression, Prefix(leaf, i - 1))

sym_eval(e, leaf) ==
    CASE e.kind \in {"binary", "symbolic"} ->
             [e EXCEPT !.left = sym_eval(@, leaf), !.right = sym_eval(@, leaf)]
      [] e.kind = "unary" -> [e EXCEPT !.left = sym_eval(@, leaf)]
      [] e.kind \in {"const", "symvar"} -> e
      [] e.kind = "name" -> backtrack(e.declaration, leaf)
      [] OTHER -> Null

-----------------------------------------------------------------------------
(* Solver: the text of a formula, and what z3 makes of it.                 *)

(* A SymbolicExpression whose right operand is null is written as its left
   operand: formula takes it for one that was made without an operator.    *)
rightMissing(e) == e.kind = "symbolic" /\ e.right = Null

(* formula puts no space between the operator of a BinaryExpression and its
   left operand, but for the connectives and the inequality: z3 reads the
   two as one symbol unless the operand begins with a parenthesis.         *)
RECURSIVE beginsWithParenthesis(_)
beginsWithParenthesis(e) ==
    CASE e = Null          -> FALSE
      [] e.kind = "unary"  -> e.operator = "!" \/ beginsWithParenthesis(e.left)
      [] rightMissing(e)   -> beginsWithParenthesis(e.left)
      [] OTHER             -> e.kind \in {"binary", "symbolic"}

SpacedOperators == {"||", "&&", "!="}

(* z3 can read the formula: no operand is missing where one is written,
   operators are told from operands, and the symbols are declared, which
   conversion does for two of the three types (it looks for "bool", the type
   is "boolean").                                                          *)
RECURSIVE formulaReadable(_)
formulaReadable(e) ==
    CASE e = Null            -> FALSE
      [] e.kind = "symvar"   -> e.type \in {"int", "string"}
      [] e.kind = "const"    -> TRUE
      [] e.kind = "unary"    -> formulaReadable(e.left)
      [] e.kind = "symbolic" -> /\ formulaReadable(e.left)
                                /\ rightMissing(e) \/ formulaReadable(e.right)
      [] e.kind = "binary"   -> /\ formulaReadable(e.left) /\ formulaReadable(e.right)
                                /\ \/ e.operator \in SpacedOperators
                                   \/ beginsWithParenthesis(e.left)

apply(op, a, b) ==
    CASE op = "+"  -> a + b
      [] op = "-"  -> a - b
      [] op = "*"  -> a * b
      [] op = "<"  -> a < b
      [] op = "<=" -> a <= b
      [] op = ">"  -> a > b
      [] op = ">=" -> a >= b
      [] op = "="  -> a = b
      [] op = "!=" -> a # b
      [] op = "&&" -> a /\ b
      [] op = "||" -> a \/ b

(* The value of what is written for an expression, for values val of the
   symbols and env of the names; integers are unbounded, as z3's are.      *)
RECURSIVE meaning(_, _, _)
meaning(e, val, env) ==
    CASE e = Null          -> Null
      [] e.kind = "const"  -> e.value[2]
      [] e.kind = "symvar" -> val[e.name]
      [] e.kind = "name"   -> env[e.declaration]
      [] e.kind = "unary"  -> IF e.operator = "!" THEN ~meaning(e.left, val, env)
                                                  ELSE meaning(e.left, val, env)
      [] rightMissing(e)   -> meaning(e.left, val, env)
      [] OTHER -> LET a == meaning(e.left, val, env)
                      b == meaning(e.right, val, env)
                  IN  IF Null \in {a, b} THEN Null ELSE apply(e.operator, a, b)

(* The symbols that the assignments on the way to a leaf have made.        *)
SymbolsOf(leaf) ==
    {leaf[i].expression.left.name : i \in
        {j \in DOMAIN leaf : /\ leaf[j].node = "instruction"
                             /\ leaf[j].expression.kind = "unary"
                             /\ leaf[j].expression.left.kind = "symvar"}}

Valuations(leaf) == [SymbolsOf(leaf) -> SolverInts]

NoNames == [d \in {} |-> Null]

satisfiable(e, leaf) ==
    \E val \in Valuations(leaf) : meaning(e, val, NoNames)

(* z3 prints an error before its answer when it cannot read the formula, and
   the engine tests the whole output.                                      *)
solve(e, leaf) ==
    {IF formulaReadable(e) /\ satisfiable(e, leaf) THEN "sat" ELSE "not sat"}
        \cup (IF SolverMayFail THEN {"IOException"} ELSE {})

-----------------------------------------------------------------------------
(* Statements.                                                             *)

(* Fault: a node beyond the bound is forgotten.                            *)
executeForgetting(i, leaf, max_depth) ==
    IF i.kind = "assign" /\ depth(leaf) < max_depth
    THEN Result(<< >>, <<InstructionNode(i.lhs.declaration, i.rhs, leaf)>>)
    ELSE Result(<< >>, << >>)

(* A statement that is neither an assignment nor halt answers no node.     *)
executeInstruction(i, leaf, max_depth) ==
    CASE i.kind = "assign" ->
             LET l == InstructionNode(i.lhs.declaration, i.rhs, leaf)
             IN  IF depth(leaf) + 1 > max_depth THEN Result(<<l>>, << >>)
                                                ELSE Result(<< >>, <<l>>)
      [] i.kind = "halt" -> Result(<<leaf>>, << >>)
      [] OTHER           -> Result(<< >>, << >>)

(* Whether a statement has an instruction in it that answers no node.      *)
RECURSIVE answersNoNode(_)
answersNoNode(s) ==
    CASE s.kind = "list" -> \E i \in DOMAIN s.statements : answersNoNode(s.statements[i])
      [] s.kind = "if"   -> answersNoNode(s.then) \/ answersNoNode(s.else)
      [] OTHER           -> s.kind \in {"expression", "skip"}

RECURSIVE executeBlock(_, _, _), executeStatement(_, _, _), executeIf(_, _, _)

(* Each leaf is treated, the result of the last is answered.  Loops are not
   executed.                                                               *)
executeStatement(s, leaves, max_depth) ==
    CASE s.kind = "while"   -> {Result(<< >>, leaves)}
      [] leaves = << >>     -> {Result(<< >>, << >>)}
      [] s.kind = "if"      -> executeIf(s, Last(leaves), max_depth)
      [] s.kind = "list"    -> executeBlock(s, Last(leaves), max_depth)
      [] OTHER              -> {executeInstruction(s, Last(leaves), max_depth)}

RECURSIVE executeInTurn(_, _, _)
executeInTurn(list, res, max_depth) ==
    IF list = << >> THEN {res}
    ELSE UNION {executeInTurn(Tail(list), Result(res.done \o r.done, r.live), max_depth)
                : r \in executeStatement(Head(list), res.live, max_depth)}

executeBlock(block, leaf, max_depth) ==
    executeInTurn(IF block.kind = "list" THEN block.statements ELSE <<block>>,
                  Result(<< >>, <<leaf>>), max_depth)

(* A branch is entered when the solver finds its condition, alone,
   satisfiable; the node of both branches has the condition.               *)
executeBranch(condition, body, i, leaf, max_depth) ==
    UNION {IF answer = "sat"
           THEN executeBlock(body, DecisionNode(i.condition, leaf), max_depth)
           ELSE {Result(<<leaf>>, << >>)}
           : answer \in solve(sym_eval(condition, leaf), leaf)}

executeIf(i, leaf, max_depth) ==
    {LET r == Joined(r1, r2)
     IN  IF r.live = << >> THEN Result(Append(r.done, leaf), << >>) ELSE r
     : r1 \in executeBranch(i.condition, i.then, i, leaf, max_depth),
       r2 \in executeBranch(Unary("!", i.condition), i.else, i, leaf, max_depth)}
=============================================================================
