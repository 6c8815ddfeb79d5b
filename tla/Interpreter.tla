----------------------------- MODULE Interpreter -----------------------------
(***************************************************************************)
(* simulator/EvaluateExpression.java and simulator/ExecuteStatement.java:  *)
(* what the simulator computes for the guards and the entry, exit and      *)
(* action statements of a chart, exceptions included.                      *)
(***************************************************************************)
EXTENDS Integers, Sequences, JavaValues, ActionLanguage

CONSTANTS
    Thrown,         \* an exception on its way to EvaluateExpression.evaluate
    IntWidth,       \* width of an int in bits (32 in Java)
    Inputs,         \* what the user may type for input()
    MaxStack        \* nested calls before a StackOverflowError

isInt(v)  == v \notin {Null, Thrown} /\ v[1] = "int"
isBool(v) == v \notin {Null, Thrown} /\ v[1] = "boolean"

(* int arithmetic wraps around; division truncates towards zero.           *)
Wrap(n) == ((n + 2^(IntWidth - 1)) % 2^IntWidth) - 2^(IntWidth - 1)

Magnitude(n) == IF n < 0 THEN -n ELSE n

Quotient(a, b) == LET q == Magnitude(a) \div Magnitude(b)
                  IN  IF (a < 0) = (b < 0) THEN q ELSE -q

-----------------------------------------------------------------------------
(* EvaluateExpression.                                                     *)

(* ExecutionState.getValue: the whole variable, whatever fields of it the
   name goes on to select.                                                 *)
getValue(name, env) == Got(env[name.declaration])

(* The chain of operator tests on evaluated operands.  A right operand of
   the wrong class, or null, throws where Java reads its value: not where
   && and || need not look at it.                                          *)
booleanOperation(op, l, r) ==
    CASE op = "&&" /\ ~l[2] -> BoolC(FALSE)
      [] op = "||" /\ l[2]  -> BoolC(TRUE)
      [] OTHER -> IF ~isBool(r) THEN Thrown
                  ELSE IF op = "=" THEN BoolC(l[2] = r[2]) ELSE r

integerOperation(op, l, r) ==
    IF ~isInt(r) THEN Thrown
    ELSE LET a == l[2]
             b == r[2]
         IN  CASE op = "+"  -> IntC(Wrap(a + b))
               [] op = "-"  -> IntC(Wrap(a - b))
               [] op = "*"  -> IntC(Wrap(a * b))
               [] op = "/"  -> IF b = 0 THEN Thrown ELSE IntC(Wrap(Quotient(a, b)))
               [] op = ">=" -> BoolC(a >= b)
               [] op = ">"  -> BoolC(a > b)
               [] op = "<=" -> BoolC(a <= b)
               [] op = "<"  -> BoolC(a < b)
               [] op = "="  -> BoolC(a = b)
               [] op = "!=" -> BoolC(a # b)

BooleanOperators == {"&&", "||", "="}

(* Fault: there is no case for two of the comparisons.                     *)
IntegerOperatorsFew == {"+", "-", "*", "/", ">", "<", "=", "!="}

IntegerOperators == {"+", "-", "*", "/", ">=", ">", "<=", "<", "=", "!="}

binaryOperation(op, l, r) ==
    CASE Thrown \in {l, r}                     -> Thrown
      [] isBool(l) /\ op \in BooleanOperators  -> booleanOperation(op, l, r)
      [] isInt(l) /\ op \in IntegerOperators   -> integerOperation(op, l, r)
      [] OTHER                                 -> Null

(* An operand that is neither a constant nor a name is cast to
   BinaryExpression; a function call is none.                              *)
RECURSIVE evaluateOperand(_, _)
evaluateOperand(e, env) ==
    CASE e.kind = "const"  -> e.value
      [] e.kind = "name"   -> getValue(e, env)
      [] e.kind = "binary" -> binaryOperation(e.operator,
                                              evaluateOperand(e.left, env),
                                              evaluateOperand(e.right, env))
      [] OTHER             -> Thrown

(* Only the function input is known; what the user types may be no number. *)
evaluateFunction(e) ==
    IF e.name = "input" THEN {IntC(Wrap(n)) : n \in Inputs} \cup {Null} ELSE {Null}

(* evaluate: an exception on the way makes the value null.  The set of
   results has one element but for input().                                *)
evaluate(e, env) ==
    IF e.kind = "call" THEN evaluateFunction(e)
    ELSE LET v == evaluateOperand(e, env)
         IN  {IF v = Thrown THEN Null ELSE v}

-----------------------------------------------------------------------------
(* ExecuteStatement.                                                       *)

(* An outcome: whether control returns, whether input() was called on the
   way, where evaluateFunction waits for the user, and what is assigned.   *)
Outcome(returns, asks, env) == [returns |-> returns, asks |-> asks, env |-> env]

callsInput(e) == e.kind = "call" /\ e.name = "input"

(* A condition is looked at when it is a boolean constant or a binary
   expression; one with no boolean value throws into the catch block.      *)
conditionIs(c, env, b) ==
    \/ c.kind = "const" /\ c.value = BoolC(b)
    \/ c.kind = "binary" /\ evaluate(c, env) = {BoolC(b)}

RECURSIVE executeStatement(_, _, _), executeStatementList(_, _, _)

executeStatementList(list, env, depth) ==
    IF list = << >> THEN {Outcome(TRUE, FALSE, env)}
    ELSE UNION {IF o.returns
                THEN {[r EXCEPT !.asks = @ \/ o.asks] :
                          r \in executeStatementList(Tail(list), o.env, depth)}
                ELSE {o}
                : o \in executeStatement(Head(list), env, depth + 1)}

(* The loop is a recursive call per iteration.                             *)
executeWhileStatement(w, env, depth) ==
    IF conditionIs(w.condition, env, TRUE)
    THEN executeStatementList(<<w.body, w>>, env, depth)
    ELSE {Outcome(TRUE, FALSE, env)}

executeConditionalStatement(c, env, depth) ==
    CASE conditionIs(c.condition, env, TRUE)
             -> executeStatement(c.then, env, depth + 1)
      [] conditionIs(c.condition, env, FALSE)
             -> executeStatement(c.else, env, depth + 1)
      [] OTHER -> {Outcome(TRUE, FALSE, env)}

executeAssignmentStatement(a, env) ==
    {Outcome(TRUE, callsInput(a.rhs), [env EXCEPT ![a.lhs.declaration] = v])
        : v \in evaluate(a.rhs, env)}

(* The value of an expression statement is not used.                       *)
executeStatement(s, env, depth) ==
    IF depth >= MaxStack THEN {Outcome(FALSE, FALSE, env)}
    ELSE CASE s.kind = "list"   -> executeStatementList(s.statements, env, depth)
           [] s.kind = "assign" -> executeAssignmentStatement(s, env)
           [] s.kind = "if"     -> executeConditionalStatement(s, env, depth)
           [] s.kind = "while"  -> executeWhileStatement(s, env, depth)
           [] s.kind = "expression" ->
                  {Outcome(TRUE, callsInput(s.expression), env)}
           [] s.kind = "halt"   -> {Outcome(FALSE, FALSE, env)}
           [] OTHER             -> {Outcome(TRUE, FALSE, env)}
=============================================================================
