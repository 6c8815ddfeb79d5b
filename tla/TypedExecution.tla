--------------------------- MODULE TypedExecution ---------------------------
(***************************************************************************)
(* The type checker and the interpreter together: one block of statements, *)
(* the entry of a state or the action of a transition, is executed.  Each  *)
(* step executes the next statement, any that the type checker accepts at  *)
(* the site of the block; so a behaviour is a program and its execution.   *)
(***************************************************************************)
EXTENDS Typechecker, Interpreter

CONSTANTS
    Statements,     \* the statements, not yet checked, that blocks consist of
    Expressions     \* the expressions looked at by the properties

VARIABLES
    site,               \* where the block stands
    valueEnvironment,   \* ExecutionState.valueEnvironment
    qualified           \* the last statement assigns to a qualified name

vars == <<site, valueEnvironment, qualified>>

StateSite(st) == [kind |-> "entry", state |-> st]
ActionSite(t) == [kind |-> "action", transition |-> t]

Sites == {StateSite(st) : st \in States} \cup {ActionSite(t) : t \in Transitions}

ReadEnvironment(x) == IF x.kind = "entry" THEN stateEnvironment(x.state)
                                          ELSE readEnvironment(x.transition)

Checked(s, x) == IF x.kind = "entry" THEN typecheckInState(s, x.state)
                                     ELSE typecheckAction(s, x.transition)

(* Checking comes before execution: the accepted and annotated statements
   and expressions of each site.                                           *)
Accepted == [x \in Sites |-> UNION {Checked(s, x) : s \in Statements}]

AcceptedExpressions ==
    [x \in Sites |-> UNION {typecheckExpression(e, ReadEnvironment(x)) : e \in Expressions}]

RECURSIVE assignsQualified(_)
assignsQualified(s) ==
    CASE s.kind = "assign" -> fullyQualified(s.lhs.name)
      [] s.kind = "if"     -> assignsQualified(s.then) \/ assignsQualified(s.else)
      [] s.kind = "while"  -> assignsQualified(s.body)
      [] s.kind = "list"   -> \E i \in DOMAIN s.statements :
                                  assignsQualified(s.statements[i])
      [] OTHER             -> FALSE

-----------------------------------------------------------------------------

(* Variables without a value, and those that are not there, read as null.  *)
Init == /\ site \in Sites
        /\ valueEnvironment = [d \in Declarations |-> Null]
        /\ qualified = FALSE

(* A block whose execution ends the program is not followed further.       *)
ExecuteNext ==
    \E s \in Accepted[site] :
        \E o \in executeStatement(s, valueEnvironment, 0) :
            /\ o.returns
            /\ valueEnvironment' = o.env
            /\ qualified' = assignsQualified(s)
            /\ UNCHANGED site

Next == ExecuteNext

Spec == Init /\ [][Next]_vars

-----------------------------------------------------------------------------
(* What type checking is for.                                              *)

hasType(v, type) == v = Null \/ v[1] = type

(* Static typing: whatever well-typed statements were executed, a variable
   has no value or one of its declared type, though the interpreter never
   looks at declared types.                                                *)
ValuesTyped ==
    \A d \in Declarations : hasType(valueEnvironment[d], typeName[d])

(* What may keep a well-typed expression from having a value: a variable that
   has none, a call (an input that is no number, or a call as an operand), a
   division by zero, and comparisons that evaluateBinaryExpression has no case
   for, those of strings and all but = of booleans.                        *)
RECURSIVE mayLackValue(_, _)
mayLackValue(e, env) ==
    CASE e.kind = "const"  -> FALSE
      [] e.kind = "name"   -> getValue(e, env) = Null
      [] e.kind = "call"   -> TRUE
      [] e.kind = "binary" ->
             \/ mayLackValue(e.left, env) \/ mayLackValue(e.right, env)
             \/ e.operator = "/" /\ evaluate(e.right, env) = {IntC(0)}
             \/ e.operator \in ComparisonOperators /\ e.left.type = "string"
             \/ /\ e.operator \in ComparisonOperators \ {"="}
                /\ e.left.type = "boolean"

(* A well-typed expression evaluates to a value of its type, in every
   environment that well-typed statements lead to, unless one of these few
   causes makes it null: whatever operator and types the checker accepts
   besides, the interpreter has the case for them.                         *)
ExpressionsTyped ==
    \A e \in AcceptedExpressions[site] :
        \A v \in evaluate(e, valueEnvironment) :
            hasType(v, e.type) /\ (v = Null => mayLackValue(e, valueEnvironment))

(* The scope of assignments, from the tree of states and not from the lists
   the type checker goes through.                                          *)
WriteScope == IF site.kind = "entry" THEN getEnvironment(site.state)
                                     ELSE getWriteEnvironment(site.transition)

ownerDepth(d) == Len(CHOOSE st \in States : d \in Declared(st))

Visible(d) == /\ d \in WriteScope
              /\ \A x \in WriteScope :
                     vname[x] = vname[d] => ownerDepth(x) <= ownerDepth(d)

Changed(d) == valueEnvironment'[d] # valueEnvironment[d]

(* Lexical scope: a statement that assigns to simple names changes only
   variables that may be written at its site, and of several with one name
   the innermost.                                                          *)
AssignsInScope ==
    [][~qualified' =>
           \A d \in Declarations : Changed(d) => Visible(d)]_vars

-----------------------------------------------------------------------------
(* What the report says, and the code does not do.                         *)

(* The report says that a name which is defined is looked up in the write
   environment, and a comment of Transition that variables of the read-only
   environment are not allowed as l-values: qualified names included.      *)
DefinedNamesLookedUp ==
    [][\A d \in Declarations : Changed(d) => d \in WriteScope]_vars
=============================================================================
