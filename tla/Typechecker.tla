----------------------------- MODULE Typechecker -----------------------------
(***************************************************************************)
(* frontend/Typechecker.java for expressions, statements and transitions,  *)
(* and ast/Environment.java in which it looks names up.                    *)
(*                                                                         *)
(* A type is its name.  The parser's names are                             *)
(*   [kind |-> "name", name |-> <<id1, id2, ...>>]                         *)
(* and checking annotates the tree: it gives names their declaration and   *)
(* the fields selected from it, and expressions their type.  Checking has  *)
(* the set of its results as value: the annotated tree alone, or no        *)
(* element when the code throws.                                           *)
(***************************************************************************)
EXTENDS Statechart, ActionLanguage

CONSTANTS
    vname,      \* Declaration.vname: the name of a variable within its state
    typeName,   \* the name of Declaration.type
    structs,    \* the struct types: for each, the types of its fields
    functions   \* the functions: the types of parameters and result

ASSUME TypeAssumption ==
    DOMAIN vname = Declarations /\ DOMAIN typeName = Declarations

Name(ids) == [kind |-> "name", name |-> ids]

Typed(e, type) == e @@ [type |-> type]

-----------------------------------------------------------------------------
(* Environments: sequences of declaration lists, the innermost first.      *)

declaredAs(list, id) == {d \in Range(list) : vname[d] = id}

(* Fault: the outermost declaration is found.                              *)
lookupOutermost(env, id) ==
    LET found == {i \in DOMAIN env : declaredAs(env[i], id) # {}}
    IN  IF found = {} THEN {} ELSE declaredAs(env[Max(found)], id)

(* The declaration of id in the first list that has one.                   *)
lookup(env, id) ==
    LET found == {i \in DOMAIN env : declaredAs(env[i], id) # {}}
    IN  IF found = {} THEN {} ELSE declaredAs(env[Min(found)], id)

copyInclusive(env, next) == env \o next

(* env up to, and without, the environment next in which it ends.          *)
copyExclusive(env, next) == Prefix(env, Len(env) - Len(next))

stateEnvironment(st) == [i \in DOMAIN st |-> declarations[Prefix(st, Len(st) - i + 1)]]

readEnvironment(t) == stateEnvironment(t.source)

writeOnlyEnvironment(t) ==
    copyExclusive(<<SelectSeq(declarations[t.destination],
                              LAMBDA d : scope[d] = "parameter")>>
                      \o Tail(stateEnvironment(t.destination)),
                  stateEnvironment(t.state))

writeEnvironment(t) ==
    copyInclusive(writeOnlyEnvironment(t), stateEnvironment(t.state))

-----------------------------------------------------------------------------
(* Names.                                                                  *)

(* getDeclarationInState: of a name that starts with the statechart, as much
   as possible names states, and the next identifier a variable.           *)
statesNamed(ids) == Max({n \in DOMAIN ids : Prefix(ids, n) \in States})

getDeclarationInState(ids) ==
    LET n == statesNamed(ids)
    IN  IF n = Len(ids) THEN {}
        ELSE declaredAs(declarations[Prefix(ids, n)], ids[n + 1])

fullyQualified(ids) == Head(ids) = Last(Root)

fieldsOf(ids) == LET n == IF fullyQualified(ids) THEN statesNamed(ids) ELSE 0
                 IN  SubSeq(ids, n + 2, Len(ids))

(* getTypeOfName: a field after the other is looked up in a struct.        *)
NoType == "no type"

fieldType(type, f) == IF type \in DOMAIN structs /\ f \in DOMAIN structs[type]
                      THEN structs[type][f] ELSE NoType

getTypeOfName(type, fs) == FoldLeft(fieldType, type, fs)

typecheckName(e, env) ==
    LET ids == e.name
        found == IF fullyQualified(ids) THEN getDeclarationInState(ids)
                                        ELSE lookup(env, Head(ids))
    IN  {Typed(e @@ [declaration |-> d, fields |-> fieldsOf(ids)],
               getTypeOfName(typeName[d], fieldsOf(ids)))
         : d \in {x \in found : getTypeOfName(typeName[x], fieldsOf(ids)) # NoType}}

-----------------------------------------------------------------------------
(* Expressions.                                                            *)

ArithmeticOperators == {"+", "-", "*", "/"}
ComparisonOperators == {">=", ">", "<=", "<", "!=", "="}
LogicalOperators == {"&&", "||"}

(* Fault: a comparison has the type of its operands.                       *)
binaryTypeOperand(op, t1, t2) == {t1} \cap {t2}

(* The types of results for an operator and types of operands, one or none. *)
binaryType(op, t1, t2) ==
    CASE op \in ArithmeticOperators -> {"int"} \cap {t1} \cap {t2}
      [] op \in ComparisonOperators -> IF t1 = t2 THEN {"boolean"} ELSE {}
      [] op \in LogicalOperators    -> {"boolean"} \cap {t1} \cap {t2}

RECURSIVE typecheckExpression(_, _)

typecheckBinaryExpression(e, env) ==
    UNION {{Typed([e EXCEPT !.left = l, !.right = r], type)
                : type \in binaryType(e.operator, l.type, r.type)}
           : l \in typecheckExpression(e.left, env),
             r \in typecheckExpression(e.right, env)}

(* The arguments have the types of the parameters, one each.               *)
typecheckFunctionCall(e, env) ==
    IF /\ e.name \in DOMAIN functions
       /\ Len(e.arguments) = Len(functions[e.name].parameters)
       /\ \A i \in DOMAIN e.arguments :
              \E a \in typecheckExpression(e.arguments[i], env) :
                  a.type = functions[e.name].parameters[i]
    THEN {Typed([e EXCEPT !.arguments =
                     [i \in DOMAIN e.arguments |->
                          CHOOSE a \in typecheckExpression(e.arguments[i], env) : TRUE]],
                functions[e.name].returns)}
    ELSE {}

typecheckExpression(e, env) ==
    CASE e.kind = "name"   -> typecheckName(e, env)
      [] e.kind = "const"  -> {Typed(e, e.value[1])}
      [] e.kind = "binary" -> typecheckBinaryExpression(e, env)
      [] e.kind = "call"   -> typecheckFunctionCall(e, env)

typecheckCondition(e, env) ==
    {c \in typecheckExpression(e, env) : c.type = "boolean"}

-----------------------------------------------------------------------------
(* Statements: renv and wenv are what may be read and written.             *)

(* Fault: the types of the two sides are not compared.                     *)
typecheckAssignmentLax(s, renv, wenv) ==
    {[s EXCEPT !.lhs = l, !.rhs = r] : l \in typecheckName(s.lhs, wenv),
                                       r \in typecheckExpression(s.rhs, renv)}

typecheckAssignmentStatement(s, renv, wenv) ==
    {a \in {[s EXCEPT !.lhs = l, !.rhs = r] : l \in typecheckName(s.lhs, wenv),
                                              r \in typecheckExpression(s.rhs, renv)}
     : a.lhs.type = a.rhs.type}

(* The other statements, halt and skip among them, are refused.            *)
RECURSIVE typecheckStatement(_, _, _), typecheckStatementList(_, _, _)

typecheckStatementList(list, renv, wenv) ==
    IF list = << >> THEN {<< >>}
    ELSE {<<s>> \o rest : s \in typecheckStatement(Head(list), renv, wenv),
                          rest \in typecheckStatementList(Tail(list), renv, wenv)}

typecheckStatement(s, renv, wenv) ==
    CASE s.kind = "assign" -> typecheckAssignmentStatement(s, renv, wenv)
      [] s.kind = "list"   -> {[s EXCEPT !.statements = list] :
                                  list \in typecheckStatementList(s.statements, renv, wenv)}
      [] s.kind = "if"     -> {[s EXCEPT !.condition = c, !.then = s1, !.else = s2] :
                                  c \in typecheckCondition(s.condition, renv),
                                  s1 \in typecheckStatement(s.then, renv, wenv),
                                  s2 \in typecheckStatement(s.else, renv, wenv)}
      [] s.kind = "while"  -> {[s EXCEPT !.condition = c, !.body = b] :
                                  c \in typecheckCondition(s.condition, renv),
                                  b \in typecheckStatement(s.body, renv, wenv)}
      [] s.kind = "expression" -> {[s EXCEPT !.expression = e] :
                                  e \in typecheckExpression(s.expression, renv)}
      [] OTHER             -> {}

(* The entry and exit statements of a state, and the action of a transition. *)
typecheckInState(s, st) ==
    typecheckStatement(s, stateEnvironment(st), stateEnvironment(st))

typecheckAction(s, t) == typecheckStatement(s, readEnvironment(t), writeEnvironment(t))
=============================================================================
