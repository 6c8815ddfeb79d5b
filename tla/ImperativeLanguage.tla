------------------------- MODULE ImperativeLanguage -------------------------
(***************************************************************************)
(* The language of the OCaml prototype (sim-see/imperative): syntax.ml,    *)
(* env.ml and the type checker of interpreter.ml.                          *)
(*                                                                         *)
(* Expressions and statements are the constructors of syntax.ml:           *)
(*   [op |-> "Id", name |-> x]           [op |-> "IntConst", value |-> n]  *)
(*   [op |-> "Not", left |-> e]          [op |-> "BoolConst", value |-> b] *)
(*   [op |-> "Input", type |-> t]                                          *)
(*   [op |-> o, left |-> e1, right |-> e2]                                 *)
(*                        where o is "Add", "Sub", "Or", "And" or "Equals" *)
(*   [stmt |-> "Assignment", name |-> x, rhs |-> e]                        *)
(*   [stmt |-> "If", cond |-> e, then |-> s1, else |-> s2]                 *)
(*   [stmt |-> "Block", list |-> <<s1, ...>>]                              *)
(* A declaration is a pair of a name and a type, a list of them is also    *)
(* the environment of the type checker, the binding added last at the end. *)
(* Checking has the set of its results, no element when the code raises.   *)
(***************************************************************************)
EXTENDS Integers, Sequences, SequencesExt, FiniteSets

Types == {"Boolean", "Integer"}

Id(x) == [op |-> "Id", name |-> x]
IntConst(n) == [op |-> "IntConst", value |-> n]
BoolConst(b) == [op |-> "BoolConst", value |-> b]
Not(e) == [op |-> "Not", left |-> e]
Input(t) == [op |-> "Input", type |-> t]
Bin(o, l, r) == [op |-> o, left |-> l, right |-> r]

Assignment(x, e) == [stmt |-> "Assignment", name |-> x, rhs |-> e]
If(c, s1, s2) == [stmt |-> "If", cond |-> c, then |-> s1, else |-> s2]
Block(l) == [stmt |-> "Block", list |-> l]

ty_init(t) == IF t = "Boolean" THEN BoolConst(FALSE) ELSE IntConst(0)

-----------------------------------------------------------------------------
(* Env.apply: the binding added last.                                      *)

apply(x, env) ==
    LET bound == {i \in DOMAIN env : env[i][1] = x}
    IN  IF bound = {} THEN {} ELSE {env[Max(bound)][2]}

-----------------------------------------------------------------------------
(* The type checker.                                                       *)

(* The operands of the connectives are compared with each other and not with
   Boolean: integers pass.                                                 *)
binaryType(o, t1, t2) ==
    CASE o \in {"Add", "Sub"} -> {"Integer"} \cap {t1} \cap {t2}
      [] OTHER                -> IF t1 = t2 THEN {"Boolean"} ELSE {}

RECURSIVE typecheck_expr(_, _)
typecheck_expr(e, env) ==
    CASE e.op = "Id"        -> apply(e.name, env)
      [] e.op = "IntConst"  -> {"Integer"}
      [] e.op = "BoolConst" -> {"Boolean"}
      [] e.op = "Input"     -> {e.type}
      [] e.op = "Not"       -> typecheck_expr(e.left, env) \cap {"Boolean"}
      [] OTHER              -> UNION {binaryType(e.op, t1, t2)
                                      : t1 \in typecheck_expr(e.left, env),
                                        t2 \in typecheck_expr(e.right, env)}

(* Whether checking a statement returns.                                   *)
RECURSIVE typecheck_stmt(_, _)
typecheck_stmt(s, env) ==
    CASE s.stmt = "Assignment" ->
             apply(s.name, env) \cap typecheck_expr(s.rhs, env) # {}
      [] s.stmt = "If"         -> /\ typecheck_expr(s.cond, env) = {"Boolean"}
                                  /\ typecheck_stmt(s.then, env)
                                  /\ typecheck_stmt(s.else, env)
      [] s.stmt = "Block"      -> \A i \in DOMAIN s.list : typecheck_stmt(s.list[i], env)
=============================================================================
