--------------------------- MODULE ActionLanguage ---------------------------
(***************************************************************************)
(* The expressions and statements of the action language.                  *)
(*                                                                         *)
(* Expressions and statements are the classes of package ast as records:   *)
(*   [kind |-> "const", value |-> v]          the three constant classes   *)
(*   [kind |-> "name", declaration |-> d, fields |-> <<f1, ...>>]          *)
(*   [kind |-> "binary", operator |-> op, left |-> e1, right |-> e2]       *)
(*   [kind |-> "call", name |-> f, arguments |-> <<e1, ...>>]              *)
(*   [kind |-> "assign", lhs |-> name, rhs |-> e]                          *)
(*   [kind |-> "list", statements |-> <<s1, ...>>]                         *)
(*   [kind |-> "if", condition |-> e, then |-> s1, else |-> s2]            *)
(*   [kind |-> "while", condition |-> e, body |-> s]                       *)
(*   [kind |-> "expression", expression |-> e]                             *)
(*   [kind |-> "skip"], [kind |-> "halt"]                                  *)
(* A value is a pair of its class and its content.                         *)
(* The grammar has no literal for a negative number.                       *)
(***************************************************************************)
EXTENDS Naturals, Sequences

IntC(n)  == <<"int", n>>
BoolC(b) == <<"boolean", b>>
StrC(s)  == <<"string", s>>

Const(v) == [kind |-> "const", value |-> v]
Num(n) == Const(IntC(n))
Var(d) == [kind |-> "name", declaration |-> d, fields |-> << >>]
Bin(l, op, r) == [kind |-> "binary", operator |-> op, left |-> l, right |-> r]
Call(f, es) == [kind |-> "call", name |-> f, arguments |-> es]
Input == Call("input", << >>)
Always == Const(BoolC(TRUE))

Assign(d, e) == [kind |-> "assign", lhs |-> Var(d), rhs |-> e]
Block(list) == [kind |-> "list", statements |-> list]
Nothing == Block(<< >>)
If(c, s1, s2) == [kind |-> "if", condition |-> c, then |-> s1, else |-> s2]
While(c, s) == [kind |-> "while", condition |-> c, body |-> s]
Perform(e) == [kind |-> "expression", expression |-> e]
=============================================================================
