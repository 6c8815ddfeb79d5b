------------------------ MODULE ImperativeExecution ------------------------
(***************************************************************************)
(* Symbolic execution in the OCaml prototype: module SE of interpreter.ml. *)
(*                                                                         *)
(* A node of the tree points to its parent only, so it is the sequence of  *)
(* the nodes on the way to it: the entry node is the empty sequence and    *)
(* depth is the length.  All leaves go through a statement before the next *)
(* one is looked at; a behaviour is a program and its execution: a step    *)
(* executes the next declaration, or any further statement of the block    *)
(* that the type checker accepts.  A symbol is an Id, as variables are.    *)
(***************************************************************************)
EXTENDS ImperativeLanguage

CONSTANTS
    DeclarationLists,   \* the declarations of the programs
    Statements,         \* the statements that their blocks are made of
    MaxStatements,      \* bound: the length of a block
    MaxDepths,          \* what se_prog is called with
    SymbolNames         \* "X1", "X2", ..., as long as the runs need

ASSUME ExecutorAssumption ==
    /\ MaxStatements \in Nat
    /\ MaxDepths \subseteq Nat \ {0}
    /\ IsInjective(SymbolNames)

VARIABLES
    maxdepth,
    decls,          \* the declarations of the program
    declared,       \* how many of them are executed
    block,          \* the statements executed so far
    _done_, leaves, \* the two lists of nodes that se_prog answers
    symbols         \* the types of the inputs read; var_count is its length

vars == <<maxdepth, decls, declared, block, _done_, leaves, symbols>>

-----------------------------------------------------------------------------
(* Nodes.                                                                  *)

INode(v, e, parent) ==
    Append(parent, [node |-> "INode", variable |-> v, value |-> e])

DNode(e, parent) == Append(parent, [node |-> "DNode", condition |-> e])

depth(n) == Len(n)

Not_found == [op |-> "Not_found"]   \* the exception

Assigned(v, n) == {i \in DOMAIN n : n[i].node = "INode" /\ n[i].variable = v}

(* Fault: the search starts at the root.                                   *)
get_first_value(v, n) ==
    IF Assigned(v, n) = {} THEN Not_found ELSE n[Min(Assigned(v, n))].value

get_var_value(v, n) ==
    IF Assigned(v, n) = {} THEN Not_found ELSE n[Max(Assigned(v, n))].value

-----------------------------------------------------------------------------
(* Expressions.  Reading an input counts, so the symbols go through.       *)

Valued(e, syms) == [value |-> e, symbols |-> syms]

(* Fault: the counter starts anew for each expression.                     *)
new_symvar_restarted(t, syms) == Valued(Id(SymbolNames[1]), Append(syms, t))

new_symvar(t, syms) == Valued(Id(SymbolNames[Len(syms) + 1]), Append(syms, t))

RECURSIVE se_expr(_, _, _)
se_expr(e, leaf, syms) ==
    CASE e.op = "Id" -> Valued(get_var_value(e, leaf), syms)
      [] e.op \in {"IntConst", "BoolConst"} -> Valued(e, syms)
      [] e.op = "Not" -> LET sv == se_expr(e.left, leaf, syms)
                         IN  Valued(Not(sv.value), sv.symbols)
      [] e.op = "Input" -> new_symvar(e.type, syms)
      [] OTHER -> LET sv1 == se_expr(e.left, leaf, syms)
                      sv2 == se_expr(e.right, leaf, sv1.symbols)
                  IN  Valued(Bin(e.op, sv1.value, sv2.value), sv2.symbols)

-----------------------------------------------------------------------------
(* Statements.                                                             *)

Result(d, l, syms) == [_done_ |-> d, leaves |-> l, symbols |-> syms]

se_decl(decl, leaf, syms) ==
    LET l == INode(Id(decl[1]), ty_init(decl[2]), leaf)
    IN  IF depth(l) = maxdepth THEN Result(<<l>>, << >>, syms)
                               ELSE Result(<< >>, <<l>>, syms)

se_decl_all(decl, ls, syms) ==
    FoldLeft(LAMBDA r, l : LET q == se_decl(decl, l, r.symbols)
                           IN  Result(q._done_ \o r._done_, q.leaves \o r.leaves, q.symbols),
             Result(<< >>, << >>, syms), ls)

(* Fault: the bound stops only a path that meets it exactly.               *)
se_assignment_exact(s, leaf, syms) ==
    LET sv == se_expr(s.rhs, leaf, syms)
        l == INode(Id(s.name), sv.value, leaf)
    IN  IF depth(l) = maxdepth THEN Result(<<l>>, << >>, sv.symbols)
                               ELSE Result(<< >>, <<l>>, sv.symbols)

se_assignment(s, leaf, syms) ==
    LET sv == se_expr(s.rhs, leaf, syms)
        l == INode(Id(s.name), sv.value, leaf)
    IN  IF depth(l) >= maxdepth THEN Result(<<l>>, << >>, sv.symbols)
                                ELSE Result(<< >>, <<l>>, sv.symbols)

RECURSIVE se_stmt(_, _, _)

(* The results for every leaf, the last leaf's first.                      *)
se_stmt_all(s, ls, syms) ==
    FoldLeft(LAMBDA r, l : LET q == se_stmt(s, l, r.symbols)
                           IN  Result(q._done_ \o r._done_, q.leaves \o r.leaves, q.symbols),
             Result(<< >>, << >>, syms), ls)

se_stmtblock(list, leaf, syms) ==
    FoldLeft(LAMBDA r, s : LET q == se_stmt_all(s, r.leaves, r.symbols)
                           IN  Result(q._done_ \o r._done_, q.leaves, q.symbols),
             Result(<< >>, <<leaf>>, syms), list)

(* Fault: the condition is not negated for the second branch.              *)
se_if_unnegated(s, leaf, syms) ==
    LET sb == se_expr(s.cond, leaf, syms)
        t == se_stmt(s.then, DNode(sb.value, leaf), sb.symbols)
        f == se_stmt(s.else, DNode(sb.value, leaf), t.symbols)
    IN  Result(t._done_ \o f._done_, t.leaves \o f.leaves, f.symbols)

(* The condition is evaluated once for both branches.  Decisions count in the
   depth of what follows, the bound is not looked at.                      *)
se_if(s, leaf, syms) ==
    LET sb == se_expr(s.cond, leaf, syms)
        t == se_stmt(s.then, DNode(sb.value, leaf), sb.symbols)
        f == se_stmt(s.else, DNode(Not(sb.value), leaf), t.symbols)
    IN  Result(t._done_ \o f._done_, t.leaves \o f.leaves, f.symbols)

se_stmt(s, leaf, syms) ==
    CASE s.stmt = "Assignment" -> se_assignment(s, leaf, syms)
      [] s.stmt = "If"         -> se_if(s, leaf, syms)
      [] s.stmt = "Block"      -> se_stmtblock(s.list, leaf, syms)

-----------------------------------------------------------------------------
(* se_prog, a turn of its loops at a time.                                 *)

Init ==
    /\ maxdepth \in MaxDepths /\ decls \in DeclarationLists
    /\ declared = 0 /\ block = << >>
    /\ _done_ = << >> /\ leaves = << << >> >> /\ symbols = << >>

(* se_decls: the next declaration on all leaves.                           *)
Declare ==
    /\ declared < Len(decls)
    /\ declared' = declared + 1
    /\ LET r == se_decl_all(decls[declared + 1], leaves, symbols)
       IN  _done_' = r._done_ \o _done_ /\ leaves' = r.leaves
    /\ UNCHANGED <<maxdepth, decls, block, symbols>>

(* se_stmtblock: the next statement on all leaves.                         *)
ExecuteNext ==
    /\ declared = Len(decls) /\ Len(block) < MaxStatements
    /\ \E s \in Statements :
           /\ typecheck_stmt(s, decls)
           /\ block' = Append(block, s)
           /\ LET r == se_stmt_all(s, leaves, symbols)
              IN  /\ _done_' = r._done_ \o _done_
                  /\ leaves' = r.leaves
                  /\ symbols' = r.symbols
    /\ UNCHANGED <<maxdepth, decls, declared>>

(* The block has no further statement.  The lists ds and ds' that se_prog
   joins are one here: one of them is empty, since declarations do not split
   a path.                                                                 *)
Return == declared = Len(decls) /\ UNCHANGED vars

Next == Declare \/ ExecuteNext \/ Return

Spec == Init /\ [][Next]_vars
=============================================================================
