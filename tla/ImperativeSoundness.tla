------------------------ MODULE ImperativeSoundness ------------------------
(***************************************************************************)
(* The tree of the OCaml prototype against the execution of the program.   *)
(*                                                                         *)
(* The reference is a plain interpreter: it has one environment, reads its *)
(* inputs from a stream, and stops after the declaration or assignment by  *)
(* which maxdepth nodes are used up.  A path of the tree describes the     *)
(* executions for which its conditions hold when the symbols on it, oldest *)
(* first, stand for the inputs of the stream.                              *)
(***************************************************************************)
EXTENDS ImperativeExecution

CONSTANTS
    InputValues,    \* what may be read: for each type, a value
    MaxInputs       \* bound: inputs read in one execution

Prefix(s, n) == SubSeq(s, 1, n)

Streams == [1 .. MaxInputs -> InputValues]

operate(o, a, b) == CASE o = "Add"    -> a + b
                      [] o = "Sub"    -> a - b
                      [] o = "Or"     -> a \/ b
                      [] o = "And"    -> a /\ b
                      [] o = "Equals" -> a = b

-----------------------------------------------------------------------------
(* The reference.                                                          *)

(* The value of e and the number of inputs read so far.                    *)
RECURSIVE Evaluate(_, _, _, _)
Evaluate(e, env, read, stream) ==
    CASE e.op = "Id" -> <<env[e.name], read>>
      [] e.op \in {"IntConst", "BoolConst"} -> <<e.value, read>>
      [] e.op = "Input" -> <<stream[read + 1][e.type], read + 1>>
      [] e.op = "Not" -> LET v == Evaluate(e.left, env, read, stream)
                         IN  <<~v[1], v[2]>>
      [] OTHER -> LET v == Evaluate(e.left, env, read, stream)
                      w == Evaluate(e.right, env, v[2], stream)
                  IN  <<operate(e.op, v[1], w[1]), w[2]>>

Store(st, x, v) ==
    [st EXCEPT !.env = [y \in DOMAIN @ \cup {x} |-> IF y = x THEN v[1] ELSE @[y]],
               !.read = v[2], !.used = @ + 1, !.stopped = st.used + 1 >= maxdepth]

RECURSIVE Execute(_, _, _)
Execute(s, st, stream) ==
    CASE st.stopped -> st
      [] s.stmt = "Assignment" ->
             Store(st, s.name, Evaluate(s.rhs, st.env, st.read, stream))
      [] s.stmt = "If" ->
             LET v == Evaluate(s.cond, st.env, st.read, stream)
             IN  Execute(IF v[1] THEN s.then ELSE s.else,
                         [st EXCEPT !.read = v[2], !.used = @ + 1], stream)
      [] s.stmt = "Block" -> FoldLeft(LAMBDA r, x : Execute(x, r, stream), st, s.list)

Start == [env |-> << >>, read |-> 0, used |-> 0, stopped |-> FALSE]

(* The program so far, executed with the inputs of a stream.               *)
Outcome(stream) ==
    LET initial == FoldLeft(LAMBDA st, d : IF st.stopped THEN st
                                           ELSE Store(st, d[1], <<ty_init(d[2]).value, 0>>),
                            Start, Prefix(decls, declared))
    IN  Execute(Block(block), initial, stream)

-----------------------------------------------------------------------------
(* Paths.                                                                  *)

Paths == _done_ \o leaves

RECURSIVE SymbolsIn(_)
SymbolsIn(e) ==
    CASE e.op = "Id"  -> {CHOOSE i \in DOMAIN SymbolNames : SymbolNames[i] = e.name}
      [] e.op = "Not" -> SymbolsIn(e.left)
      [] e.op \in {"IntConst", "BoolConst", "Not_found"} -> {}
      [] OTHER        -> SymbolsIn(e.left) \cup SymbolsIn(e.right)

Expression(n) == IF n.node = "INode" THEN n.value ELSE n.condition

SymbolsOn(p) == UNION {SymbolsIn(Expression(p[i])) : i \in DOMAIN p}

(* The values of the symbols on p: the oldest is the first input.          *)
Valuation(p, stream) ==
    [i \in SymbolsOn(p) |->
        stream[Cardinality({j \in SymbolsOn(p) : j <= i})][symbols[i]]]

RECURSIVE Meaning(_, _)
Meaning(e, val) ==
    CASE e.op = "Id"  -> val[CHOOSE i \in DOMAIN SymbolNames : SymbolNames[i] = e.name]
      [] e.op \in {"IntConst", "BoolConst"} -> e.value
      [] e.op = "Not" -> ~Meaning(e.left, val)
      [] OTHER        -> operate(e.op, Meaning(e.left, val), Meaning(e.right, val))

Describes(p, stream) ==
    LET val == Valuation(p, stream)
    IN  \A i \in DOMAIN p : p[i].node = "DNode" => Meaning(p[i].condition, val)

-----------------------------------------------------------------------------
(* What the tree is for.                                                   *)

(* se_prog covers every execution once: whatever is read, the conditions of
   exactly one path hold, finished or cut off at maxdepth, however the
   branches nest and wherever the bound falls.                             *)
OnePathPerExecution ==
    \A stream \in Streams :
        Cardinality({i \in DOMAIN Paths : Describes(Paths[i], stream)}) = 1

(* What a path says of an execution is so: get_var_value finds for every
   variable the value the program computes, and the path is cut off when,
   and only when, the execution has used up maxdepth nodes.                *)
PathsDescribe ==
    \A stream \in Streams :
        LET out == Outcome(stream)
        IN  \A i \in DOMAIN Paths :
                Describes(Paths[i], stream) =>
                    /\ i <= Len(_done_) <=> out.stopped
                    /\ \A x \in DOMAIN out.env :
                           Meaning(get_var_value(Id(x), Paths[i]),
                                   Valuation(Paths[i], stream)) = out.env[x]

(* new_symvar_name: no two inputs are one symbol.  Paths share a symbol only
   where they are one path, the decision that separates them included.     *)
SymbolsFresh ==
    \A i, j \in DOMAIN Paths :
        LET p == Paths[i]
            q == Paths[j]
            common == {n \in 0 .. Len(p) : IsPrefix(Prefix(p, n), q)}
        IN  i # j => SymbolsOn(p) \cap SymbolsOn(q)
                         \subseteq SymbolsOn(Prefix(p, Min({Len(p), Max(common) + 1})))

(* The symbolic value of a variable has the type declared last for its name
   among the declarations executed on the path, and conditions are boolean:
   the type checker and the lookup in the tree agree on names declared
   twice.                                                                  *)
SymbolicValuesTyped ==
    LET env == [i \in DOMAIN symbols |-> <<SymbolNames[i], symbols[i]>>]
    IN  \A k \in DOMAIN Paths :
            LET p == Paths[k]
                local == Prefix(decls, Min({declared, Len(p)}))
            IN  /\ \A i \in DOMAIN local :
                       typecheck_expr(get_var_value(Id(local[i][1]), p), env)
                           = apply(local[i][1], local)
                /\ \A i \in DOMAIN p : p[i].node = "DNode" =>
                       typecheck_expr(p[i].condition, env) = {"Boolean"}
=============================================================================
