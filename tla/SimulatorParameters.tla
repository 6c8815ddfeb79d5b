------------------------- MODULE SimulatorParameters -------------------------
(***************************************************************************)
(* The simulator's parameters given by the interpreter.                    *)
(***************************************************************************)
EXTENDS Interpreter

MCExecute(s, env) == executeStatement(s, env, 0)
MCEvaluate(e, env) == CHOOSE v \in evaluate(e, env) : TRUE
MCTrue == BoolC(TRUE)

MCInts == {IntC(n) : n \in -(2^(IntWidth - 1)) .. 2^(IntWidth - 1) - 1}
=============================================================================
