----------------------------- MODULE MCSimulator -----------------------------
(***************************************************************************)
(* A chart with two levels of history, a static variable, a parameter and  *)
(* locals at two depths:                                                   *)
(*                                                                         *)
(*   sc                 static g                                           *)
(*     A   (history)    static n                                           *)
(*       A1             local x                                            *)
(*       A2  (history)                                                     *)
(*         P, Q                                                            *)
(*     B                parameter p, local y                               *)
(*       C              local z                                            *)
(***************************************************************************)
EXTENDS SimulatorRefinement, SimulatorParameters

sc == <<"sc">>
A  == <<"sc", "A">>
A1 == <<"sc", "A", "A1">>
A2 == <<"sc", "A", "A2">>
P  == <<"sc", "A", "A2", "P">>
Q  == <<"sc", "A", "A2", "Q">>
B  == <<"sc", "B">>
C  == <<"sc", "B", "C">>

MCIdentifiers == {"sc", "A", "A1", "A2", "P", "Q", "B", "C"}
MCStates == {sc, A, A1, A2, P, Q, B, C}
MCstates == [s \in MCStates |->
                CASE s = sc -> <<A, B>>
                  [] s = A  -> <<A1, A2>>
                  [] s = A2 -> <<P, Q>>
                  [] s = B  -> <<C>>
                  [] OTHER  -> << >>]
MCHistoryStates == {A, A2}

MCDeclarations == {"g", "n", "x", "p", "y", "z"}
MCdeclarations == [s \in MCStates |->
                      CASE s = sc -> <<"g">>
                        [] s = A  -> <<"n">>
                        [] s = A1 -> <<"x">>
                        [] s = B  -> <<"p", "y">>
                        [] s = C  -> <<"z">>
                        [] OTHER  -> << >>]
MCscope == [d \in MCDeclarations |->
               CASE d \in {"g", "n"} -> "static"
                 [] d = "p"          -> "parameter"
                 [] OTHER            -> "local"]

(* Entering A2 counts, leaving A1 copies a local into the static of A, the
   entry of B uses the parameter, leaving B reports to the statechart.  The
   exit statement of Q does not end when g is negative.                    *)
MCentry == [s \in MCStates |->
               CASE s = sc -> Assign("g", Num(0))
                 [] s = A1 -> Assign("x", Var("g"))
                 [] s = A2 -> If(Bin(Var("n"), "<", Num(1)),
                                 Assign("n", Bin(Var("n"), "+", Num(1))), Nothing)
                 [] s = B  -> Assign("y", Var("p"))
                 [] s = C  -> Assign("z", Bin(Var("y"), "-", Var("p")))
                 [] OTHER  -> Nothing]
MCexit == [s \in MCStates |->
              CASE s = A1 -> Assign("n", Var("x"))
                [] s = B  -> Assign("g", Var("y"))
                [] s = Q  -> While(Bin(Var("g"), "<", Num(0)), Nothing)
                [] OTHER  -> Nothing]

Tr(name, src, dst, st, trigger, guard, action) ==
    [name |-> name, source |-> src, destination |-> dst, state |-> st,
     trigger |-> trigger, guard |-> guard, action |-> action]

(* t6 and t11 have the trigger null and may be enabled together with t1 and
   t4; t3 and t7 are both enabled in C when p < 0 and the event is e1; t5
   assigns the local of a state it is about to enter; t8 and t9 leave and
   enter their own source.                                                 *)
MCTransitions ==
    { Tr("t1", A1, A2, A, "e1", Always, Nothing),
      Tr("t2", A, B, sc, "e2", Always, Assign("p", Bin(Num(0), "-", Var("g")))),
      Tr("t3", B, A, sc, "e1", Always, Nothing),
      Tr("t4", P, Q, A2, "e1", Always, Nothing),
      Tr("t5", Q, C, sc, "e1", Always,
         Block(<<Assign("p", Input), Assign("y", Num(1))>>)),
      Tr("t6", A1, P, A, "null", Bin(Var("g"), "=", Num(1)), Nothing),
      Tr("t7", C, A1, sc, "e1", Bin(Var("p"), "<", Num(0)), Nothing),
      Tr("t8", A2, A2, A, "e3", Always, Nothing),
      Tr("t9", B, B, sc, "e2", Always, Assign("p", Bin(Num(0), "-", Var("p")))),
      Tr("t10", C, A1, sc, "e3", Bin(Var("z"), "=", Num(0)), Nothing),
      Tr("t11", P, C, sc, "null", Bin(Var("n"), "!=", Num(1)), Nothing) }

MCevents == <<"e1", "null", "e2", "e3">>
MCInputs == {-1, 0}
MCUserEvents == {"e1", "e2", "e3"}

(* The chart meets the hypotheses of the theorems about scoping.           *)
ASSUME NoDeepStatics /\ StatementsRespectScope
=============================================================================
