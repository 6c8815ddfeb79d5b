----------------------------- MODULE MCSymbolic -----------------------------
(***************************************************************************)
(* A chart whose transitions leave atomic states and exclude each other,   *)
(* so that all leaves of a round are in the same state; the branches of an *)
(* if statement split a leaf in two.                                       *)
(*                                                                         *)
(*   sc                static g, n                                         *)
(*     A               local x                                             *)
(*       A1, A2                                                            *)
(*     B               parameter p, local q                                *)
(*       B1                                                                *)
(***************************************************************************)
EXTENDS SymbolicSoundness

sc == <<"sc">>
A  == <<"sc", "A">>
A1 == <<"sc", "A", "A1">>
A2 == <<"sc", "A", "A2">>
B  == <<"sc", "B">>
B1 == <<"sc", "B", "B1">>

MCIdentifiers == {"sc", "A", "A1", "A2", "B", "B1"}
MCStates == {sc, A, A1, A2, B, B1}
MCstates == [st \in MCStates |-> CASE st = sc -> <<A, B>>
                                   [] st = A  -> <<A1, A2>>
                                   [] st = B  -> <<B1>>
                                   [] OTHER   -> << >>]

MCDeclarations == {"g", "n", "x", "p", "q"}
MCdeclarations == [st \in MCStates |-> CASE st = sc -> <<"g", "n">>
                                         [] st = A  -> <<"x">>
                                         [] st = B  -> <<"p", "q">>
                                         [] OTHER   -> << >>]
MCscope == [d \in MCDeclarations |-> CASE d \in {"g", "n"} -> "static"
                                       [] d = "p"          -> "parameter"
                                       [] OTHER            -> "local"]
MCvname == [d \in MCDeclarations |-> d]
MCtypeName == [d \in MCDeclarations |-> "int"]

Plus(l, r) == Bin(l, "+", r)

(* The entry of A1 moves values around a cycle of variables, so that the
   order of the assignments matters.                                       *)
MCentry == [st \in MCStates |->
               CASE st = sc -> Assign("g", Input)
                 [] st = A1 -> Block(<<Assign("x", Plus(Var("g"), Num(1))),
                                       Assign("g", Plus(Var("x"), Var("n")))>>)
                 [] st = B1 -> If(Bin(Var("p"), "!=", Num(1)),
                                  Assign("q", Var("p")), Assign("q", Num(0)))
                 [] OTHER   -> Nothing]
MCexit == [st \in MCStates |->
              IF st = A2
              THEN Block(<<If(Bin(Var("x"), "!=", Var("g")),
                              Assign("x", Bin(Var("x"), "-", Var("g"))),
                              Assign("x", Num(1))),
                           Assign("g", Plus(Var("g"), Var("x")))>>)
              ELSE Nothing]

Tr(name, src, dst, st, guard, action) ==
    [name |-> name, source |-> src, destination |-> dst, state |-> st,
     trigger |-> "e", guard |-> guard, action |-> action]

MCall_ts ==
    << Tr("t1", A2, B1, sc, Bin(Var("n"), "!=", Num(0)),
          Assign("p", Plus(Var("x"), Var("n")))),
       Tr("t2", B1, A1, sc, Bin(Plus(Var("n"), Num(1)), "<", Num(3)), Nothing),
       Tr("t3", B1, A2, sc, Bin(Var("n"), "!=", Num(1)), Assign("g", Input)),
       Tr("t4", A1, A2, A, Always, Assign("n", Plus(Var("n"), Num(1)))) >>
MCTransitions == Range(MCall_ts)
MCevents == <<"e">>
MCSolverInts == -1 .. 2

ASSUME NoDeadEnds /\ BlocksContinueFrom(startnode)
ASSUME DistinctNames /\ AtomicSources /\ BlocksQuietFrom(startnode)
=============================================================================
