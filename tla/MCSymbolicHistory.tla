-------------------------- MODULE MCSymbolicHistory --------------------------
(***************************************************************************)
(* A chart with a history state, transitions that leave a composite state, *)
(* states of one name in two places, and an expression statement:          *)
(*                                                                         *)
(*   sc                static g                                            *)
(*     A (history)                                                         *)
(*       M                                                                 *)
(*       N             parameter p, which nothing initialises              *)
(*     B                                                                   *)
(*       M             local b                                             *)
(*     C               final: no transition leaves it                      *)
(***************************************************************************)
EXTENDS SymbolicSoundness

sc == <<"sc">>
A  == <<"sc", "A">>
AM == <<"sc", "A", "M">>
AN == <<"sc", "A", "N">>
B  == <<"sc", "B">>
BM == <<"sc", "B", "M">>
C  == <<"sc", "C">>

MCIdentifiers == {"sc", "A", "B", "C", "M", "N"}
MCStates == {sc, A, AM, AN, B, BM, C}
MCstates == [st \in MCStates |-> CASE st = sc -> <<A, B, C>>
                                   [] st = A  -> <<AM, AN>>
                                   [] st = B  -> <<BM>>
                                   [] OTHER   -> << >>]
MCHistoryStates == {A}

MCDeclarations == {"g", "p", "b"}
MCdeclarations == [st \in MCStates |-> CASE st = sc -> <<"g">>
                                         [] st = AN -> <<"p">>
                                         [] st = BM -> <<"b">>
                                         [] OTHER   -> << >>]
MCscope == [d \in MCDeclarations |-> CASE d = "g" -> "static"
                                       [] d = "p" -> "parameter"
                                       [] d = "b" -> "local"]
MCvname == [d \in MCDeclarations |-> d]
MCtypeName == [d \in MCDeclarations |-> IF d = "b" THEN "boolean" ELSE "int"]

MCentry == [st \in MCStates |-> IF st = AN THEN Assign("g", Bin(Var("g"), "+", Var("p")))
                                           ELSE Nothing]
MCexit == [st \in MCStates |-> Nothing]

Tr(name, src, dst, st, guard, action) ==
    [name |-> name, source |-> src, destination |-> dst, state |-> st,
     trigger |-> "e", guard |-> guard, action |-> action]

MCall_ts ==
    << Tr("back", B, A, sc, Always, Nothing),
       Tr("out", AN, B, sc, Always, Assign("g", Input)),
       Tr("leave", A, B, sc, Bin(Var("g"), "!=", Num(0)), Nothing),
       Tr("stop", AN, C, sc, Always, Nothing),
       Tr("on", AM, AN, A, Always, Nothing),
       Tr("again", AM, AM, A, Bin(Var("g"), "!=", Num(0)), Perform(Input)) >>
MCTransitions == Range(MCall_ts)
MCevents == <<"e">>
MCSolverInts == 0 .. 1
=============================================================================
