---------------------------- MODULE MCDeepStatics ----------------------------
(***************************************************************************)
(* A chart that declares static variables below the substates of the       *)
(* statechart, so that entering a state can fail:                          *)
(*                                                                         *)
(*   sc                                                                    *)
(*     A                                                                   *)
(*       D             local u, static m                                   *)
(*         D1, D2                                                          *)
(*     B  (history)    static n                                            *)
(*       E             static k, local v                                   *)
(*         F           local w                                             *)
(*           G                                                             *)
(*       H                                                                 *)
(***************************************************************************)
EXTENDS Simulator, SimulatorParameters

sc == <<"sc">>
A  == <<"sc", "A">>
D  == <<"sc", "A", "D">>
D1 == <<"sc", "A", "D", "D1">>
D2 == <<"sc", "A", "D", "D2">>
B  == <<"sc", "B">>
E  == <<"sc", "B", "E">>
F  == <<"sc", "B", "E", "F">>
G  == <<"sc", "B", "E", "F", "G">>
H  == <<"sc", "B", "H">>

MCIdentifiers == {"sc", "A", "D", "D1", "D2", "B", "E", "F", "G", "H"}
MCStates == {sc, A, D, D1, D2, B, E, F, G, H}
MCstates == [s \in MCStates |->
                CASE s = sc -> <<A, B>>
                  [] s = A  -> <<D>>
                  [] s = D  -> <<D1, D2>>
                  [] s = B  -> <<E, H>>
                  [] s = E  -> <<F>>
                  [] s = F  -> <<G>>
                  [] OTHER  -> << >>]
MCHistoryStates == {B}

MCDeclarations == {"u", "m", "n", "k", "v", "w"}
MCdeclarations == [s \in MCStates |->
                      CASE s = D  -> <<"u", "m">>
                        [] s = B  -> <<"n">>
                        [] s = E  -> <<"k", "v">>
                        [] s = F  -> <<"w">>
                        [] OTHER  -> << >>]
MCscope == [d \in MCDeclarations |->
               IF d \in {"m", "n", "k"} THEN "static" ELSE "local"]

MCentry == [s \in MCStates |->
               CASE s = D  -> Assign("u", Num(0))
                 [] s = D1 -> Assign("m", Var("u"))
                 [] s = B  -> Assign("n", Num(1))
                 [] s = F  -> Assign("w", Var("k"))
                 [] OTHER  -> Nothing]
MCexit == [s \in MCStates |->
              CASE s = F -> Assign("k", Var("n"))
                [] s = D -> Assign("m", Num(1))
                [] OTHER -> Nothing]

Tr(name, src, dst, st, trigger) ==
    [name |-> name, source |-> src, destination |-> dst, state |-> st,
     trigger |-> trigger, guard |-> Always, action |-> Nothing]

MCTransitions ==
    { Tr("t1", A, F, sc, "e1"),   \* through B and E down to F
      Tr("t2", B, A, sc, "e2"),
      Tr("t3", D1, D2, D, "e2"),
      Tr("t4", E, H, B, "e1"),
      Tr("t5", H, B, sc, "e1"),
      Tr("t6", F, F, E, "e3"),
      Tr("t7", D, D, A, "e3"),
      Tr("t8", H, G, B, "e3") }

MCInputs == {0}
MCevents == <<"e1", "e2", "e3">>
MCUserEvents == {"e1", "e2", "e3"}
=============================================================================
