------------------------------ MODULE MCOneShot ------------------------------
(***************************************************************************)
(* A chart that runs on its own: transitions with the trigger null keep it *)
(* going when an event finds no transition and when there is no event left.*)
(*                                                                         *)
(*   sc                 static g                                           *)
(*     Idle                                                                *)
(*     Work (history)   local w                                            *)
(*       W1, W2                                                            *)
(***************************************************************************)
EXTENDS Simulator, SimulatorParameters

sc   == <<"sc">>
Idle == <<"sc", "Idle">>
Work == <<"sc", "Work">>
W1   == <<"sc", "Work", "W1">>
W2   == <<"sc", "Work", "W2">>

MCIdentifiers == {"sc", "Idle", "Work", "W1", "W2"}
MCStates == {sc, Idle, Work, W1, W2}
MCstates == [s \in MCStates |->
                CASE s = sc   -> <<Idle, Work>>
                  [] s = Work -> <<W1, W2>>
                  [] OTHER    -> << >>]
MCHistoryStates == {Work}

MCDeclarations == {"g", "w"}
MCdeclarations == [s \in MCStates |->
                      CASE s = sc   -> <<"g">>
                        [] s = Work -> <<"w">>
                        [] OTHER    -> << >>]
MCscope == [d \in MCDeclarations |-> IF d = "g" THEN "static" ELSE "local"]

MCentry == [s \in MCStates |->
               CASE s = sc   -> Assign("g", Num(0))
                 [] s = Work -> Assign("w", Var("g"))
                 [] s = W2   -> Assign("w", Bin(Var("w"), "*", Num(2)))
                 [] OTHER    -> Nothing]
MCexit == [s \in MCStates |->
              IF s = Work THEN Assign("g", Var("w")) ELSE Nothing]

Tr(name, src, dst, st, trigger, guard, action) ==
    [name |-> name, source |-> src, destination |-> dst, state |-> st,
     trigger |-> trigger, guard |-> guard, action |-> action]

MCTransitions ==
    { Tr("start", Idle, Work, sc, "e1", Always, Assign("g", Input)),
      Tr("there", W1, W2, Work, "e2", Always, Nothing),
      Tr("back", W2, W1, Work, "e3", Bin(Var("w"), "<", Num(1)), Nothing),
      Tr("stop", Work, Idle, sc, "e4", Always, Nothing),
      Tr("wait", Idle, Idle, sc, "null", Always, Nothing),
      Tr("tick", W1, W2, Work, "null", Bin(Var("w"), "<", Num(0)), Nothing),
      Tr("tock", W2, Work, sc, "null", Bin(Var("g"), "<", Num(2)),
         Assign("g", Bin(Var("g"), "+", Num(1)))) }

MCevents == <<"e5", "e1", "e2", "e3", "null", "e4">>
MCInputs == -2 .. 2
MCUserEvents == {}
=============================================================================
