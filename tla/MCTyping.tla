------------------------------ MODULE MCTyping ------------------------------
(***************************************************************************)
(* Names that hide each other, every type, qualified names and a struct:   *)
(*                                                                         *)
(*   sc                static n : int, f : boolean                         *)
(*     A               local n : string, u : User                          *)
(*       A1            local f : int                                       *)
(*     B               parameter p : int, local f : string                 *)
(*       B1            parameter q : boolean, local n : boolean            *)
(***************************************************************************)
EXTENDS TypedExecution

sc == <<"sc">>
A  == <<"sc", "A">>
A1 == <<"sc", "A", "A1">>
B  == <<"sc", "B">>
B1 == <<"sc", "B", "B1">>

MCIdentifiers == {"sc", "A", "A1", "B", "B1"}
MCStates == {sc, A, A1, B, B1}
MCstates == [st \in MCStates |-> CASE st = sc -> <<A, B>>
                                   [] st = A  -> <<A1>>
                                   [] st = B  -> <<B1>>
                                   [] OTHER   -> << >>]

MCdeclarations == [st \in MCStates |-> CASE st = sc -> <<"sc_n", "sc_f">>
                                         [] st = A  -> <<"A_n", "A_u">>
                                         [] st = A1 -> <<"A1_f">>
                                         [] st = B  -> <<"B_p", "B_f">>
                                         [] st = B1 -> <<"B1_q", "B1_n">>]
MCDeclarations == {"sc_n", "sc_f", "A_n", "A_u", "A1_f", "B_p", "B_f", "B1_q", "B1_n"}
MCscope == [d \in MCDeclarations |-> CASE d \in {"sc_n", "sc_f"}  -> "static"
                                       [] d \in {"B_p", "B1_q"}   -> "parameter"
                                       [] OTHER                   -> "local"]
MCvname == [d \in MCDeclarations |-> CASE d \in {"sc_n", "A_n", "B1_n"} -> "n"
                                       [] d \in {"sc_f", "A1_f", "B_f"} -> "f"
                                       [] d = "A_u"  -> "u"
                                       [] d = "B_p"  -> "p"
                                       [] d = "B1_q" -> "q"]
MCtypeName == [d \in MCDeclarations |->
                  CASE d \in {"sc_n", "A1_f", "B_p"}    -> "int"
                    [] d \in {"sc_f", "B1_q", "B1_n"}   -> "boolean"
                    [] d \in {"A_n", "B_f"}             -> "string"
                    [] d = "A_u"                        -> "User"]

MCstructs == [User |-> [name |-> "string", age |-> "int"]]
MCfunctions == [input |-> [parameters |-> << >>, returns |-> "int"]]

MCTransitions ==
    {[name |-> "t", source |-> A1, destination |-> B1, state |-> sc, trigger |-> "e"],
     [name |-> "self", source |-> B, destination |-> B, state |-> sc, trigger |-> "e"]}
MCevents == <<"e">>

Id(v) == Name(<<v>>)
Names == {Id("n"), Id("f"), Id("p"), Id("q"), Name(<<"sc", "n">>)}
Constants == {Num(1), Const(BoolC(TRUE)), Const(StrC("a"))}
Simple == Names \cup Constants \cup {Input}

SimpleExpressions ==
    {Bin(l, op, r) : l \in Names \cup Constants, r \in Simple,
                     op \in {"+", "/", "<", "=", "!=", "&&", "||"}}

MCExpressions ==
    SimpleExpressions \cup
    {Bin(Bin(l, "-", Num(1)), op, r) : l \in Names, r \in Simple, op \in {"*", ">=", "="}}

To(name, e) == [kind |-> "assign", lhs |-> name, rhs |-> e]

MCStatements ==
    {To(name, e) : name \in Names \cup {Name(<<"sc", "B", "p">>)},
                   e \in Simple \cup {Bin(l, op, Num(1)) : l \in Names, op \in {"+", "/", "<"}}
                                \cup {Bin(Id("f"), op, r) : r \in Names, op \in {"=", "||"}}}
      \cup {If(Bin(Id("n"), "<", Num(1)), To(Id("n"), Num(1)), To(Id("n"), e)) : e \in Simple}
      \cup {While(Bin(Id("f"), "<", Num(1)), To(Id("f"), Bin(Id("f"), "+", e))) : e \in Constants}
      \cup {Perform(Input), [kind |-> "halt"]}

(* Fields of a struct.                                                     *)
Fields == {Name(<<"u", "name">>), Name(<<"u", "age">>), Name(<<"sc", "A", "u", "name">>)}

MCFieldStatements == {To(x, e) : x \in Fields, e \in Simple \cup Fields}
MCFieldExpressions == Fields

(* Assignments to qualified names.                                         *)
MCQualified == {To(Name(<<"sc", "A", "n">>), e) : e \in Constants}

MCInts == -2 .. 1
=============================================================================
