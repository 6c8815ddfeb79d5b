---------------------------- MODULE MCImperative ----------------------------
(***************************************************************************)
(* Programs of a few statements over integers and booleans.  A variable    *)
(* has the name of a symbol, one is declared twice with two types.         *)
(***************************************************************************)
EXTENDS ImperativeSoundness

MCDeclarationLists ==
    { << <<"x", "Integer">>, <<"y", "Boolean">> >>,
      << <<"X1", "Integer">>, <<"x", "Integer">>, <<"y", "Boolean">> >>,
      << <<"x", "Boolean">>, <<"y", "Boolean">>, <<"x", "Integer">> >> }

x == Id("x")
y == Id("y")
One == IntConst(1)

Empty == Block(<< >>)

MCStatements ==
    { Assignment("x", Input("Integer")),
      Assignment("x", Bin("Add", x, One)),
      Assignment("y", Input("Boolean")),
      Assignment("y", Bin("Equals", x, Input("Integer"))),
      Assignment("X1", Bin("Sub", x, Id("X1"))),
      Assignment("x", Bin("Sub", Id("X1"), Input("Integer"))),
      Assignment("x", y),
      If(x, Empty, Empty),
      If(y, Assignment("x", Input("Integer")),
            Block(<<Assignment("x", Bin("Sub", x, One)), Assignment("y", Bin("Equals", x, One))>>)),
      If(Bin("Or", Not(y), Bin("Equals", x, One)),
         If(Bin("And", y, Input("Boolean")), Empty, Assignment("y", Not(y))),
         Block(<<If(Bin("Equals", x, IntConst(0)), Empty, Assignment("x", IntConst(0))),
                 Assignment("y", Bin("Equals", y, Input("Boolean")))>>)) }

MCSymbolNames == [i \in 1 .. 64 |-> "X" \o ToString(i)]

MCInputValues == {[Integer |-> 0, Boolean |-> FALSE], [Integer |-> 1, Boolean |-> TRUE],
                  [Integer |-> 0, Boolean |-> TRUE]}
=============================================================================
