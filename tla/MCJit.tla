------------------------------- MODULE MCJit --------------------------------
(***************************************************************************)
(* Bytes of four values, so that an int is -128 .. 127 and a word          *)
(* -32768 .. 32767.  The sources: every expression of two operators over   *)
(* a variable and a number, every type at the edges of its width, pointers *)
(* and arrays, the statements inside each other, and pairs of pieces that  *)
(* are no programs, typed in one after the other.                          *)
(***************************************************************************)
EXTENDS Jit

Source(tree) == [tree |-> tree, text |-> Texts(tree)]
Piece(text) == [tree |-> <<>>, text |-> text]

IntVar(x) == Decl("int", FALSE, x, 0)
Let(x, v) == <<IntVar(x), Assign(x, "=", Num(v))>>
-----------------------------------------------------------------------------
Leaves == {Num(2), Var("x")}
AllOperators == {"+", "-", "*", "/", "%", "<", ">", "<=", ">=", "==", "!=", "&&", "||"}

OneOperator ==
  {Bin(l, op, r) : l \in Leaves, op \in AllOperators, r \in Leaves}
  \union {Un(op, l) : op \in {"-", "!"}, l \in Leaves}
  \union {Pre("++", "x"), Post("x", "--")}

(* One operator of each precedence, two where the order of operands counts. *)
Outer == {"+", "-", "*", "/", "<", "==", "&&", "||"}

TwoOperators ==
  OneOperator
  \union {Bin(e, op, l) : e \in OneOperator, op \in Outer, l \in Leaves}
  \union {Bin(Var("x"), op, e) : op \in Outer, e \in OneOperator}
  \union {Un(op, e) : op \in {"-", "!"}, e \in OneOperator}

Expressions == {Let("x", v) \o <<Ret(e)>> : v \in {0, 3}, e \in TwoOperators}
-----------------------------------------------------------------------------
Types == {"char", "int16_t", "int", "int64_t", "uint8_t", "uint16_t", "uint32_t"}
Edges == {1, 2, 3, 7, 8, 15, 127, 128, 255}
Ways == {StepOf(Post("u", "++")), StepOf(Pre("--", "u")),
         Assign("u", "+=", Num(1)), Assign("u", "-=", Num(3)), Assign("u", "*=", Num(2)),
         Assign("u", "/=", Num(2)), Assign("u", "%=", Num(3)),
         Assign("u", "=", Conv("uint8_t", Bin(Var("u"), "+", Num(1)))),
         Assign("u", "=", Un("-", Var("u")))}

Widths ==
  {<<IntVar("y"), Decl(t, FALSE, "u", 0), Assign("y", "=", Num(1)), Assign("u", "=", Num(v)), w,
     Ret(Bin(Var("u"), "+", Var("y")))>> : t \in Types, v \in Edges, w \in Ways}

(* An array between two variables, a pointer into it.                      *)
Field(t, n) ==
  <<IntVar("x"), Decl(t, FALSE, "a", n), Decl(t, TRUE, "p", 0), IntVar("y"),
    Assign("x", "=", Num(1)), Assign("y", "=", Num(5)), Assign("p", "=", Var("a"))>>

Puts == {SetAt("a", Var("x"), Num(7)), SetAt("p", Num(1), Var("y")), SetVia("p", Num(3)),
         Assign("p", "=", Bin(Var("p"), "+", Var("x"))),
         Assign("p", "=", Addr("a")),
         SetAt("a", Bin(Var("x"), "-", Num(1)), Bin(Var("y"), "*", Num(2)))}
Gets == {At("a", Num(1)), At("p", Num(0)), Un("*", Var("p")), Bin(Var("p"), "-", Var("a")),
         Un("*", Bin(Var("p"), "-", Num(1))), Bin(Var("x"), "*", Var("y")),
         Bin(At("a", Num(0)), "-", At("a", Var("x")))}
BytePuts == {Assign("p", "=", Bin(Num(1), "+", Var("p"))), StepOf(Post("p", "++")),
             Assign("p", "+=", Var("x"))}
Pointers ==
  {Field(t, n) \o <<s, w, Ret(g)>> :
     t \in {"int", "int16_t", "int64_t"}, n \in {3}, s \in Puts, w \in Puts, g \in Gets}
  \union {Field("char", 9) \o <<s, w, Ret(g)>> : s \in BytePuts, w \in Puts, g \in Gets}
-----------------------------------------------------------------------------
Counts == {Assign("y", "+=", Var("x")), StepOf(Post("x", "++")), StepOf(Pre("--", "y"))}
Guards == {Bin(Var("x"), "<", Num(3)), Bin(Var("y"), "&&", Bin(Var("x"), "<", Num(2))),
           Bin(Num(4), "!=", Var("y"))}
Inner == Counts \union {IfThen(g, s) : g \in Guards, s \in Counts}
               \union {Ret(Var("x"))}
Loops(S) ==
  {WhileDo(g, Group(<<s, StepOf(Post("x", "++"))>>)) : g \in Guards, s \in S}
  \union {DoUntil(Group(<<s, StepOf(Pre("++", "x"))>>), g) : g \in Guards, s \in S}
  \union {ForDo(Assign("x", "=", Num(1)), g, t, s) :
            g \in Guards, t \in {StepOf(Post("x", "++")), StepOf(Pre("++", "x")),
                                 Assign("x", "+=", Num(2))}, s \in S}
Choices(S) == {IfElse(g, s, t) : g \in Guards, s \in S, t \in S}

Flows ==
  {Let("x", 0) \o Let("y", 2) \o <<s, Ret(Bin(Var("x"), "*", Var("y")))>> :
     s \in Loops(Inner) \union Choices(Inner) \union Loops(Loops(Counts))}
-----------------------------------------------------------------------------
(* Beginnings, ends and wrong turns.                                       *)
Pieces ==
  {<<>>,
   <<T("return"), N(1), T("+")>>,
   <<T("return"), N(2)>>,
   <<T("if"), T("("), N(1), T(")")>>,
   <<T("for"), T("("), T(";"), T(";"), I("x"), T("++"), T(")")>>,
   <<T("int"), I("x"), T("="), N(1), T(";"), I("x")>>,
   <<I("x"), T("="), N(1)>>,
   <<T("else")>>,
   <<T("{"), T("int"), I("x")>>,
   <<T("int"), I("x"), T("["), I("y"), T("]"), T(";"), T("return"), N(1), T(";")>>,
   <<T("do"), T("{"), T("}"), T("while"), T("("), T(")")>>,
   <<T("return"), N(1), T("/"), N(0), T(";")>>,
   <<T("int"), I("x"), T("="), N(0), T(";"), T("return"), N(1), T("%"), I("x"), T(";")>>,
   <<I("x"), I("y"), T("return"), N(3), T(";"), T("return"), N(4), T(";")>>,
   <<T("int"), I("x"), T(";"), I("x"), T("++"), T(";"), T("*"), I("x"), T("="), N(1)>>,
   <<T("return"), T("&"), T("!"), T("++"), T(")")>>,
   <<N(1), T("="), N(2), T(";"), T("while"), T("("), T(")"), T(";")>>}

(* Programs that have a meaning: they end, and divide by nothing.          *)
Programs == {t \in Expressions \union Widths \union Pointers \union Flows : Meaning(t).ok}

MCSession ==
  {<<Source(t)>> : t \in Programs}
  \union {<<Piece(t), Piece(u)>> : t \in Pieces, u \in Pieces}
=============================================================================
