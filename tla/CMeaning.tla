------------------------------ MODULE CMeaning ------------------------------
(***************************************************************************)
(* What a program of the compiler's dialect of C means, on its syntax      *)
(* tree, without code, registers or a stack; and the tokens it is written  *)
(* with.  A value is a word, kept in a variable as its type's bytes keep   *)
(* it; expressions are computed in words, from left to right.              *)
(***************************************************************************)
EXTENDS Words, Sequences, FiniteSets, TLC

CONSTANT Fuel   \* bound: how many turns the loops of a program take

(* Expressions and statements.                                             *)
Num(v) == [k |-> "num", v |-> v]
Var(x) == [k |-> "var", x |-> x]
Bin(l, op, r) == [k |-> "bin", op |-> op, l |-> l, r |-> r]
Un(op, e) == [k |-> "un", op |-> op, e |-> e]           \* - ! *
Addr(x) == [k |-> "addr", x |-> x]
Conv(t, e) == [k |-> "cast", t |-> t, e |-> e]
Pre(op, x) == [k |-> "pre", op |-> op, x |-> x]
Post(x, op) == [k |-> "post", op |-> op, x |-> x]
At(x, e) == [k |-> "at", x |-> x, e |-> e]

Decl(t, ptr, x, n) == [k |-> "decl", t |-> t, ptr |-> ptr, x |-> x, n |-> n]
Assign(x, op, e) == [k |-> "assign", x |-> x, op |-> op, e |-> e]
SetAt(x, i, e) == [k |-> "set_at", x |-> x, i |-> i, e |-> e]
SetVia(x, e) == [k |-> "set_via", x |-> x, e |-> e]
StepOf(e) == [k |-> "step", e |-> e]
Ret(e) == [k |-> "return", e |-> e]
IfThen(e, a) == [k |-> "if", e |-> e, a |-> a]
IfElse(e, a, b) == [k |-> "else", e |-> e, a |-> a, b |-> b]
WhileDo(e, a) == [k |-> "while", e |-> e, a |-> a]
DoUntil(a, e) == [k |-> "do", e |-> e, a |-> a]
ForDo(s, e, t, a) == [k |-> "for", s |-> s, e |-> e, t |-> t, a |-> a]
Group(ss) == [k |-> "block", ss |-> ss]
-----------------------------------------------------------------------------
(* The tokens of a tree, in brackets only where the grammar wants them.    *)
T(t) == [type |-> t, value |-> 0, ident |-> ""]
N(v) == [type |-> "number", value |-> v, ident |-> ""]
I(x) == [type |-> "ident", value |-> 0, ident |-> x]

Level(op) ==
  CASE op = "||" -> 1
    [] op = "&&" -> 2
    [] op \in {"==", "!="} -> 3
    [] op \in {"<", ">", "<=", ">="} -> 4
    [] op \in {"+", "-"} -> 5
    [] op \in {"*", "/", "%"} -> 6
Chains(op) == Level(op) \notin {3, 4}

RECURSIVE Tokens(_, _)
Tokens(e, least) ==
  LET bare ==
        CASE e.k = "num" -> <<N(e.v)>>
          [] e.k = "var" -> <<I(e.x)>>
          [] e.k = "un" -> <<T(e.op)>> \o Tokens(e.e, 8)
          [] e.k = "addr" -> <<T("&"), I(e.x)>>
          [] e.k = "cast" -> <<T("("), T(e.t), T(")")>> \o Tokens(e.e, 8)
          [] e.k = "pre" -> <<T(e.op), I(e.x)>>
          [] e.k = "post" -> <<I(e.x), T(e.op)>>
          [] e.k = "at" -> <<I(e.x), T("[")>> \o Tokens(e.e, 1) \o <<T("]")>>
          [] e.k = "bin" -> Tokens(e.l, IF Chains(e.op) THEN Level(e.op) ELSE Level(e.op) + 1)
                            \o <<T(e.op)>> \o Tokens(e.r, Level(e.op) + 1)
      level == IF e.k = "bin" THEN Level(e.op) ELSE IF e.k = "un" /\ e.op = "-" THEN 7 ELSE 8
  IN  IF level < least THEN <<T("(")>> \o bare \o <<T(")")>> ELSE bare

In(e) == <<T("(")>> \o Tokens(e, 1) \o <<T(")")>>

RECURSIVE Text(_), Texts(_)
Texts(ss) == IF ss = <<>> THEN <<>> ELSE Text(Head(ss)) \o Texts(Tail(ss))

(* The statements of a for's head have no semicolon of their own.          *)
Headless(s) == SubSeq(Text(s), 1, Len(Text(s)) - 1)

Text(s) ==
  CASE s.k = "decl" -> <<T(s.t)>> \o (IF s.ptr THEN <<T("*")>> ELSE <<>>) \o <<I(s.x)>>
                       \o (IF s.n > 0 THEN <<T("["), N(s.n), T("]")>> ELSE <<>>) \o <<T(";")>>
    [] s.k = "assign" -> <<I(s.x), T(s.op)>> \o Tokens(s.e, 1) \o <<T(";")>>
    [] s.k = "set_at" -> Tokens(At(s.x, s.i), 1) \o <<T("=")>> \o Tokens(s.e, 1) \o <<T(";")>>
    [] s.k = "set_via" -> <<T("*"), I(s.x), T("=")>> \o Tokens(s.e, 1) \o <<T(";")>>
    [] s.k = "step" -> Tokens(s.e, 1) \o <<T(";")>>
    [] s.k = "return" -> <<T("return")>> \o Tokens(s.e, 1) \o <<T(";")>>
    [] s.k = "if" -> <<T("if")>> \o In(s.e) \o Text(s.a)
    [] s.k = "else" -> <<T("if")>> \o In(s.e) \o Text(s.a) \o <<T("else")>> \o Text(s.b)
    [] s.k = "while" -> <<T("while")>> \o In(s.e) \o Text(s.a)
    [] s.k = "do" -> <<T("do")>> \o Text(s.a) \o <<T("while")>> \o In(s.e) \o <<T(";")>>
    [] s.k = "for" -> <<T("for"), T("(")>> \o Text(s.s) \o Tokens(s.e, 1) \o <<T(";")>>
                      \o Headless(s.t) \o <<T(")")>> \o Text(s.a)
    [] s.k = "block" -> <<T("{")>> \o Texts(s.ss) \o <<T("}")>>
-----------------------------------------------------------------------------
(* Where the variables are is nobody's business: a pointer is the number   *)
(* of a variable and of an element in it.                                  *)
Names == <<"x", "y", "i", "c", "u", "a", "p", "q">>
Room == 16
Location(x, i) == (CHOOSE n \in DOMAIN Names : Names[n] = x) * Room + i
NameAt(l) == Names[l \div Room]

OneByteTypes == {"char", "int8_t", "uint8_t"}
Unsigned == {"uint8_t", "uint16_t", "uint32_t"}   \* a whole word is always signed
Bytes(t) ==
  CASE t \in OneByteTypes -> 1
    [] t \in {"int16_t", "uint16_t"} -> 2
    [] t \in {"int", "int32_t", "uint32_t"} -> 4
    [] OTHER -> 8

(* m: the variables, whether a return was met and its value, whether all   *)
(* that was done so far has a meaning, and the turns left.                 *)
Start == [env |-> <<>>, returned |-> FALSE, result |-> 0, ok |-> TRUE, fuel |-> Fuel]
Undefined(m) == [m EXCEPT !.ok = FALSE]

Has(m, x, i) == x \in DOMAIN m.env /\ i \in 0 .. m.env[x].n - 1
Kept(m, x, v) ==
  LET b == m.env[x] IN IF b.ptr THEN v ELSE Wrap(v, Bytes(b.t), b.t \notin Unsigned)
Read(m, x, i) == m.env[x].vals[i]
CanRead(m, x, i) == Has(m, x, i) /\ i \in DOMAIN m.env[x].vals
Write(m, x, i, v) ==
  IF ~Has(m, x, i) THEN Undefined(m)
  ELSE [m EXCEPT !.env[x].vals = (i :> Kept(m, x, v)) @@ @]
(* An element through a pointer is of the type pointed to.                 *)
ValidAt(m, l) == l \div Room \in DOMAIN Names /\ CanRead(m, NameAt(l), l % Room)

Bool(b) == IF b THEN 1 ELSE 0
Apply(op, a, b) ==
  CASE op \in {"+", "+="} -> ToWord(a + b)
    [] op \in {"-", "-="} -> ToWord(a - b)
    [] op \in {"*", "*="} -> ToWord(a * b)
    [] op \in {"/", "/="} -> Quotient(a, b)
    [] op \in {"%", "%="} -> Remainder(a, b)
    [] op = "<" -> Bool(a < b)
    [] op = ">" -> Bool(a > b)
    [] op = "<=" -> Bool(a <= b)
    [] op = ">=" -> Bool(a >= b)
    [] op = "==" -> Bool(a = b)
    [] op = "!=" -> Bool(a # b)
Divides(op) == op \in {"/", "%", "/=", "%="}

(* The value of e and what its evaluation leaves: <<v, m>>.                *)
RECURSIVE Value(_, _)
Fetch(x, i, m) == IF CanRead(m, x, i) THEN <<Read(m, x, i), m>> ELSE <<0, Undefined(m)>>

Stepped(op, x, m) == Write(m, x, 0, Read(m, x, 0) + (IF op = "++" THEN 1 ELSE -1))

Value(e, m) ==
  LET sub == Value(e.e, m)
      left == Value(e.l, m)
      right == Value(e.r, left[2])
      logic(short) == IF (left[1] # 0) = short THEN <<Bool(short), left[2]>>
                      ELSE <<Bool(right[1] # 0), right[2]>>
  IN  IF ~m.ok THEN <<0, m>> ELSE
      CASE e.k = "num" -> <<ToWord(e.v), m>>
        [] e.k = "var" -> IF e.x \in DOMAIN m.env /\ m.env[e.x].array
                          THEN <<Location(e.x, 0), m>> ELSE Fetch(e.x, 0, m)
        [] e.k = "addr" -> <<Location(e.x, 0), m>>
        [] e.k = "pre" -> IF CanRead(m, e.x, 0) THEN Fetch(e.x, 0, Stepped(e.op, e.x, m))
                          ELSE <<0, Undefined(m)>>
        [] e.k = "post" -> IF CanRead(m, e.x, 0) THEN <<Read(m, e.x, 0), Stepped(e.op, e.x, m)>>
                           ELSE <<0, Undefined(m)>>
        [] e.k = "at" -> LET l == Value(Var(e.x), m)[1] + sub[1]
                         IN  IF sub[2].ok /\ ValidAt(sub[2], l)
                             THEN Fetch(NameAt(l), l % Room, sub[2]) ELSE <<0, Undefined(m)>>
        [] e.k = "un" /\ e.op = "-" -> <<ToWord(-sub[1]), sub[2]>>
        [] e.k = "un" /\ e.op = "!" -> <<Bool(sub[1] = 0), sub[2]>>
        [] e.k = "un" /\ e.op = "*" ->
             IF sub[2].ok /\ ValidAt(sub[2], sub[1])
             THEN Fetch(NameAt(sub[1]), sub[1] % Room, sub[2]) ELSE <<0, Undefined(m)>>
        [] e.k = "cast" -> <<IF Bytes(e.t) = 8 THEN sub[1] ELSE Wrap(sub[1], Bytes(e.t), FALSE),
                             sub[2]>>
        [] e.k = "bin" /\ e.op = "&&" -> logic(FALSE)
        [] e.k = "bin" /\ e.op = "||" -> logic(TRUE)
        [] e.k = "bin" /\ e.op \notin {"&&", "||"} ->
             IF ~right[2].ok \/ (Divides(e.op) /\ right[1] = 0) THEN <<0, Undefined(m)>>
             ELSE <<Apply(e.op, left[1], right[1]), right[2]>>

RECURSIVE Run(_, _), RunAll(_, _)
RunAll(ss, m) == IF ss = <<>> THEN m ELSE RunAll(Tail(ss), Run(Head(ss), m))

(* One turn less.                                                          *)
Turn(m) == IF m.fuel = 0 THEN Undefined(m) ELSE [m EXCEPT !.fuel = @ - 1]

Run(s, m) ==
  LET r == Value(s.e, m)
      v == r[1]
      n == r[2]
      place == Value(s.i, m)
  IN  IF ~m.ok \/ m.returned THEN m ELSE
      CASE s.k = "decl" ->
             [m EXCEPT !.env = (s.x :> [t |-> s.t, ptr |-> s.ptr, array |-> s.n > 0,
                                        n |-> IF s.n > 0 THEN s.n ELSE 1, vals |-> <<>>]) @@ @]
        [] s.k = "assign" ->
             IF s.op = "=" THEN Write(n, s.x, 0, v)
             ELSE IF ~n.ok \/ ~CanRead(n, s.x, 0) \/ (Divides(s.op) /\ v = 0) THEN Undefined(m)
             ELSE Write(n, s.x, 0, Apply(s.op, Read(n, s.x, 0), v))
        [] s.k = "set_at" ->
             LET l == Value(Var(s.x), m)[1] + place[1]
                 w == Value(s.e, place[2])
             IN  IF l \div Room \notin DOMAIN Names \/ ~w[2].ok THEN Undefined(m)
                 ELSE Write(w[2], NameAt(l), l % Room, w[1])
        [] s.k = "set_via" ->
             LET l == Read(n, s.x, 0)
             IN  IF ~n.ok \/ ~CanRead(n, s.x, 0) THEN Undefined(m)
                 ELSE IF l \div Room \notin DOMAIN Names THEN Undefined(m)
                 ELSE Write(n, NameAt(l), l % Room, v)
        [] s.k = "step" -> n
        [] s.k = "return" -> [n EXCEPT !.returned = n.ok, !.result = Wrap(v, 4, TRUE)]
        [] s.k = "if" -> IF v # 0 THEN Run(s.a, n) ELSE n
        [] s.k = "else" -> Run(IF v # 0 THEN s.a ELSE s.b, n)
        [] s.k = "while" -> IF v # 0 THEN Run(s, Turn(Run(s.a, n))) ELSE n
        [] s.k = "do" -> LET b == Turn(Run(s.a, m))
                             t == Value(s.e, b)
                         IN  IF b.returned \/ ~b.ok THEN b
                             ELSE IF t[1] = 0 THEN t[2] ELSE Run(s, t[2])
        [] s.k = "for" -> Run(WhileDo(s.e, Group(<<s.a, s.t>>)), Run(s.s, m))
        [] s.k = "block" -> RunAll(s.ss, m)

(* What the program returns; a program without a return gives 0.           *)
Meaning(tree) == RunAll(tree, Start)
-----------------------------------------------------------------------------
(* An && or || that is evaluated while an operand waits on the stack: the  *)
(* right operand of an arithmetic operator or a comparison, an index, or   *)
(* what is assigned to an element.                                         *)
RECURSIVE Waits(_, _)
Waits(e, held) ==
  CASE e.k = "bin" /\ e.op \in {"&&", "||"} -> held \/ Waits(e.l, held) \/ Waits(e.r, held)
    [] e.k = "bin" /\ e.op \notin {"&&", "||"} -> Waits(e.l, held) \/ Waits(e.r, TRUE)
    [] e.k \in {"un", "cast"} -> Waits(e.e, held)
    [] e.k = "at" -> Waits(e.e, TRUE)
    [] OTHER -> FALSE

RECURSIVE LogicWaits(_)
LogicWaits(s) ==
  CASE s.k \in {"assign", "set_via", "step", "return"} -> Waits(s.e, FALSE)
    [] s.k = "set_at" -> Waits(s.i, TRUE) \/ Waits(s.e, TRUE)
    [] s.k \in {"if", "while", "do"} -> Waits(s.e, FALSE) \/ LogicWaits(s.a)
    [] s.k = "else" -> Waits(s.e, FALSE) \/ LogicWaits(s.a) \/ LogicWaits(s.b)
    [] s.k = "for" -> Waits(s.e, FALSE) \/ LogicWaits(s.s) \/ LogicWaits(s.t) \/ LogicWaits(s.a)
    [] s.k = "block" -> \E i \in DOMAIN s.ss : LogicWaits(s.ss[i])
    [] OTHER -> FALSE
=============================================================================
