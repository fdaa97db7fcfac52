------------------------------ MODULE Compiler ------------------------------
(***************************************************************************)
(* compiler.cpp: one pass over the tokens that emits machine code as it    *)
(* parses.  p, the parser's state, holds what the code keeps in globals:   *)
(* the token stream and the place in it, the code, the table of variables, *)
(* the size of the frame, the number of errors; as type, the type that the *)
(* last of the expression functions returned; and, as todo, what is left   *)
(* to do in the functions that have been called and have not returned: the *)
(* call stack of the recursive descent, with what their locals remember.   *)
(* A thing to do is a tuple: what, and its arguments.                      *)
(*                                                                         *)
(* An instruction is a record, its address its place in the code: bytes of *)
(* code only matter to jumps, which the code patches by offset and the     *)
(* model by place.                                                         *)
(***************************************************************************)
EXTENDS Words, Sequences, FiniteSets

CONSTANT FrameAlign   \* 16, of the ABI

ASSUME FrameAlign \in Nat \ {0}
-----------------------------------------------------------------------------
(* Tokens, as lex leaves them: text starts with the tokens of the source   *)
(* and their end, and goes on with what longer sources left in the stream. *)
Tok(t) == [type |-> t, value |-> 0, ident |-> ""]
Number(v) == [type |-> "number", value |-> v, ident |-> ""]
Ident(x) == [type |-> "ident", value |-> 0, ident |-> x]
Eof == Tok("eof")

OneByte == {"char", "int8_t", "uint8_t"}
TwoBytes == {"int16_t", "uint16_t"}
FourBytes == {"int", "int32_t", "uint32_t"}
EightBytes == {"int64_t", "uint64_t", "intptr_t", "uintptr_t"}
TypeName == OneByte \union TwoBytes \union FourBytes \union EightBytes

(* basetype_size and basetype_is_signed                                    *)
Size(base) ==
  CASE base \in OneByte -> 1
    [] base \in TwoBytes -> 2
    [] base \in FourBytes -> 4
    [] OTHER -> 8

IsSigned(base) ==
  base \in {"char", "int", "int8_t", "int16_t", "int32_t", "int64_t", "intptr_t"}

VarType(base, is_ptr) == [base |-> base, is_ptr |-> is_ptr]
IntType == VarType("int", FALSE)
PointerTo(vt) == VarType(vt.base, TRUE)

(* vartype_value_size                                                      *)
ValueSize(vt) == IF vt.is_ptr THEN 8 ELSE Size(vt.base)
-----------------------------------------------------------------------------
(* The instructions.                                                       *)
Plain(op) == [op |-> op, n |-> 0, size |-> 8, signed |-> TRUE]
With(op, n) == [Plain(op) EXCEPT !.n = n]

MovRax(v) == With("mov_rax", ToWord(v))
Push == Plain("push_rax")
Pop == Plain("pop_rcx")
Lea(v) == With("lea_rax", v.offset)
ImulRax(n) == With("imul_rax", n)
SetCc(relation) == Plain(relation)

(* emit_load_var_to_rax, emit_store_rax_var, emit_inc_var, emit_dec_var    *)
Access(op, v) ==
  [op |-> op, n |-> v.offset, size |-> ValueSize(v.type), signed |-> IsSigned(v.type.base)]
LoadVar(v) == Access("load", v)
StoreVar(v) == Access("store", v)
StepVar(op, v) == Access(IF op = "++" THEN "inc" ELSE "dec", v)

(* emit_load_via_rax, emit_store_rcx_via_rax                               *)
LoadVia(base) ==
  [op |-> "load_via", n |-> 0, size |-> Size(base), signed |-> IsSigned(base)]
StoreVia(base) == [Plain("store_via") EXCEPT !.size = Size(base)]

(* rax = rcx op rax, rcx being the left operand                            *)
Divide == <<Plain("xchg"), Plain("idiv_rcx")>>

Emit(p, code) == [p EXCEPT !.code = @ \o code]
Here(p) == Len(p.code) + 1

(* patch_jmp                                                               *)
Patch(p, at) == [p EXCEPT !.code[at].n = Here(p)]
-----------------------------------------------------------------------------
(* The parser's helpers.  What lies behind the array reads as an end.      *)
TokenAt(p, i) == IF i \in DOMAIN p.text THEN p.text[i] ELSE Eof
Current(p) == TokenAt(p, p.curr)
Peek(p) == Current(p).type
PeekNext(p) == TokenAt(p, p.curr + 1).type
Consume(p) == [p EXCEPT !.curr = @ + 1]

(* First what, then the rest of what is to be done.                        *)
Then(p, what) == [p EXCEPT !.todo = what \o @]

ErrorLimit == 64
Error(p) == [p EXCEPT !.errors = IF @ < ErrorLimit THEN @ + 1 ELSE @]
Typed(p, type) == [p EXCEPT !.type = type]

Expect(p, t) == IF Peek(p) = t THEN Consume(p) ELSE Error(p)

(* An expression that cannot be compiled has type int.                     *)
Wrong(p) == Typed(Error(p), IntType)

(* An operand the code cannot use stands for 0.                            *)
WrongOperand(p) == Wrong(Emit(p, <<MovRax(0)>>))

Places(p, x) == {i \in DOMAIN p.vars : p.vars[i].name = x}
Declared(p, x) == Places(p, x) # {}
Place(p, x) == CHOOSE i \in Places(p, x) : TRUE
Variable(p, x) == p.vars[Place(p, x)]
IsArray(v) == v.elem_count > 0
Scalar(p, x) == Declared(p, x) /\ ~IsArray(Variable(p, x))
MarkInitialized(p, x) == [p EXCEPT !.vars[Place(p, x)].initialized = TRUE]

RoundUp(n, unit) == ((n + unit - 1) \div unit) * unit

(* vartype_storage_size and var_alloc                                      *)
MutStorageSize(vt, n) == RoundUp(Size(vt.base), 8)
StorageSize(vt, n) == RoundUp(Size(vt.base) * (IF n > 0 THEN n ELSE 1), 8)

Alloc(p, x, vt, n) ==
  LET size == p.stack_size + StorageSize(vt, n)
  IN  [p EXCEPT !.stack_size = size,
                !.vars = Append(@, [name |-> x, offset |-> size, type |-> vt,
                                    initialized |-> n > 0, elem_count |-> n])]

ParseType(p) ==
  LET q == Consume(p)
  IN  [IF Peek(q) = "*" THEN Consume(q) ELSE q EXCEPT !.type = VarType(Peek(p), Peek(q) = "*")]

(* is_cast_ahead                                                           *)
CastAhead(p) ==
  LET q == Consume(Consume(p))
  IN  /\ Peek(p) = "(" /\ PeekNext(p) \in TypeName
      /\ Peek(IF Peek(q) = "*" THEN Consume(q) ELSE q) = ")"

(* Things to do that several functions have in common.                     *)
Expected(t) == <<"expect", t>>
Emitted(code, type) == <<"emit", code, type>>
Coded(code) == Emitted(code, IntType)
AnExpr == <<"expr">>
APrimary == <<"primary">>
ABlock == <<"block">>
AStatement == <<"statement">>
Skipped == <<"skip">>

(* To the end of the statement.                                            *)
SkipStatement(p) ==
  CASE Peek(p) = ";" -> Consume(p)
    [] Peek(p) = "eof" -> p
    [] OTHER -> Then(Consume(p), <<Skipped>>)
-----------------------------------------------------------------------------
(* (TYPE) operand: what the type's bytes keep of it, without a sign.       *)
Cast(p) ==
  LET t == ParseType(Consume(p))
      size == ValueSize(t.type)
      mask == IF size = 8 THEN <<>> ELSE <<[Plain("mask") EXCEPT !.size = size]>>
  IN  Then(Consume(t), <<APrimary, Emitted(mask, t.type)>>)

Not(p) == Then(Consume(p), <<APrimary, Coded(<<Plain("bool"), Plain("not")>>)>>)

(* ++ident, --ident                                                        *)
PrefixStep(p) ==
  LET n == Consume(p)
      x == Current(n).ident
      q == Consume(n)
      v == Variable(p, x)
  IN  IF Peek(n) # "ident" THEN Wrong(n)
      ELSE IF ~Scalar(p, x) THEN Wrong(q)
      ELSE Typed(MarkInitialized(Emit(q, <<StepVar(Peek(p), v), LoadVar(v)>>), x), v.type)

(* An array, or a pointer, with [ ahead: the address of the element.  That *)
(* is emit_index_address_from_rax.                                         *)
Element(p, v) ==
  LET size == Size(v.type.base)
      scale == IF size > 1 THEN <<ImulRax(size)>> ELSE <<>>
  IN  Then(Consume(Emit(p, <<IF IsArray(v) THEN Lea(v) ELSE LoadVar(v), Push>>)),
           <<AnExpr, Coded(scale \o <<Pop, Plain("add")>>), Expected("]")>>)

(* a[i], p[i]; an array's name is the address of its first element;        *)
(* x++, x--: the value before the step.                                    *)
IndexedValue(p, v) ==
  Element(Then(p, <<Emitted(<<LoadVia(v.type.base)>>, VarType(v.type.base, FALSE))>>), v)

MutPostfix(p, v) == <<StepVar(Peek(p), v), LoadVar(v)>>
Postfix(p, v) == <<LoadVar(v), StepVar(Peek(p), v)>>

Identifier(p) ==
  LET x == Current(p).ident
      q == Consume(p)
      v == Variable(p, x)
  IN  IF ~Declared(p, x) \/ ~v.initialized
         \/ (Peek(q) = "[" /\ ~v.type.is_ptr /\ ~IsArray(v))
      THEN WrongOperand(q)
      ELSE IF Peek(q) = "[" THEN IndexedValue(q, v)
      ELSE IF IsArray(v) THEN Typed(Emit(q, <<Lea(v)>>), PointerTo(v.type))
      ELSE IF Peek(q) \in {"++", "--"} THEN Typed(Emit(Consume(q), Postfix(q, v)), v.type)
      ELSE Typed(Emit(q, <<LoadVar(v)>>), v.type)

(* * operand                                                               *)
Deref(p) ==
  IF p.type.is_ptr THEN Typed(Emit(p, <<LoadVia(p.type.base)>>), VarType(p.type.base, FALSE))
  ELSE Wrong(p)

AddressOf(p) ==
  LET n == Consume(p)
      x == Current(n).ident
      q == Consume(n)
  IN  IF Peek(n) # "ident" THEN Wrong(n)
      ELSE IF ~Declared(p, x) THEN Wrong(q)
      ELSE Typed(Emit(q, <<Lea(Variable(p, x))>>), PointerTo(Variable(p, x).type))

(* What cannot start an operand is taken, be it the end of the source.     *)
MutUnexpected(p) == Typed(Consume(p), IntType)
Unexpected(p) == Wrong(Consume(p))

Primary(p) ==
  CASE CastAhead(p) -> Cast(p)
    [] Peek(p) = "!" -> Not(p)
    [] Peek(p) \in {"++", "--"} -> PrefixStep(p)
    [] Peek(p) = "number" -> Typed(Emit(Consume(p), <<MovRax(Current(p).value)>>), IntType)
    [] Peek(p) = "ident" -> Identifier(p)
    [] Peek(p) = "*" -> Then(Consume(p), <<APrimary, <<"deref">>>>)
    [] Peek(p) = "&" -> AddressOf(p)
    [] Peek(p) = "(" /\ ~CastAhead(p) -> Then(Consume(p), <<AnExpr, Expected(")")>>)
    [] OTHER -> Unexpected(p)

Unary(p) ==
  IF Peek(p) = "-" THEN Then(Consume(p), <<APrimary, Coded(<<Plain("neg")>>)>>)
  ELSE Primary(p)
-----------------------------------------------------------------------------
(* The functions of the binary operators, each with the operators it takes *)
(* and the function of its operands.  relexpr and eqexpr take one operator *)
(* at most, the others a chain of them.                                    *)
Operators(level) ==
  CASE level = "orexpr" -> {"||"}
    [] level = "andexpr" -> {"&&"}
    [] level = "eqexpr" -> {"==", "!="}
    [] level = "relexpr" -> {"<", ">", "<=", ">="}
    [] level = "addexpr" -> {"+", "-"}
    [] level = "term" -> {"*", "/", "%"}

Operand(level) ==
  CASE level = "orexpr" -> <<"binary", "andexpr">>
    [] level = "andexpr" -> <<"binary", "eqexpr">>
    [] level = "eqexpr" -> <<"binary", "relexpr">>
    [] level = "relexpr" -> <<"binary", "addexpr">>
    [] level = "addexpr" -> <<"binary", "term">>
    [] level = "term" -> <<"unary">>

IsLogic(level) == level \in {"orexpr", "andexpr"}
IsChain(level) == level \notin {"eqexpr", "relexpr"}

(* What + and - do to operands of types t and u: <<code, type>>.           *)
Sum(op, t, u) ==
  LET scale(ins, vt) == IF Size(vt.base) > 1 THEN <<With(ins, Size(vt.base))>> ELSE <<>>
      plain == <<Plain(IF op = "+" THEN "add" ELSE "sub")>>
  IN  CASE t.is_ptr /\ ~u.is_ptr -> <<scale("imul_rax", t) \o plain, t>>
        [] ~t.is_ptr /\ u.is_ptr /\ op = "+" ->
             <<<<Plain("xchg")>> \o scale("imul_rcx", u) \o plain, u>>
        [] t.is_ptr /\ u.is_ptr /\ op = "-" ->
             <<plain \o (IF Size(t.base) > 1
                         THEN <<With("mov_rcx", Size(t.base)), Plain("idiv_rcx")>> ELSE <<>>),
               IntType>>
        [] OTHER -> <<plain, IntType>>

(* An operand, and then an operator if there is one.                       *)
Binary(p, level) == Then(p, <<Operand(level), <<"operator", level>>>>)

(* The left operand waits on the stack until the right one is in rax.  The *)
(* jump that leaves out the right operand of && and || ends behind the pop *)
(* too: the left operand then stays on the stack.                          *)
Jump(op) == With(op, 0)
LeftWaits(level) ==
  CASE level = "orexpr" -> <<Plain("bool"), Push, Jump("jnz")>>
    [] level = "andexpr" -> <<Plain("bool"), Push, Jump("jz")>>
    [] OTHER -> <<Push>>

Operator(p, level) ==
  LET op == Peek(p)
      q == Consume(p)
      left == Emit(q, LeftWaits(level))
  IN  IF op \notin Operators(level) THEN p
      ELSE IF op \in {"/", "%"} /\ Peek(q) = "number" /\ Current(q).value = 0
      THEN Error(Consume(q))
      ELSE Then(left, <<Operand(level), <<"apply", level, op, p.type, Len(left.code)>>>>)

(* left op right, left being of type t; for && and ||, jump is the place   *)
(* of the jump.                                                            *)
Applied(p, level, op, t, jump) ==
  LET code == CASE level = "term" /\ op = "*" -> <<Plain("imul")>>
                [] level = "term" /\ op = "/" -> Divide
                [] level = "term" /\ op = "%" -> Divide \o <<Plain("mod")>>
                [] level = "addexpr" -> Sum(op, t, p.type)[1]
                [] level \in {"relexpr", "eqexpr"} -> <<SetCc(op)>>
                [] level = "andexpr" -> <<Plain("and")>>
                [] level = "orexpr" -> <<Plain("or")>>
      type == IF level = "addexpr" THEN Sum(op, t, p.type)[2] ELSE IntType
      q == IF IsLogic(level) THEN Patch(Emit(p, <<Plain("bool"), Pop>> \o code), jump)
           ELSE Emit(p, <<Pop>> \o code)
  IN  Then(Typed(q, type), IF IsChain(level) THEN <<<<"operator", level>>>> ELSE <<>>)

(* An assignment is not an expression.                                     *)
OrExpr == <<"binary", "orexpr">>
Expr(p) == Then(p, <<OrExpr, <<"no_assignment">>>>)
NoAssignment(p) ==
  IF Peek(p) = "=" THEN Then(Consume(Error(p)), <<OrExpr, Emitted(<<>>, p.type)>>) ELSE p
-----------------------------------------------------------------------------
(* { statement ... } or one statement                                      *)
Statements(p, last) ==
  IF Peek(p) \in {last, "eof"} THEN p ELSE Then(p, <<AStatement, <<"statements", last>>>>)

Block(p) ==
  Then(IF Peek(p) = "{" THEN Consume(p) ELSE p,
       IF Peek(p) = "{" THEN <<<<"statements", "}">>, Expected("}")>> ELSE <<AStatement>>)

CompoundOp == {"+=", "-=", "*=", "/=", "%="}

(* x op= rax                                                               *)
CompoundAssign(p, v, op) ==
  LET code == CASE op = "+=" -> <<Plain("add")>>
                [] op = "-=" -> <<Plain("sub_rax_rcx")>>
                [] op = "*=" -> <<Plain("imul")>>
                [] op = "/=" -> <<Plain("idiv_rcx")>>
                [] op = "%=" -> <<Plain("idiv_rcx"), Plain("mod")>>
  IN  Emit(p, <<Push, LoadVar(v), Pop>> \o code \o <<StoreVar(v)>>)

(* x = rax, x op= rax                                                      *)
Assigned(p, x, op) ==
  LET v == Variable(p, x)
  IN  IF op = "=" THEN MarkInitialized(Emit(p, <<StoreVar(v)>>), x) ELSE CompoundAssign(p, v, op)

(* x = expr, x op= expr, from the expression on, where x may stand there.  *)
Assignment(p, x, op, ok, end, otherwise) ==
  IF ok THEN Then(p, <<AnExpr, <<"assign", x, op>>>> \o end) ELSE Then(Error(p), otherwise)

(* [N], if it is there; array_len < 0 when it is no number.                *)
ArraySuffix(p) ==
  LET q == Consume(p)
      n == Current(q).value
      r == Consume(q)
  IN  CASE Peek(p) # "[" -> <<p, 0>>
        [] Peek(p) = "[" /\ Peek(q) # "number" -> <<Expect(Error(q), "]"), -1>>
        [] OTHER -> <<Expect(IF n <= 0 THEN Error(r) ELSE r, "]"), n>>

(* TYPE name [N] = expr, and what is to be done if all of it is there.     *)
Declare(p, end, otherwise) ==
  LET t == ParseType(p)
      x == Current(t).ident
      suffix == ArraySuffix(Consume(t))
      q == Alloc(suffix[1], x, t.type, suffix[2])
  IN  IF Peek(t) # "ident" THEN Then(Error(t), otherwise)
      ELSE IF Declared(t, x) THEN Then(Error(Consume(t)), otherwise)
      ELSE IF suffix[2] < 0 THEN Then(suffix[1], otherwise)
      ELSE IF Peek(q) # "=" THEN Then(q, end)
      ELSE Assignment(IF suffix[2] > 0 THEN q ELSE Consume(q), x, "=", suffix[2] = 0,
                      end, otherwise)

StepCode(p, x, op) == Emit(p, <<StepVar(op, Variable(p, x))>>)

StepStatement(p, x, op) ==
  IF Scalar(p, x) THEN Expect(StepCode(p, x, op), ";") ELSE SkipStatement(Error(p))

(* *p = expr;                                                              *)
DerefAssign(p) ==
  LET x == TokenAt(p, p.curr + 1).ident
      q == Consume(Consume(p))
      v == Variable(q, x)
  IN  IF Peek(q) # "=" THEN SkipStatement(Error(q))
      ELSE IF ~Declared(q, x) \/ ~v.type.is_ptr \/ ~v.initialized
      THEN SkipStatement(Error(Consume(q)))
      ELSE Then(Consume(q), <<AnExpr, Coded(<<Push, LoadVar(v), Pop, StoreVia(v.type.base)>>),
                              Expected(";")>>)

(* a[i] = expr;                                                            *)
IndexAssign(p, x) ==
  LET v == Variable(p, x)
  IN  IF ~Declared(p, x) \/ (~v.type.is_ptr /\ ~IsArray(v)) THEN SkipStatement(Error(p))
      ELSE Element(Then(Consume(p), <<<<"assign_element", v.type.base>>>>), v)

AssignElement(p, base) ==
  IF Peek(p) # "=" THEN SkipStatement(Error(p))
  ELSE Then(Emit(Consume(p), <<Push>>),
            <<AnExpr, Coded(<<Pop, Plain("xchg"), StoreVia(base)>>), Expected(";")>>)

(* A statement that starts with a name.  One that does nothing the parser  *)
(* knows is left out without an error.                                     *)
NameStatement(p) ==
  LET x == Current(p).ident
      op == PeekNext(p)
      q == Consume(Consume(p))
  IN  CASE op = "[" -> IndexAssign(p, x)
        [] op \in {"="} \union CompoundOp ->
             Assignment(q, x, op, Scalar(q, x) /\ (op = "=" \/ Variable(q, x).initialized),
                        <<Expected(";")>>, <<Skipped>>)
        [] op \in {"++", "--"} -> StepStatement(q, x, op)
        [] OTHER -> SkipStatement(p)

PrefixStatement(p) ==
  LET n == Consume(p)
  IN  IF Peek(n) = "ident" THEN StepStatement(Consume(n), Current(n).ident, Peek(p))
      ELSE SkipStatement(Error(n))

Epilogue == <<Plain("leave"), Plain("ret")>>

Return(p) ==
  LET q == [Consume(p) EXCEPT !.returns = TRUE]
      end == <<Coded(Epilogue), Expected(";")>>
  IN  IF Peek(q) = ";" THEN Then(Emit(q, <<MovRax(0)>>), end) ELSE Then(q, <<AnExpr>> \o end)

(* A condition in brackets, and what comes then; an empty one is an error, *)
(* and something else comes.                                               *)
Condition(p, then, otherwise) ==
  IF Peek(p) = ")" THEN Then(Consume(Error(p)), otherwise)
  ELSE Then(p, <<AnExpr, Expected(")")>> \o then)

While(p) ==
  LET q == Expect(Consume(p), "(")
  IN  Condition(q, <<<<"while", Here(q)>>>>, <<ABlock>>)

WhileBody(p, loop_start) ==
  Then(Emit(p, <<Jump("jz")>>),
       <<ABlock, Coded(<<With("jmp", loop_start)>>), <<"patch", Here(p)>>>>)

DoWhile(p) ==
  LET q == Consume(p)
  IN  Then(q, <<ABlock, Expected("while"), Expected("("), <<"do_test", Here(q)>>>>)

DoTest(p, loop_start) ==
  Condition(p, <<Expected(";"), Coded(<<With("jnz", loop_start)>>)>>, <<Expected(";")>>)

ForInit(p) ==
  LET x == Current(p).ident
      q == Consume(Consume(p))
  IN  CASE Peek(p) = ";" -> p
        [] Peek(p) \in TypeName -> Declare(p, <<>>, <<>>)
        [] Peek(p) = "ident" /\ PeekNext(p) \in {"="} \union CompoundOp ->
             Assignment(q, x, PeekNext(p), Scalar(q, x), <<>>, <<>>)
        [] OTHER -> Expr(p)

(* A step of what is no scalar is left out without an error.               *)
PostStep(p, x, op) == IF Scalar(p, x) THEN StepCode(p, x, op) ELSE p

ForPost(p) ==
  LET x == Current(p).ident
      op == PeekNext(p)
      q == Consume(Consume(p))
      n == Consume(p)
  IN  CASE Peek(p) = ")" -> p
        [] Peek(p) = "ident" /\ op \in {"++", "--"} -> PostStep(q, x, op)
        [] Peek(p) = "ident" /\ op \in {"="} \union CompoundOp ->
             Assignment(q, x, op, Scalar(q, x), <<>>, <<>>)
        [] Peek(p) \in {"++", "--"} ->
             IF Peek(n) = "ident" THEN PostStep(q, Current(n).ident, Peek(p)) ELSE n
        [] OTHER -> Expr(p)

(* init; cond; jump to the body; post; jump to cond; body; jump to post    *)
For(p) == Then(Expect(Consume(p), "("), <<<<"for_init">>, Expected(";"), <<"for_cond">>>>)

ForCond(p) ==
  IF Peek(p) = ";" THEN Then(p, <<<<"for_rest", Here(p), FALSE>>>>)
  ELSE Then(p, <<AnExpr, <<"for_rest", Here(p), TRUE>>>>)

MutAfterBody(cond_start, post_start) == cond_start
AfterBody(cond_start, post_start) == post_start

ForRest(p, cond_start, guarded) ==
  LET exit == IF guarded THEN <<<<"patch", Here(p)>>>> ELSE <<>>
      cond == IF guarded THEN Emit(p, <<Jump("jz")>>) ELSE p
      over == Emit(Expect(cond, ";"), <<Jump("jmp")>>)
  IN  Then(over, <<<<"for_post">>, Expected(")"), Coded(<<With("jmp", cond_start)>>),
                   <<"patch", Len(over.code)>>, ABlock,
                   Coded(<<With("jmp", AfterBody(cond_start, Here(over)))>>)>> \o exit)

If(p) == Condition(Expect(Consume(p), "("), <<<<"then">>>>, <<ABlock, <<"else">>>>)

ThenBlock(p) == Then(Emit(p, <<Jump("jz")>>), <<ABlock, <<"else_of", Here(p)>>>>)

ElseOf(p, jz) ==
  LET over == Emit(Consume(p), <<Jump("jmp")>>)
  IN  IF Peek(p) = "else" THEN Then(Patch(over, jz), <<ABlock, <<"patch", Here(p)>>>>)
      ELSE Patch(p, jz)

(* The else of an if without a condition.                                  *)
LooseElse(p) == IF Peek(p) = "else" THEN Then(Consume(p), <<ABlock>>) ELSE p

Statement(p) ==
  CASE Peek(p) \in TypeName -> Declare(p, <<Expected(";")>>, <<Skipped>>)
    [] Peek(p) = "*" /\ PeekNext(p) = "ident" -> DerefAssign(p)
    [] Peek(p) = "ident" -> NameStatement(p)
    [] Peek(p) \in {"++", "--"} -> PrefixStatement(p)
    [] Peek(p) = "number" /\ PeekNext(p) = "=" -> SkipStatement(Error(p))
    [] Peek(p) = "return" -> Return(p)
    [] Peek(p) = "while" -> While(p)
    [] Peek(p) = "do" -> DoWhile(p)
    [] Peek(p) = "for" -> For(p)
    [] Peek(p) = "if" -> If(p)
    [] Peek(p) = "else" -> Then(Consume(Error(p)), <<ABlock>>)
    [] OTHER -> Consume(Error(p))
-----------------------------------------------------------------------------
Do(p, it) ==
  CASE it[1] = "expect" -> Expect(p, it[2])
    [] it[1] = "emit" -> Typed(Emit(p, it[2]), it[3])
    [] it[1] = "patch" -> Patch(p, it[2])
    [] it[1] = "expr" -> Expr(p)
    [] it[1] = "no_assignment" -> NoAssignment(p)
    [] it[1] = "binary" -> Binary(p, it[2])
    [] it[1] = "operator" -> Operator(p, it[2])
    [] it[1] = "apply" -> Applied(p, it[2], it[3], it[4], it[5])
    [] it[1] = "unary" -> Unary(p)
    [] it[1] = "primary" -> Primary(p)
    [] it[1] = "deref" -> Deref(p)
    [] it[1] = "statement" -> Statement(p)
    [] it[1] = "statements" -> Statements(p, it[2])
    [] it[1] = "block" -> Block(p)
    [] it[1] = "skip" -> SkipStatement(p)
    [] it[1] = "assign" -> Assigned(p, it[2], it[3])
    [] it[1] = "assign_element" -> AssignElement(p, it[2])
    [] it[1] = "while" -> WhileBody(p, it[2])
    [] it[1] = "do_test" -> DoTest(p, it[2])
    [] it[1] = "for_init" -> ForInit(p)
    [] it[1] = "for_cond" -> ForCond(p)
    [] it[1] = "for_post" -> ForPost(p)
    [] it[1] = "for_rest" -> ForRest(p, it[2], it[3])
    [] it[1] = "then" -> ThenBlock(p)
    [] it[1] = "else_of" -> ElseOf(p, it[2])
    [] it[1] = "else" -> LooseElse(p)

RECURSIVE Parse(_)
Parse(p) ==
  IF p.todo = <<>> THEN p ELSE Parse(Do([p EXCEPT !.todo = Tail(@)], Head(p.todo)))

(* The frame: whole units, and never none.                                 *)
FrameSize(n) == IF n = 0 THEN FrameAlign ELSE RoundUp(n, FrameAlign)

Prologue == <<Plain("push_rbp"), Plain("mov_rbp_rsp"), With("sub_rsp", 0)>>

(* parse_and_compile.  It starts without errors, those of lex too.         *)
ParseAndCompile(text) ==
  LET p == Parse([text |-> text, curr |-> 1, code |-> Prologue, vars |-> <<>>, stack_size |-> 0,
                  errors |-> 0, type |-> IntType, returns |-> FALSE,
                  todo |-> <<<<"statements", "eof">>, Coded(<<MovRax(0)>> \o Epilogue)>>])
  IN  [p EXCEPT !.code[Len(Prologue)].n = FrameSize(p.stack_size)]
=============================================================================
