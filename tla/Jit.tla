-------------------------------- MODULE Jit ---------------------------------
(***************************************************************************)
(* The shell's compile command: the sources of a session are compiled one  *)
(* after another, and what compiled without an error is executed, one      *)
(* instruction to a step.  The token stream is a global array that no      *)
(* source clears: behind the end of one stand the tokens of longer ones    *)
(* before it.                                                              *)
(*                                                                         *)
(* Memory is the stack: the caller's part of it, the saved registers, the  *)
(* frame of variables below them, and what expressions push below that.    *)
(***************************************************************************)
EXTENDS Compiler, CMeaning

CONSTANTS
  Session,      \* the sequences of sources that are typed in: a source has a text,
                \* and a tree if it is a program
  StreamSize,   \* the length of the token stream, 1024
  StackTop,     \* the highest address of the stack
  Garbage       \* what may be in a byte of it at the start

VARIABLES
  session,       \* the sources of this session
  line,          \* the one at work
  token_stream,
  program,       \* what the compiler made of it
  status,        \* "prompt", "running", or how the last command ended
  pc, rax, rcx, rdx, rsp, rbp, mem

registers == <<rax, rcx, rdx, rsp, rbp>>
machine == <<pc, registers, mem>>
vars == <<session, line, token_stream, program, status, machine>>

ASSUME JitAssumption ==
  /\ StreamSize \in Nat /\ StackTop \in Nat /\ StackTop < Radix ^ 8 \div 2
  /\ Garbage \subseteq Byte

(* What the caller, execute_compiled, leaves on the stack and in rbp.      *)
ReturnAddress == 1
CallerRbp == StackTop

(* The array starts as zeros, and a zero is the token char.                *)
Init ==
  /\ session \in Session
  /\ line = 0
  /\ token_stream = [i \in 1 .. StreamSize |-> Tok("char")]
  /\ program = [code |-> <<>>, errors |-> 0, curr |-> 1, stack_size |-> 0, end |-> 1]
  /\ status = "prompt"
  /\ pc = 0 /\ rax = 0 /\ rcx = 0 /\ rdx = 0 /\ rsp = StackTop /\ rbp = CallerRbp
  /\ \E g \in Garbage : mem = [a \in 0 .. StackTop - 1 |-> g]

(* lex writes the tokens and their end over the stream.                    *)
Lex(text) ==
  [i \in 1 .. StreamSize |->
     IF i <= Len(text) THEN text[i]
     ELSE IF i = Len(text) + 1 THEN Eof
     ELSE token_stream[i]]

(* cmd_compile, up to the call of the code.                                *)
Compile ==
  LET text == session[line + 1].text
      p == ParseAndCompile(Lex(text))
  IN  /\ status \in {"prompt", "errors", "done"} /\ line < Len(session)
      /\ line' = line + 1
      /\ token_stream' = Lex(text)
      /\ program' = [code |-> p.code, errors |-> p.errors, curr |-> p.curr,
                     stack_size |-> p.stack_size, end |-> Len(text) + 1]
      /\ status' = IF p.errors > 0 THEN "errors" ELSE "running"
      /\ pc' = 1
      /\ rsp' = StackTop - 8 /\ rbp' = CallerRbp
      /\ mem' = Store(mem, StackTop - 8, ReturnAddress, 8)
      /\ UNCHANGED <<session, rax, rcx, rdx>>
-----------------------------------------------------------------------------
(* The processor.                                                          *)
Running == status = "running" /\ pc \in DOMAIN program.code
Ins == program.code[pc]
Op == Ins.op

Control == <<session, line, token_stream, program>>
Advance == pc' = pc + 1 /\ UNCHANGED <<Control, status>>

(* Instructions that leave a value in rax and touch no memory.             *)
Truth(b) == IF b THEN 1 ELSE 0

RaxAfter ==
  CASE Op = "mov_rax" -> Ins.n
    [] Op = "lea_rax" -> rbp - Ins.n
    [] Op = "add" -> rax + rcx
    [] Op = "sub" -> rcx - rax
    [] Op = "sub_rax_rcx" -> rax - rcx
    [] Op = "imul" -> rax * rcx
    [] Op = "imul_rax" -> rax * Ins.n
    [] Op = "mod" -> rdx
    [] Op = "neg" -> -rax
    [] Op = "mask" -> Wrap(rax, Ins.size, FALSE)
    [] Op = "bool" -> Truth(rax # 0)
    [] Op = "not" -> IF rax % 2 = 0 THEN rax + 1 ELSE rax - 1
    [] Op = "and" -> IF rax = 1 /\ rcx % 2 = 1 THEN 1 ELSE 0
    [] Op = "or" -> IF rax = 0 THEN rcx ELSE IF rcx % 2 = 0 THEN rcx + 1 ELSE rcx
    [] Op = "<" -> Truth(rcx < rax)
    [] Op = ">" -> Truth(rcx > rax)
    [] Op = "<=" -> Truth(rcx <= rax)
    [] Op = ">=" -> Truth(rcx >= rax)
    [] Op = "==" -> Truth(rcx = rax)
    [] Op = "!=" -> Truth(rcx # rax)

OnRax ==
  {"mov_rax", "lea_rax", "add", "sub", "sub_rax_rcx", "imul", "imul_rax", "mod", "neg", "mask",
   "bool", "not", "and", "or", "<", ">", "<=", ">=", "==", "!="}

Calculate ==
  /\ Running /\ Op \in OnRax
  /\ rax' = ToWord(RaxAfter)
  /\ rcx' = IF Op = "sub" THEN rax' ELSE rcx
  /\ Advance
  /\ UNCHANGED <<rdx, rsp, rbp, mem>>

Exchange ==
  /\ Running /\ Op = "xchg"
  /\ rax' = rcx /\ rcx' = rax
  /\ Advance
  /\ UNCHANGED <<rdx, rsp, rbp, mem>>

SetRcx ==
  /\ Running /\ Op \in {"mov_rcx", "imul_rcx"}
  /\ rcx' = ToWord(IF Op = "mov_rcx" THEN Ins.n ELSE rcx * Ins.n)
  /\ Advance
  /\ UNCHANGED <<rax, rdx, rsp, rbp, mem>>

(* A quotient that is no word traps as a division by zero does.            *)
CanDivide == rcx # 0 /\ Quotient(rax, rcx) \in Word

IntDivide ==
  /\ Running /\ Op = "idiv_rcx" /\ CanDivide
  /\ rax' = Quotient(rax, rcx) /\ rdx' = Remainder(rax, rcx)
  /\ Advance
  /\ UNCHANGED <<rcx, rsp, rbp, mem>>

(* The address of the memory an instruction uses, and its width.           *)
Address ==
  CASE Op \in {"load", "store", "inc", "dec"} -> rbp - Ins.n
    [] Op \in {"load_via", "store_via"} -> rax
    [] Op \in {"push_rax", "push_rbp"} -> rsp - 8
    [] Op \in {"pop_rcx", "ret"} -> rsp
    [] Op = "leave" -> rbp

UsesMemory ==
  Op \in {"load", "store", "inc", "dec", "load_via", "store_via", "push_rax", "push_rbp",
          "pop_rcx", "leave", "ret"}
CanAccess == UsesMemory /\ Accessible(mem, Address, Ins.size)

Accessed == Load(mem, Address, Ins.size, Ins.signed)

LoadRax ==
  /\ Running /\ Op \in {"load", "load_via"} /\ CanAccess
  /\ rax' = Accessed
  /\ Advance
  /\ UNCHANGED <<rcx, rdx, rsp, rbp, mem>>

Stored ==
  CASE Op = "store" -> rax
    [] Op = "store_via" -> rcx
    [] Op = "inc" -> Accessed + 1
    [] Op = "dec" -> Accessed - 1

StoreValue ==
  /\ Running /\ Op \in {"store", "store_via", "inc", "dec"} /\ CanAccess
  /\ mem' = Store(mem, Address, Stored, Ins.size)
  /\ Advance
  /\ UNCHANGED registers

PushValue ==
  /\ Running /\ Op \in {"push_rax", "push_rbp"} /\ CanAccess
  /\ mem' = Store(mem, Address, IF Op = "push_rax" THEN rax ELSE rbp, 8)
  /\ rsp' = rsp - 8
  /\ Advance
  /\ UNCHANGED <<rax, rcx, rdx, rbp>>

PopValue ==
  /\ Running /\ Op = "pop_rcx" /\ CanAccess
  /\ rcx' = Accessed
  /\ rsp' = rsp + 8
  /\ Advance
  /\ UNCHANGED <<rax, rdx, rbp, mem>>

MakeFrame ==
  /\ Running /\ Op \in {"mov_rbp_rsp", "sub_rsp"}
  /\ rbp' = IF Op = "mov_rbp_rsp" THEN rsp ELSE rbp
  /\ rsp' = IF Op = "sub_rsp" THEN rsp - Ins.n ELSE rsp
  /\ Advance
  /\ UNCHANGED <<rax, rcx, rdx, mem>>

LeaveFrame ==
  /\ Running /\ Op = "leave" /\ CanAccess
  /\ rsp' = rbp + 8
  /\ rbp' = Accessed
  /\ Advance
  /\ UNCHANGED <<rax, rcx, rdx, mem>>

JumpTo ==
  /\ Running /\ Op \in {"jmp", "jz", "jnz"}
  /\ pc' = IF \/ Op = "jmp"
              \/ Op = "jz" /\ rax = 0
              \/ Op = "jnz" /\ rax # 0
           THEN Ins.n ELSE pc + 1
  /\ UNCHANGED <<Control, status, registers, mem>>

(* Back in the caller, which takes eax.                                    *)
ReturnToCaller ==
  /\ Running /\ Op = "ret" /\ CanAccess /\ Accessed = ReturnAddress
  /\ rsp' = rsp + 8
  /\ status' = "done"
  /\ UNCHANGED <<Control, pc, rax, rcx, rdx, rbp, mem>>

(* Outside the stack, a division by zero, off the code, or a return to     *)
(* somewhere else: whatever happens then is not the program's any more.    *)
CanGoOn ==
  /\ Running
  /\ UsesMemory => CanAccess
  /\ Op = "idiv_rcx" => CanDivide
  /\ Op = "ret" => Accessed = ReturnAddress

Fault ==
  /\ status = "running" /\ ~CanGoOn
  /\ status' = "fault"
  /\ UNCHANGED <<Control, machine>>

Execute ==
  \/ Calculate \/ Exchange \/ SetRcx \/ IntDivide
  \/ LoadRax \/ StoreValue \/ PushValue \/ PopValue
  \/ MakeFrame \/ LeaveFrame \/ JumpTo \/ ReturnToCaller \/ Fault

Next == Compile \/ Execute

(* The processor goes on with the code until it returns.                   *)
Spec == Init /\ [][Next]_vars /\ WF_vars(Execute)
-----------------------------------------------------------------------------
Ended == line > 0 /\ status \in {"errors", "done", "fault"}
Tree == session[line].tree

(* What parse_and_compile made of a program with a meaning compiles, and   *)
(* does on the processor what the program's tree means: precedence, types  *)
(* and widths, addresses of elements, and the jumps of every statement.    *)
(* But && and || leave a word on the stack when they leave out their right *)
(* operand, so that holds only where no operand waits there for them.      *)
Agrees ==
  LET m == Meaning(Tree)
  IN  Ended /\ Tree # <<>> /\ m.ok /\ ~LogicWaits(Group(Tree))
      => status = "done" /\ Wrap(rax, 4, TRUE) = m.result

(* What compiles without an error is the source itself: the parser never   *)
(* goes past the source's end, into tokens of an earlier one, unless it    *)
(* reports an error, so that those tokens are never executed.              *)
OwnSource == line > 0 /\ program.errors = 0 => program.curr = program.end

(* While a program runs, what expressions push stays below its variables,  *)
(* and the return address and the caller's rbp stay as they were.          *)
FrameKept ==
  status = "running" /\ pc \in Len(Prologue) + 1 .. Len(program.code) /\ Op # "ret"
  => /\ rbp = StackTop - 16
     /\ rsp <= rbp - program.stack_size
     /\ Load(mem, StackTop - 8, 8, TRUE) = ReturnAddress
     /\ Load(mem, StackTop - 16, 8, TRUE) = CallerRbp

(* Code that is executed comes to its end and the shell prompts again: no  *)
(* jump makes a loop of what is none.                                      *)
Ends == status = "running" ~> status # "running"
=============================================================================
