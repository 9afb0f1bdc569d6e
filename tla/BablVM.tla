------------------------------- MODULE BablVM -------------------------------
(***************************************************************************)
(* The interpreter of conversation scripts (run_babl_bytecode_interpreter, *)
(* babl.c): a stack machine on 16-bit words.  Variables and stack are one  *)
(* block of memory, so a word on the stack has an address too.             *)
(***************************************************************************)
EXTENDS Integers, Sequences

CONSTANTS
  StackWords,  \* the words of the stack (0x800)
  TextOf       \* what a message id says

VARIABLES
  code,      \* DAT_000bbf80, from address 0 on
  vars,      \* DAT_000bbf7c and DAT_000bbf84: how many words are variables
  mem,       \* DAT_000bbf14: the variables and, behind them, the stack
  sp,        \* DAT_000bbf78
  frame,     \* DAT_000bbf2c
  ip,        \* DAT_000bbf74
  result,    \* DAT_000bbf1c
  running    \* the loop of the interpreter goes on

machine == <<code, vars, mem, sp, frame, ip, result, running>>
registers == <<vars, frame, result, running>>

\* A C short.
Word(n) == ((n + 32768) % 65536) - 32768
Truth(b) == IF b THEN 1 ELSE 0

\* ordint_divmod: the quotient goes towards zero.
Quotient(divisor, dividend) ==
  LET size(n) == IF n < 0 THEN -n ELSE n
      q == size(dividend) \div size(divisor)
  IN  IF (dividend < 0) = (divisor < 0) THEN q ELSE -q

\* The mutant: the other half of what ordint_divmod returns.
QuotientHalf(divisor, dividend) == Quotient(divisor, dividend)

Remainder(divisor, dividend) == dividend - divisor * Quotient(divisor, dividend)

BinaryOps == (1 .. 14 \ {8}) \cup {33, 37}

\* What an operation makes of the second word of the stack and its top.
Binary(op, a, b) ==
  CASE op = 1 -> a + b
    [] op = 2 -> a * b
    [] op = 3 -> a - b
    [] op = 4 -> IF b = 0 THEN -1 ELSE Quotient(b, a)
    [] op = 5 -> IF b = 0 THEN -1 ELSE Remainder(b, a)
    [] op = 6 -> Truth(a # 0 \/ b # 0)
    [] op = 7 -> Truth(a # 0 /\ b # 0)
    [] op = 9 -> Truth(a > b)
    [] op = 10 -> Truth(a >= b)
    [] op = 11 -> Truth(a < b)
    [] op = 12 -> Truth(a <= b)
    [] op = 13 -> Truth(a = b)
    [] op = 14 -> Truth(a # b)
    [] op = 33 -> a + b - 1
    [] op = 37 -> Truth(TextOf[a] = TextOf[b])

Op == code[ip + 1]
Operand == code[ip + 2]
Top == mem[vars + sp]
Second == mem[vars + sp - 1]
Runs(op) == running /\ Op = op

Calculate ==
  /\ running /\ Op \in BinaryOps
  /\ mem' = [mem EXCEPT ![vars + sp - 1] = Word(Binary(Op, Second, Top))]
  /\ sp' = sp - 1 /\ ip' = ip + 1
  /\ UNCHANGED <<code, registers>>

\* Logical and arithmetic negation.
Negate ==
  /\ running /\ Op \in {8, 41}
  /\ mem' = [mem EXCEPT ![vars + sp] = IF Op = 8 THEN Truth(@ = 0) ELSE Word(-@)]
  /\ ip' = ip + 1
  /\ UNCHANGED <<code, sp, registers>>

Skip == running /\ Op \in {0, 34} /\ ip' = ip + 1 /\ UNCHANGED <<code, mem, sp, registers>>

\* Absolute and relative jumps; the conditional ones pop their condition.
Jump ==
  /\ running /\ Op \in {15, 18}
  /\ ip' = IF Op = 15 THEN Operand ELSE ip + 1 + Operand
  /\ UNCHANGED <<code, mem, sp, registers>>

Branch ==
  /\ running /\ Op \in {16, 17}
  /\ ip' = IF (Top = 0) = (Op = 16) THEN ip + 1 + Operand ELSE ip + 2
  /\ sp' = sp - 1
  /\ UNCHANGED <<code, mem, registers>>

Push(w) == sp' = sp + 1 /\ mem' = [mem EXCEPT ![vars + sp + 1] = w]

Call ==
  /\ Runs(19) /\ Push(ip + 2) /\ ip' = Operand
  /\ UNCHANGED <<code, registers>>

\* With nothing on the stack the script is over.
Return ==
  /\ Runs(21)
  /\ IF sp > 0 THEN ip' = Top /\ sp' = sp - 1 /\ UNCHANGED running
               ELSE running' = FALSE /\ UNCHANGED <<ip, sp>>
  /\ UNCHANGED <<code, vars, mem, frame, result>>

\* The address of a local is one of the whole block.
PushOperand ==
  /\ running /\ Op \in {22, 23}
  /\ Push(IF Op = 22 THEN Operand ELSE Word(Operand + vars + frame))
  /\ ip' = ip + 2
  /\ UNCHANGED <<code, registers>>

PushRegister ==
  /\ running /\ Op \in {26, 36}
  /\ Push(IF Op = 26 THEN frame ELSE result) /\ ip' = ip + 1
  /\ UNCHANGED <<code, registers>>

Drop == Runs(24) /\ sp' = sp - 1 /\ ip' = ip + 1 /\ UNCHANGED <<code, mem, registers>>

Swap ==
  /\ Runs(25) /\ ip' = ip + 1
  /\ mem' = [mem EXCEPT ![vars + sp] = Second, ![vars + sp - 1] = Top]
  /\ UNCHANGED <<code, sp, registers>>

\* The words a procedure keeps behind its frame.
PopFrame ==
  /\ Runs(27) /\ frame' = Top /\ sp' = sp - 1 /\ ip' = ip + 1
  /\ UNCHANGED <<code, vars, mem, result, running>>
EnterFrame ==
  /\ Runs(28) /\ frame' = sp /\ ip' = ip + 1
  /\ UNCHANGED <<code, vars, mem, sp, result, running>>
LeaveFrame == Runs(29) /\ sp' = frame /\ ip' = ip + 1 /\ UNCHANGED <<code, mem, registers>>
Reserve == Runs(30) /\ sp' = Top + sp - 1 /\ ip' = ip + 1 /\ UNCHANGED <<code, mem, registers>>

Fetch ==
  /\ Runs(31) /\ mem' = [mem EXCEPT ![vars + sp] = mem[@]] /\ ip' = ip + 1
  /\ UNCHANGED <<code, sp, registers>>

Store ==
  /\ Runs(32) /\ mem' = [mem EXCEPT ![Second] = Top]
  /\ sp' = sp - 2 /\ ip' = ip + 1
  /\ UNCHANGED <<code, registers>>

SaveResult ==
  /\ Runs(35) /\ result' = Top /\ ip' = ip + 1
  /\ UNCHANGED <<code, vars, mem, sp, frame, running>>

\* A function of the game has taken its arguments from below the top and
\* leaves its value there.
Builtin(value) ==
  /\ Runs(20)
  /\ mem' = [mem EXCEPT ![vars + sp] = Word(value)] /\ result' = Word(value) /\ ip' = ip + 2
  /\ UNCHANGED <<code, vars, sp, frame, running>>

\* Say and respond: the text of the top.
Speak == running /\ Op \in {39, 40} /\ sp' = sp - 1 /\ ip' = ip + 1 /\ UNCHANGED <<code, mem, registers>>

\* Any other word ends the script.
Stop ==
  /\ running /\ (Op = 38 \/ Op \notin 0 .. 41) /\ running' = FALSE
  /\ UNCHANGED <<code, vars, mem, sp, frame, ip, result>>

Steps ==
  \/ Calculate \/ Negate \/ Skip \/ Jump \/ Branch \/ Call \/ Return \/ PushOperand
  \/ PushRegister \/ Drop \/ Swap \/ PopFrame \/ EnterFrame \/ LeaveFrame \/ Reserve
  \/ Fetch \/ Store \/ SaveResult \/ Speak \/ Stop

\* The interpreter starts if the code does with opcode 0x22; memory is "block".
Start(script, block) ==
  /\ code' = script.code /\ vars' = script.vars /\ mem' = block
  /\ sp' = 0 /\ frame' = 0 /\ ip' = 0
  /\ running' = (script.code[1] = 34)
  /\ UNCHANGED result
=============================================================================
