----------------------------- MODULE BablScripts -----------------------------
(***************************************************************************)
(* The language of the conversation scripts, as far as the words of        *)
(* DATA/CNV.ARK and the interpreter tell: how expressions and statements   *)
(* become code, and what they mean.  The compiler is not part of the       *)
(* program; this stands in for it.                                         *)
(***************************************************************************)
EXTENDS Integers, Sequences

\* Expressions and statements.
Num(n) == [k |-> "num", n |-> n]
Var(a) == [k |-> "var", a |-> a]
Local(i) == [k |-> "local", i |-> i]     \* 1, 2, ... locals; -2 the argument
Un(op, e) == [k |-> "un", op |-> op, e |-> e]
Bin(op, e, f) == [k |-> "bin", op |-> op, e |-> e, f |-> f]
Swapped(op, e, f) == [k |-> "swapped", op |-> op, e |-> e, f |-> f]  \* f first
Elem(a, e) == [k |-> "elem", a |-> a, e |-> e]   \* of an array, from 1 on
CallOf(e) == [k |-> "call", e |-> e]
GameCall(n, a) == [k |-> "game", n |-> n, a |-> a]   \* game function n on variable a

Set(a, e) == [k |-> "set", a |-> a, e |-> e]
SetLocal(i, e) == [k |-> "setlocal", i |-> i, e |-> e]
If(c, s, t) == [k |-> "if", c |-> c, s |-> s, t |-> t]
Unless(c, s) == [k |-> "unless", c |-> c, s |-> s]
While(c, s) == [k |-> "while", c |-> c, s |-> s]
Result(e) == [k |-> "result", e |-> e]
Say(n) == [k |-> "say", n |-> n]

\* The code of an expression leaves its value on the stack; procedure "proc".
RECURSIVE Code(_, _)
Code(e, proc) ==
  CASE e.k = "num" -> <<22, e.n>>
    [] e.k = "var" -> <<22, e.a, 31>>
    [] e.k = "local" -> <<23, e.i, 31>>
    [] e.k = "un" -> Code(e.e, proc) \o <<e.op>>
    [] e.k = "bin" -> Code(e.e, proc) \o Code(e.f, proc) \o <<e.op>>
    [] e.k = "swapped" -> Code(e.f, proc) \o Code(e.e, proc) \o <<25, e.op>>
    [] e.k = "elem" -> <<22, e.a>> \o Code(e.e, proc) \o <<33, 31>>
    [] e.k = "call" -> Code(e.e, proc) \o <<19, proc, 24, 36>>
    [] e.k = "game" -> <<22, e.a, 22, 1, 20, e.n, 24, 24, 36>>

RECURSIVE Compile(_, _)
Compile(s, proc) ==
  IF s = <<>> THEN <<>>
  ELSE LET h == Head(s)
           words ==
             CASE h.k = "set" -> <<22, h.a>> \o Code(h.e, proc) \o <<32>>
               [] h.k = "setlocal" -> <<23, h.i>> \o Code(h.e, proc) \o <<32>>
               [] h.k = "result" -> Code(h.e, proc) \o <<35, 24>>
               [] h.k = "say" -> <<22, h.n, 39>>
               [] h.k = "if" ->
                    LET yes == Compile(h.s, proc)
                        no == Compile(h.t, proc)
                    IN  Code(h.c, proc) \o <<16, Len(yes) + 3>> \o yes
                          \o <<18, Len(no) + 1>> \o no
               [] h.k = "unless" ->
                    LET body == Compile(h.s, proc)
                    IN  Code(h.c, proc) \o <<17, Len(body) + 1>> \o body
               [] h.k = "while" ->
                    LET test == Code(h.c, proc)
                        body == Compile(h.s, proc)
                    IN  test \o <<16, Len(body) + 3>> \o body
                          \o <<18, -(Len(test) + Len(body) + 3)>>
       IN  words \o Compile(Tail(s), proc)

\* A procedure keeps the frame of its caller and has one local.
Procedure(body, at) == <<26, 28, 22, 1, 30>> \o Compile(body, at) \o <<29, 27, 21>>

\* A script, its one procedure ahead of it.
Program(body, procedure) ==
  LET at == 3
      proc == Procedure(procedure, at)
  IN  <<34, 15, at + Len(proc)>> \o proc \o Compile(body, at) \o <<21>>

\* What an expression means, on mathematical integers cut to 16 bits, when
\* variable a holds env[a].
Cut(n) == LET m == n % 65536 IN IF m >= 32768 THEN m - 65536 ELSE m
RECURSIVE Meaning(_, _)
Meaning(e, env) ==
  CASE e.k = "num" -> e.n
    [] e.k = "var" -> env[e.a]
    [] e.k = "un" -> LET a == Meaning(e.e, env)
                     IN  IF e.op = 41 THEN Cut(-a) ELSE IF a = 0 THEN 1 ELSE 0
    [] e.k = "elem" -> env[e.a + Meaning(e.e, env) - 1]
    [] e.k \in {"bin", "swapped"} ->
         LET a == Meaning(e.e, env)
             b == Meaning(e.f, env)
             yes(p) == IF p THEN 1 ELSE 0
             sign == IF (a < 0) # (b < 0) THEN -1 ELSE 1
             size(n) == IF n < 0 THEN -n ELSE n
             q == sign * (size(a) \div size(b))
         IN  CASE e.op = 1 -> Cut(a + b) [] e.op = 2 -> Cut(a * b) [] e.op = 3 -> Cut(a - b)
               [] e.op = 4 -> IF b = 0 THEN -1 ELSE Cut(q)
               [] e.op = 5 -> IF b = 0 THEN -1 ELSE a - b * q
               [] e.op = 6 -> yes({a, b} # {0}) [] e.op = 7 -> yes(0 \notin {a, b})
               [] e.op = 9 -> yes(b < a) [] e.op = 10 -> yes(~(a < b))
               [] e.op = 11 -> yes(a < b) [] e.op = 12 -> yes(~(b < a))
               [] e.op = 13 -> yes(a = b) [] e.op = 14 -> yes(a # b)
=============================================================================
