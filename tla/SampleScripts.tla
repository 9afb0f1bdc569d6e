---------------------------- MODULE SampleScripts ----------------------------
(* Scripts to run: some compute a value their source tells, others remember   *)
(* what was said.                                                             *)
EXTENDS BablScripts, TLC

CONSTANT None

\* The sum of the numbers below the argument, by recursion.
SumBelow == <<SetLocal(1, Bin(3, Local(-2), Num(1))),
         If(Bin(9, Local(1), Num(0)),
              <<Result(Bin(1, CallOf(Local(1)), Local(1)))>>,
              <<Result(Num(0))>>)>>
Talked(statements, variables, names, wanted) ==
  [code |-> Program(statements, SumBelow), vars |-> variables, named |-> names, want |-> wanted]
Attitude3 == 2 :> "npc_attitude"
Evaluating(e) ==
  Talked(<<Set(1, Num(5)), Set(0, e)>>, 3, Attitude3, Meaning(e, [a \in 0 .. 1 |-> 5]))

Samples == {0, -7, 32767, -32768}
Operations == (1 .. 14) \ {8}
Expressions ==
  {Bin(op, Num(a), Num(b)) : op \in Operations, a \in Samples, b \in Samples}
  \cup {Bin(f, Bin(g, Num(7), Num(-2)), Var(1)) : f \in Operations, g \in Operations}
  \cup {Swapped(f, Var(1), Un(u, Bin(g, Num(2), Num(-9)))) : f \in Operations, g \in {4, 5}, u \in {8, 41}}
  \cup {Elem(0, Bin(1, Num(1), Num(1)))}

Recursive == Talked(<<Set(0, CallOf(Num(4)))>>, 3, Attitude3, 6)
Counting ==
  Talked(<<Set(1, Num(3)), Set(0, Num(0)),
           While(Bin(9, Var(1), Num(0)),
             <<Set(0, Bin(1, Var(0), Var(1))), Set(1, Bin(3, Var(1), Num(1)))>>),
           Unless(Bin(13, Var(1), Num(0)), <<Set(0, Num(0))>>)>>, 3, Attitude3, 6)
Odd == [code |-> <<22, 0, 22, 9, 32, 38>>, vars |-> 3, named |-> Attitude3, want |-> None]

\* Scripts that remember: how often one has been here, the answer, a quest.
Visited(variables, names) ==
  Talked(<<Set(0, Bin(1, Var(0), Num(1))), Set(1, GameCall(0, 1)), Say(1),
           If(Bin(13, Var(1), Num(2)), <<Set(2, Num(5))>>,
             <<If(Bin(13, Var(1), Num(3)), <<Set(2, Num(0))>>, <<>>)>>)>>,
         variables, names, None)
Quests ==
  Talked(<<Set(2, GameCall(1, 2)), Set(3, Bin(37, Num(1), Var(3))), Set(3, GameCall(2, 3))>>, 4,
         (0 :> "npc_attitude") @@ (1 :> "npc_talkedto"), None)
Brief == Talked(<<Set(0, Bin(1, Var(0), Num(1)))>>, 2, 1 :> "npc_attitude", None)
ScriptSets ==
  {1 :> Evaluating(e) : e \in Expressions}
  \cup {1 :> s : s \in {Recursive, Counting, Odd}}
  \cup {(1 :> Visited(3, Attitude3)) @@ (2 :> Quests), (1 :> Visited(3, Attitude3)) @@ (2 :> Visited(4, Attitude3)),
        (1 :> Visited(3, Attitude3)) @@ (3 :> Visited(3, Attitude3)),
        (1 :> Brief) @@ (2 :> Quests), (2 :> Visited(3, Attitude3)) @@ (1 :> Visited(4, Attitude3))}
=============================================================================
