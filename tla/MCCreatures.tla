---------------------------- MODULE MCCreatures ----------------------------
(* What a creature goes through: its searches for a path on every level of  *)
(* a grid, the path slots it walks by, the sweeps that tick it, and the     *)
(* pass that brings a level to rest, on the same list as the sweeps.  One of *)
(* the four runs in a behaviour and the others rest.                        *)
EXTENDS PathQuery, WalkPaths, MobileTick, SettlePass

CONSTANTS a, b, m1, m2, m3

\* Two creatures in rooms of their own; one has two places to go to.
MCRoom == [c \in {a, b} |->
  IF c = a THEN {<<1, 1>>, <<2, 1>>, <<2, 2>>} ELSE {<<4, 1>>, <<4, 2>>}]
MCTiles == MCRoom[a] \cup MCRoom[b]
MCGoals == [c \in {a, b} |-> IF c = a THEN {<<2, 2>>} ELSE MCRoom[b]]
Borders(tiles) == {p \in SUBSET tiles : Cardinality(p) = 2 /\
  \A t, u \in p : t = u \/ Distance(t[1], u[1]) + Distance(t[2], u[2]) = 1}
MCPassages == Borders(MCTiles)
MCHeights == [t \in MCTiles |-> 0]

\* Every set of passages between the tiles of a grid of two by three.
Grid == (1 .. 2) \X (1 .. 3)
MCLevels == {[tiles |-> Grid, passages |-> p,
              heights |-> [t \in Grid |-> (t[1] + 2 * t[2]) % 3]] : p \in SUBSET Borders(Grid)}

\* Two creatures, slow and quick, on a clock that turns; three in a pass.
MCLoadedPhases == {0, 9}
Sweeps == ToSet(list) \subseteq {m1, m2}

VARIABLE which

passOnly == <<kinds, place, history>>
sweepOnly == <<phase, sweep, excused>>

MCInit ==
  /\ which \in {"query", "walk", "sweep", "settle"}
  /\ IF which = "query" THEN QueryInit
     ELSE floor = NoTile /\ kept = 0 /\ asked = <<>> /\ answer = <<>>
  /\ Init /\ phase[m3] = 0 /\ Sweeps
  /\ which # "sweep" => list = <<>> /\ \A m \in Mobiles : phase[m] = 0
  /\ WalkInit /\ NoPass

QueryRuns ==
  which = "query" /\ QueryNext /\ UNCHANGED <<which, walkVars, vars, passOnly>>
WalkRuns ==
  which = "walk" /\ WalkNext /\ UNCHANGED <<which, queryVars, vars, passOnly>>
SweepRuns ==
  which = "sweep" /\ Next /\ Sweeps' /\ UNCHANGED <<which, queryVars, walkVars, passOnly>>
SettleRuns ==
  which = "settle" /\ PassNext /\ UNCHANGED <<which, queryVars, walkVars, sweepOnly>>

MCSpec ==
  /\ MCInit
  /\ [][QueryRuns \/ WalkRuns \/ SweepRuns \/ SettleRuns]_
       <<which, queryVars, walkVars, vars, passOnly>>
  /\ which = "sweep" => Fairness

SweptAreTicked == which = "sweep" => EverybodyTicked
=============================================================================
