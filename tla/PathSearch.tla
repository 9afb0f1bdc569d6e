----------------------------- MODULE PathSearch -----------------------------
(***************************************************************************)
(* The search that finds a creature's way from tile to tile                *)
(* (creature_find_path_to_tile, ai.c).  A level is [tiles, passages,       *)
(* heights]: passages are pairs of neighbouring tiles a creature can walk  *)
(* between, and heights tells how high it comes out.                       *)
(*                                                                         *)
(* It is written as a breadth-first search, layer by layer, but does less: *)
(*  - one variable counts the tiles of a layer and the directions of a     *)
(*    tile, so that only the first tile of a layer is looked around from   *)
(*    (of six and more another is, again and again; none has so many);     *)
(*  - the rows of the first layer are written to an array of their own     *)
(*    (DAT_001014e1), and read where an earlier search has left a row, if  *)
(*    any has: beside the columns (DAT_001014e0).                          *)
(*                                                                         *)
(* A tile that is reached twice hangs from the tile that reached it first  *)
(* unless a later one, no farther from the start, brings the creature out  *)
(* nearer the height of the goal.                                          *)
(***************************************************************************)
EXTENDS Integers, Sequences, FiniteSets, FiniteSetsExt

CONSTANTS
  MaxDepth,  \* layers of the search after the first (31)
  NoTile

Directions == << <<0, 1>>, <<1, 0>>, <<0, -1>>, <<-1, 0>> >>  \* DAT_000853b0
Neighbour(t, d) == <<t[1] + d[1], t[2] + d[2]>>
Open(level, a, b) == {a, b} \in level.passages
Distance(x, y) == IF x < y THEN y - x ELSE x - y

\* The grid of parents, costs and heights (DAT_0023cf08), the layer being filled and
\* its distance from the start, whether the goal has been found, and the row that
\* is kept from search to search.
Start(level, row, from) ==
  [parent |-> [t \in level.tiles |-> IF t = from THEN from ELSE NoTile],
   cost |-> [t \in level.tiles |-> 0],
   rise |-> [t \in level.tiles |-> 0],
   layer |-> <<>>, depth |-> 1, found |-> FALSE, row |-> row]

Hang(s, cur, next, height) ==
  [s EXCEPT !.parent = [s.parent EXCEPT ![next] = cur],
            !.cost = [s.cost EXCEPT ![next] = s.depth],
            !.rise = [s.rise EXCEPT ![next] = height]]

\* Mutant: the search goes on when it has found the goal.
LookOn(level, s, cur, d, goal) ==
  LET next == Neighbour(cur, d)
      new == s.parent[next] = NoTile
      height == level.heights[cur] + level.heights[next]
      nearer == Distance(height, level.heights[goal]) < Distance(s.rise[next], level.heights[goal])
  IN  IF ~Open(level, cur, next) \/ s.parent[cur] = next THEN s
      ELSE IF new \/ (s.cost[cur] < s.cost[next] /\ nearer)
      THEN [Hang(s, cur, next, height) EXCEPT
              !.layer = IF new THEN Append(s.layer, next) ELSE s.layer,
              !.found = next = goal]
      ELSE s

\* One direction of a tile.  How high the creature comes out depends on the way it
\* came, as on a bridge.
Look(level, s, cur, d, goal) ==
  LET next == Neighbour(cur, d)
      new == s.parent[next] = NoTile
      height == level.heights[cur] + level.heights[next]
      nearer == Distance(height, level.heights[goal]) < Distance(s.rise[next], level.heights[goal])
  IN  IF s.found \/ ~Open(level, cur, next) \/ s.parent[cur] = next THEN s
      ELSE IF new \/ (s.cost[cur] < s.cost[next] /\ nearer)
      THEN [Hang(s, cur, next, height) EXCEPT
              !.layer = IF new THEN Append(s.layer, next) ELSE s.layer,
              !.found = next = goal]
      ELSE s

\* The four directions of a tile.
Around(level, s, cur, goal) ==
  LET north == Look(level, s, cur, Directions[1], goal)
      east == Look(level, north, cur, Directions[2], goal)
      south == Look(level, east, cur, Directions[3], goal)
  IN  Look(level, south, cur, Directions[4], goal)

\* The tile that is looked around from: the first of the layer, in the first layer
\* with the kept row for its own.
First(s) == IF s.depth = 1 THEN <<s.layer[1][1], s.row>> ELSE s.layer[1]

\* The next layer.  Every other layer has its rows beside the columns, and its first
\* row is kept.
Expand(level, s, goal) ==
  LET next == Around(level, [s EXCEPT !.layer = <<>>, !.depth = s.depth + 1], First(s), goal)
  IN  IF s.found \/ s.layer = <<>> THEN s
      ELSE IF next.depth % 2 = 1 /\ next.layer # <<>>
      THEN [next EXCEPT !.row = next.layer[1][2]]
      ELSE next

\* reconstruct_path_from_bfs: the tiles after the start, from parent to parent.
WayTo(s, goal) ==
  LET back[k \in 0 .. s.depth - 1] == IF k = 0 THEN goal ELSE s.parent[back[k - 1]]
  IN  [k \in 1 .. s.depth |-> back[s.depth - k]]

\* The searches of 0, 1, .. MaxDepth layers after the first.
Searches(level, row, from, goal) ==
  LET search[k \in 0 .. MaxDepth] ==
        IF k = 0 THEN Around(level, Start(level, row, from), from, goal)
        ELSE Expand(level, search[k - 1], goal)
  IN  search

\* The path, <<>> when there is none, and the row that is kept.
FindPath(level, row, from, goal) ==
  LET end == Searches(level, row, from, goal)[MaxDepth]
  IN  [path |-> IF end.found THEN WayTo(end, goal) ELSE <<>>, row |-> end.row]

\* A level as the searches need it: its outermost row is rock (tiles are those that
\* are not), and passages lead to neighbours.
IsLevel(level) ==
  /\ level.tiles \subseteq (Nat \ {0}) \X (Nat \ {0})
  /\ \A p \in level.passages : \E t \in level.tiles, i \in 1 .. 4 :
       LET next == Neighbour(t, Directions[i]) IN next \in level.tiles /\ p = {t, next}
=============================================================================
