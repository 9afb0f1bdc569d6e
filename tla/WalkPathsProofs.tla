-------------------------- MODULE WalkPathsProofs --------------------------
(***************************************************************************)
(* Proofs about the path search and the path slots of creatures, for any   *)
(* level bordered by rock, any set of creatures and any numbers of slots:  *)
(* what the search finds, which slots are taken, and where the path in     *)
(* each of them leads.                                                     *)
(***************************************************************************)
EXTENDS WalkPaths, PathQuery, FiniteSetTheorems, WellFoundedInduction, TLAPS

----------------------------------------------------------------------------
(* The search.                                                             *)

\* The state of a search, field by field.
IsSearch(level, s) ==
  /\ s = [parent |-> s.parent, cost |-> s.cost, rise |-> s.rise, layer |-> s.layer,
          depth |-> s.depth, found |-> s.found, row |-> s.row]
  /\ s.parent = [t \in level.tiles |-> s.parent[t]]

\* While the start is looked around from: the tiles not yet looked at hang nowhere.
Begun(level, s, row, from, goal, seen) ==
  /\ IsSearch(level, s)
  /\ s.depth = 1 /\ s.row = row /\ s.parent[from] = from
  /\ s.found <=> goal \in seen /\ Open(level, from, goal)
  /\ ~s.found => \A t \in level.tiles \ (seen \cup {from}) : s.parent[t] = NoTile

\* Passages lead to neighbours, and a neighbour is another tile.
LEMMA PassagesLeadNextDoor ==
  ASSUME NEW level, IsLevel(level), NEW p, NEW q, Open(level, p, q)
  PROVE  /\ p \in level.tiles /\ q \in level.tiles /\ p # q
         /\ \E i \in 1 .. 4 : q = Neighbour(p, Directions[i])
<1>1. PICK t \in level.tiles, i \in 1 .. 4 :
        Neighbour(t, Directions[i]) \in level.tiles /\ {p, q} = {t, Neighbour(t, Directions[i])}
  BY DEF IsLevel, Open
<1> DEFINE next == Neighbour(t, Directions[i])
<1>2. t = <<t[1], t[2]>> /\ t[1] \in Nat /\ t[2] \in Nat
  BY DEF IsLevel
<1>3. /\ i = 1 => next = <<t[1], t[2] + 1>>
      /\ i = 2 => next = <<t[1] + 1, t[2]>>
      /\ i = 3 => next = <<t[1], t[2] - 1>>
      /\ i = 4 => next = <<t[1] - 1, t[2]>>
  BY <1>2 DEF Neighbour, Directions
<1>4. t # next /\ i \in {1, 2, 3, 4}
  BY <1>2, <1>3
<1>5. CASE p = t /\ q = next
  BY <1>1, <1>4, <1>5
<1>6. CASE p = next /\ q = t
  <2>1. CASE i = 1
    <3>1. q = Neighbour(p, Directions[3])
      BY <1>2, <1>3, <1>6, <2>1 DEF Neighbour, Directions
    <3> QED
      BY <3>1, <1>1, <1>4, <1>6
  <2>2. CASE i = 2
    <3>1. q = Neighbour(p, Directions[4])
      BY <1>2, <1>3, <1>6, <2>2 DEF Neighbour, Directions
    <3> QED
      BY <3>1, <1>1, <1>4, <1>6
  <2>3. CASE i = 3
    <3>1. q = Neighbour(p, Directions[1])
      BY <1>2, <1>3, <1>6, <2>3 DEF Neighbour, Directions
    <3> QED
      BY <3>1, <1>1, <1>4, <1>6
  <2>4. CASE i = 4
    <3>1. q = Neighbour(p, Directions[2])
      BY <1>2, <1>3, <1>6, <2>4 DEF Neighbour, Directions
    <3> QED
      BY <3>1, <1>1, <1>4, <1>6
  <2> QED
    BY <1>4, <2>1, <2>2, <2>3, <2>4
<1> QED
  BY <1>1, <1>4, <1>5, <1>6

\* One look from the start.
LEMMA LookFromStart ==
  ASSUME NEW level, IsLevel(level), NEW row, NEW from, NEW goal, NEW d, NEW seen,
         NEW s, Begun(level, s, row, from, goal, seen), Neighbour(from, d) \notin seen
  PROVE  Begun(level, Look(level, s, from, d, goal), row, from, goal, seen \cup {Neighbour(from, d)})
<1> DEFINE next == Neighbour(from, d)
           new == s.parent[next] = NoTile
           height == level.heights[from] + level.heights[next]
           nearer == Distance(height, level.heights[goal]) < Distance(s.rise[next], level.heights[goal])
           parent == [s.parent EXCEPT ![next] = from]
           cost == [s.cost EXCEPT ![next] = s.depth]
           rise == [s.rise EXCEPT ![next] = height]
           layer == IF new THEN Append(s.layer, next) ELSE s.layer
           hung == [Hang(s, from, next, height) EXCEPT !.layer = layer, !.found = next = goal]
           u == Look(level, s, from, d, goal)
<1>1. CASE s.found
  <2>1. u = s
    BY <1>1 DEF Look
  <2> QED
    BY <1>1, <2>1 DEF Begun
<1>2. CASE ~s.found /\ ~Open(level, from, next)
  <2>1. u = s
    BY <1>2 DEF Look
  <2> HIDE DEF next, u
  <2> QED
    BY <1>2, <2>1 DEF Begun, next, u
<1>3. CASE ~s.found /\ Open(level, from, next)
  <2>1. from \in level.tiles /\ next \in level.tiles /\ next # from
    BY <1>3, PassagesLeadNextDoor
  <2>2. new
    BY <1>3, <2>1 DEF Begun
  <2>3. s.parent[from] # next
    BY <2>1 DEF Begun
  <2>4. u = hung
    BY <1>3, <2>2, <2>3 DEF Look
  <2> HIDE DEF next, height, cost, rise, layer
  <2>5. u = [parent |-> parent, cost |-> cost, rise |-> rise, layer |-> layer,
             depth |-> s.depth, found |-> next = goal, row |-> s.row]
    BY <2>4 DEF Hang, Begun, IsSearch, cost, rise
  <2>6. parent = [t \in level.tiles |-> IF t = next THEN from ELSE s.parent[t]]
    BY DEF Begun, IsSearch
  <2> HIDE DEF u, parent
  <2>7. /\ u.parent = parent /\ u.depth = 1 /\ u.row = row /\ u.found = (next = goal)
        /\ parent = [t \in level.tiles |-> parent[t]]
    BY <2>5, <2>6 DEF Begun
  <2>8. IsSearch(level, u)
    BY <2>5, <2>7 DEF IsSearch
  <2>9. u.found <=> goal \in seen \cup {next} /\ Open(level, from, goal)
    BY <1>3, <2>7 DEF Begun
  <2> QED
    BY <2>1, <2>6, <2>7, <2>8, <2>9, <1>3 DEF Begun, u, next
<1> QED
  BY <1>1, <1>2, <1>3

\* The first layer: the goal is found exactly when it is next door.
LEMMA FirstLayer ==
  ASSUME NEW level, IsLevel(level), NEW row, NEW from \in level.tiles, NEW goal,
         NEW s, s = Around(level, Start(level, row, from), from, goal)
  PROVE  IsSearch(level, s) /\ s.depth = 1 /\ s.row = row /\ (s.found <=> Open(level, from, goal))
<1> DEFINE north == Look(level, Start(level, row, from), from, Directions[1], goal)
           east == Look(level, north, from, Directions[2], goal)
           south == Look(level, east, from, Directions[3], goal)
           n1 == Neighbour(from, Directions[1])
           n2 == Neighbour(from, Directions[2])
           n3 == Neighbour(from, Directions[3])
           n4 == Neighbour(from, Directions[4])
<1>1. Begun(level, Start(level, row, from), row, from, goal, {})
  BY DEF Begun, IsSearch, Start
<1>2. from[1] \in Nat /\ from[2] \in Nat
  BY DEF IsLevel
<1>3. /\ n1 = <<from[1], from[2] + 1>> /\ n2 = <<from[1] + 1, from[2]>>
      /\ n3 = <<from[1], from[2] - 1>> /\ n4 = <<from[1] - 1, from[2]>>
  BY <1>2 DEF Neighbour, Directions
<1>4. n2 # n1 /\ n3 # n1 /\ n3 # n2 /\ n4 # n1 /\ n4 # n2 /\ n4 # n3
  BY <1>2, <1>3
<1>5. s = Look(level, south, from, Directions[4], goal)
  BY DEF Around
<1> HIDE DEF n1, n2, n3, n4
<1>6. Begun(level, north, row, from, goal, {n1})
  <2>1. n1 \notin {}
    OBVIOUS
  <2>2. Begun(level, north, row, from, goal, {} \cup {n1})
    BY <1>1, <2>1, LookFromStart DEF n1
  <2> QED
    BY <2>2
<1> HIDE DEF north
<1>7. Begun(level, east, row, from, goal, {n1} \cup {n2})
  BY <1>4, <1>6, LookFromStart DEF n2
<1> HIDE DEF east
<1>8. Begun(level, south, row, from, goal, ({n1} \cup {n2}) \cup {n3})
  <2>1. n3 \notin {n1} \cup {n2}
    BY <1>4
  <2> QED
    BY <2>1, <1>7, LookFromStart DEF n3
<1> HIDE DEF south
<1>9. Begun(level, s, row, from, goal, (({n1} \cup {n2}) \cup {n3}) \cup {n4})
  <2>1. n4 \notin ({n1} \cup {n2}) \cup {n3}
    BY <1>4
  <2> QED
    BY <2>1, <1>5, <1>8, LookFromStart DEF n4
<1>10. Open(level, from, goal) => goal \in {n1, n2, n3, n4}
  BY PassagesLeadNextDoor DEF n1, n2, n3, n4
<1>11. IsSearch(level, s) /\ s.depth = 1 /\ s.row = row
  BY <1>9 DEF Begun
<1>12. s.found <=> Open(level, from, goal)
  BY <1>9, <1>10 DEF Begun
<1> QED
  BY <1>11, <1>12

\* From a tile of row 0, in the rock, nothing is reached.
LEMMA RockEnds ==
  ASSUME NEW level, IsLevel(level), NEW x, NEW s, NEW goal
  PROVE  Around(level, s, <<x, 0>>, goal) = s
<1>1. ASSUME NEW q, Open(level, <<x, 0>>, q) PROVE FALSE
  <2>1. <<x, 0>> \in level.tiles
    BY <1>1, PassagesLeadNextDoor
  <2> QED
    BY <2>1 DEF IsLevel
<1>2. ASSUME NEW d PROVE Look(level, s, <<x, 0>>, d, goal) = s
  BY <1>1 DEF Look
<1> QED
  BY <1>2 DEF Around

\* The layer after the first is empty.
LEMMA SecondLayer ==
  ASSUME NEW level, IsLevel(level), NEW s, NEW goal, IsSearch(level, s), s.depth = 1, s.row = 0
  PROVE  LET u == Expand(level, s, goal)
         IN  /\ u.found = s.found /\ (s.found => u = s) /\ u.row = 0
             /\ Expand(level, u, goal) = u
<1> DEFINE u == Expand(level, s, goal)
           none == <<>>
           deeper == s.depth + 1
           empty == [s EXCEPT !.layer = none, !.depth = deeper]
<1>1. CASE s.found \/ s.layer = <<>>
  <2>1. u = s
    BY <1>1 DEF Expand
  <2> QED
    BY <2>1
<1>2. CASE ~s.found /\ s.layer # <<>>
  <2>1. empty = [parent |-> s.parent, cost |-> s.cost, rise |-> s.rise, layer |-> none,
                 depth |-> deeper, found |-> s.found, row |-> s.row]
    <3> DEFINE one == [s EXCEPT !.layer = none]
    <3> HIDE DEF none, deeper
    <3>1. one = [parent |-> s.parent, cost |-> s.cost, rise |-> s.rise, layer |-> none,
                 depth |-> s.depth, found |-> s.found, row |-> s.row]
      BY DEF IsSearch
    <3>2. empty = [one EXCEPT !.depth = deeper]
      OBVIOUS
    <3> HIDE DEF one
    <3> QED
      BY <3>1, <3>2
  <2>2. First(s) = <<s.layer[1][1], 0>>
    BY DEF First
  <2> HIDE DEF empty
  <2>3. Around(level, empty, First(s), goal) = empty
    BY <2>2, RockEnds
  <2>4. u = empty
    BY <1>2, <2>1, <2>3 DEF Expand, empty
  <2>5. empty.layer = <<>> /\ empty.found = s.found /\ empty.row = 0
    BY <2>1
  <2>6. Expand(level, empty, goal) = empty
    BY <2>5 DEF Expand
  <2> HIDE DEF u
  <2>7. /\ u.found = s.found /\ (s.found => u = s) /\ u.row = 0
        /\ Expand(level, u, goal) = u
    BY <1>2, <2>4, <2>5, <2>6
  <2> QED
    BY <2>7 DEF u
<1> QED
  BY <1>1, <1>2

\* Of a property that fails for some natural number there is a first failure.
LEMMA FirstFailure ==
  ASSUME NEW F, F \subseteq Nat, F # {}
  PROVE  \E x \in F : \A y \in F : ~(y < x)
<1> DEFINE R == OpToRel(<, Nat)
<1>1. IsWellFoundedOn(R, Nat)
  BY NatLessThanWellFounded
<1>2. PICK x \in F : \A y \in F : ~(<<y, x>> \in R)
  <2> HIDE DEF R
  <2> QED
    BY <1>1, WFMin
<1> QED
  BY <1>2 DEF OpToRel

\* However many layers are asked for, the search is what it was after the second.
LEMMA SearchSettles ==
  ASSUME MaxDepth \in Nat, NEW level, NEW row, NEW from, NEW goal, NEW s, NEW u,
         s = Around(level, Start(level, row, from), from, goal),
         u = Expand(level, s, goal), Expand(level, u, goal) = u
  PROVE  Searches(level, row, from, goal)[MaxDepth] \in {s, u}
<1> DEFINE Is(f) == f = [k \in 0 .. MaxDepth |-> IF k = 0 THEN s ELSE Expand(level, f[k - 1], goal)]
           f0 == [k \in 0 .. MaxDepth |-> IF k = 0 THEN s ELSE u]
           search == Searches(level, row, from, goal)
<1>1. search = CHOOSE f : Is(f)
  BY DEF Searches
<1>2. Is(f0)
  <2>1. ASSUME NEW k \in 0 .. MaxDepth
        PROVE  f0[k] = IF k = 0 THEN s ELSE Expand(level, f0[k - 1], goal)
    <3>1. CASE k = 0
      BY <3>1
    <3>2. CASE k = 1
      <4>1. f0[k] = u /\ f0[k - 1] = s
        BY <3>2
      <4> QED
        BY <4>1, <3>2
    <3>3. CASE k # 0 /\ k # 1
      <4>1. f0[k] = u /\ f0[k - 1] = u
        BY <3>3
      <4> QED
        BY <4>1, <3>3
    <3> QED
      BY <3>1, <3>2, <3>3
  <2> QED
    BY <2>1
<1>3. Is(search)
  <2> HIDE DEF Is, f0, search
  <2> QED
    BY <1>1, <1>2
<1> HIDE DEF search
<1>4. \A k \in 0 .. MaxDepth : search[k] = IF k = 0 THEN s ELSE Expand(level, search[k - 1], goal)
  BY <1>3
<1> DEFINE F == {k \in 0 .. MaxDepth : search[k] \notin {s, u}}
<1>5. ASSUME F # {} PROVE FALSE
  <2>1. PICK k \in F : \A y \in F : ~(y < k)
    <3>1. F \subseteq Nat
      OBVIOUS
    <3> HIDE DEF F
    <3> QED
      BY <3>1, <1>5, FirstFailure
  <2>2. k # 0
    BY <1>4
  <2>3. k - 1 \in 0 .. MaxDepth /\ k - 1 < k
    BY <2>2
  <2>4. search[k - 1] \in {s, u}
    BY <2>1, <2>3
  <2>5. search[k] = Expand(level, search[k - 1], goal)
    BY <1>4, <2>2
  <2> QED
    BY <2>4, <2>5
<1>6. search[MaxDepth] \in {s, u}
  BY <1>5
<1> QED
  BY <1>6 DEF search

\* The way to a goal that the first layer has found.
LEMMA WayNextDoor ==
  ASSUME NEW s, s.depth = 1, NEW goal
  PROVE  WayTo(s, goal) = <<goal>>
<1> DEFINE Is(f) == f = [k \in 0 .. s.depth - 1 |-> IF k = 0 THEN goal ELSE s.parent[f[k - 1]]]
           f0 == [k \in 0 .. s.depth - 1 |-> goal]
           back == CHOOSE f : Is(f)
<1>1. \A k \in 0 .. s.depth - 1 : k = 0
  OBVIOUS
<1>2. Is(f0)
  BY <1>1
<1>3. Is(back)
  <2> HIDE DEF Is, f0
  <2> QED
    BY <1>2
<1>4. back[0] = goal
  BY <1>1, <1>3
<1>5. WayTo(s, goal) = [k \in 1 .. s.depth |-> back[s.depth - k]]
  BY DEF WayTo
<1> HIDE DEF back
<1>6. [k \in 1 .. s.depth |-> back[s.depth - k]] = <<goal>>
  BY <1>4
<1> QED
  BY <1>5, <1>6

\* What a search answers, as long as the kept row is 0; and it stays 0.
LEMMA SearchAnswers ==
  ASSUME MaxDepth \in Nat, NEW level, IsLevel(level), NEW from \in level.tiles, NEW goal
  PROVE  FindPath(level, 0, from, goal) =
           [path |-> IF Open(level, from, goal) THEN <<goal>> ELSE <<>>, row |-> 0]
<1> DEFINE s == Around(level, Start(level, 0, from), from, goal)
           u == Expand(level, s, goal)
           end == Searches(level, 0, from, goal)[MaxDepth]
<1>1. IsSearch(level, s) /\ s.depth = 1 /\ s.row = 0 /\ (s.found <=> Open(level, from, goal))
  BY FirstLayer
<1> HIDE DEF s
<1>2. /\ u.found = s.found /\ (s.found => u = s) /\ u.row = 0
      /\ Expand(level, u, goal) = u
  BY <1>1, SecondLayer
<1> HIDE DEF u
<1>3. end = s \/ end = u
  BY <1>2, SearchSettles DEF s, u
<1> HIDE DEF end
<1>4. (end.found <=> Open(level, from, goal)) /\ end.row = 0 /\ (end.found => end.depth = 1)
  BY <1>1, <1>2, <1>3
<1>5. end.found => WayTo(end, goal) = <<goal>>
  BY <1>4, WayNextDoor
<1>6. FindPath(level, 0, from, goal) =
        [path |-> IF end.found THEN WayTo(end, goal) ELSE <<>>, row |-> end.row]
  BY DEF FindPath, end
<1> QED
  BY <1>4, <1>5, <1>6

QueryInv ==
  /\ floor \in Levels /\ kept = 0
  /\ FindsOnlyNextDoor

\* A search finds the goal when it is next door and nothing else, on every level that is
\* bordered by rock and whatever was searched before (creature_find_path_to_tile).
THEOREM SearchesFindNextDoor == QuerySpec => []FindsOnlyNextDoor
<1>1. QueryInit => QueryInv
  BY DEF QueryInit, QueryInv, FindsOnlyNextDoor
<1>2. QueryInv /\ [QueryNext]_queryVars => QueryInv'
  <2> SUFFICES ASSUME QueryInv, [QueryNext]_queryVars PROVE QueryInv'
    OBVIOUS
  <2>1. ASSUME NEW from \in floor.tiles, NEW goal \in floor.tiles, Ask(from, goal)
        PROVE  QueryInv'
    <3>1. FindPath(floor, kept, from, goal) =
            [path |-> IF Open(floor, from, goal) THEN <<goal>> ELSE <<>>, row |-> 0]
      BY <2>1, LevelsAssumption, SearchAnswers DEF QueryInv, Ask
    <3>2. /\ floor' = floor /\ asked' = <<from, goal>> /\ kept' = 0
          /\ answer' = IF Open(floor, from, goal) THEN <<goal>> ELSE <<>>
      BY <2>1, <3>1 DEF Ask
    <3> QED
      BY <3>2 DEF QueryInv, FindsOnlyNextDoor
  <2>2. CASE Forget
    BY <2>2 DEF QueryInv, Forget, FindsOnlyNextDoor
  <2>3. CASE UNCHANGED queryVars
    BY <2>3 DEF QueryInv, queryVars, FindsOnlyNextDoor
  <2> QED
    BY <2>1, <2>2, <2>3 DEF QueryNext
<1>3. QueryInv => FindsOnlyNextDoor
  BY DEF QueryInv
<1> QED
  BY <1>1, <1>2, <1>3, PTL DEF QuerySpec

----------------------------------------------------------------------------
(* The path slots.                                                         *)

SlotsHypothesis ==
  /\ IsFiniteSet(Creatures)
  /\ Slots \subseteq Nat
  /\ NoSlot \notin Slots

\* The records of the state, field by field.
IsCreature(n) ==
  n = [alive |-> n.alive, at |-> n.at, target |-> n.target, slot |-> n.slot,
       straight |-> n.straight, lost |-> n.lost, acting |-> n.acting]
Holds(m, n, slot) == IsCreature(m) /\ m.slot = slot /\ m.alive = n.alive
Alike(m, n) == Holds(m, n, n.slot)
Shape(v) ==
  /\ v = [npc |-> v.npc, free |-> v.free, cache |-> v.cache,
          leaked |-> v.leaked, stale |-> v.stale]
  /\ v.npc = [c \in Creatures |-> v.npc[c]]
  /\ \A c \in Creatures : IsCreature(v.npc[c])

\* A slot is free, or lost, or the slot of one creature; a creature that is not there
\* has none, so that the next to come in its record begins without one.
SlotsSound(v) ==
  /\ v.free \subseteq Slots /\ v.leaked \subseteq Slots /\ v.free \cap v.leaked = {}
  /\ \A c \in Creatures :
       Pathed(v, c) => /\ v.npc[c].slot \in Slots
                       /\ v.npc[c].slot \notin v.free /\ v.npc[c].slot \notin v.leaked
  /\ \A c, d \in Creatures : Pathed(v, c) /\ v.npc[c].slot = v.npc[d].slot => c = d
  /\ \A s \in Slots : s \in v.free \/ s \in v.leaked \/ \E c \in Creatures : v.npc[c].slot = s
AbsentHaveNone(v) == \A c \in Creatures : v.npc[c].alive \/ ~Pathed(v, c)
PathInv(v) == Shape(v) /\ SlotsSound(v) /\ AbsentHaveNone(v)

\* A step that touches neither slots nor mask.
SameSlots(u, v) ==
  /\ Shape(u) /\ u.free = v.free /\ u.leaked = v.leaked
  /\ \A c \in Creatures : /\ u.npc[c].slot = v.npc[c].slot
                          /\ v.npc[c].alive => u.npc[c].alive

----------------------------------------------------------------------------
(* The operators.                                                          *)

\* The mask's lowest free slot is one of them (pop_pending_path_cache_slot).
LEMMA LowestIsFree ==
  ASSUME NEW S, S \subseteq Nat, S # {}
  PROVE  Min(S) \in S
<1> DEFINE R == OpToRel(<, Nat)
<1>1. IsWellFoundedOn(R, Nat)
  BY NatLessThanWellFounded
<1>2. PICK x \in S : \A y \in S : ~(<<y, x>> \in R)
  <2> HIDE DEF R
  <2> QED
    BY <1>1, WFMin
<1>3. \A y \in S : x =< y
  <2> SUFFICES ASSUME NEW y \in S PROVE x =< y
    OBVIOUS
  <2>1. ~(<<y, x>> \in R)
    BY <1>2
  <2>2. ~(y < x)
    BY <2>1 DEF OpToRel
  <2> QED
    BY <2>2
<1> QED
  BY <1>2, <1>3 DEF Min

\* What keeps every slot where it is keeps the invariant.
LEMMA SameSlotsKeep ==
  ASSUME NEW v, NEW u, PathInv(v), SameSlots(u, v)
  PROVE  PathInv(u)
<1>1. Shape(u)
  BY DEF SameSlots
<1>2. \A c \in Creatures : Pathed(u, c) <=> Pathed(v, c)
  BY DEF SameSlots, Pathed
<1>3. SlotsSound(u)
  BY <1>2 DEF SameSlots, PathInv, SlotsSound
<1>4. AbsentHaveNone(u)
  BY <1>2 DEF SameSlots, PathInv, AbsentHaveNone
<1> QED
  BY <1>1, <1>3, <1>4 DEF PathInv

\* u is v with a new record for one creature.
IsPut(u, v, c, n) ==
  /\ Shape(u) /\ u.npc[c] = n
  /\ \A d \in Creatures \ {c} : u.npc[d] = v.npc[d]
  /\ u.free = v.free /\ u.leaked = v.leaked /\ u.cache = v.cache /\ u.stale = v.stale

LEMMA PutShape ==
  ASSUME NEW v, Shape(v), NEW c \in Creatures, NEW n, IsCreature(n)
  PROVE  IsPut(Put(v, c, n), v, c, n)
<1> DEFINE u == Put(v, c, n)
<1>1. u = [npc |-> [v.npc EXCEPT ![c] = n], free |-> v.free, cache |-> v.cache,
           leaked |-> v.leaked, stale |-> v.stale]
  BY DEF Put, Shape
<1>2. /\ u.npc = [v.npc EXCEPT ![c] = n] /\ u.free = v.free /\ u.cache = v.cache
      /\ u.leaked = v.leaked /\ u.stale = v.stale
  BY <1>1
<1>3. v.npc = [d \in Creatures |-> v.npc[d]]
  BY DEF Shape
<1>4. u.npc = [d \in Creatures |-> IF d = c THEN n ELSE v.npc[d]]
  BY <1>2, <1>3
<1>5. /\ u.npc[c] = n /\ \A d \in Creatures \ {c} : u.npc[d] = v.npc[d]
  BY <1>4
<1> HIDE DEF u
<1>6. Shape(u)
  <2>1. u = [npc |-> u.npc, free |-> u.free, cache |-> u.cache,
             leaked |-> u.leaked, stale |-> u.stale]
    BY <1>1, <1>2
  <2>2. u.npc = [d \in Creatures |-> u.npc[d]]
    BY <1>4
  <2>3. ASSUME NEW d \in Creatures
        PROVE  IsCreature(u.npc[d])
    <3>1. CASE d = c
      BY <3>1, <1>5
    <3>2. CASE d # c
      BY <3>2, <1>5 DEF Shape
    <3> QED
      BY <3>1, <3>2
  <2> QED
    BY <2>1, <2>2, <2>3 DEF Shape
<1> QED
  BY <1>2, <1>5, <1>6 DEF u, IsPut

\* One field after another: all but the slot may change (ai.c keeps the slot's number in
\* two bytes of their own).
LEMMA WithSlot ==
  ASSUME NEW n, IsCreature(n), NEW x
  PROVE  Holds([n EXCEPT !.slot = x], n, x)
<1>1. [n EXCEPT !.slot = x] =
      [alive |-> n.alive, at |-> n.at, target |-> n.target,
       slot |-> x, straight |-> n.straight, lost |-> n.lost, acting |-> n.acting]
  BY DEF IsCreature
<1> QED
  BY <1>1 DEF IsCreature, Alike, Holds

LEMMA WithAlive ==
  ASSUME NEW n, IsCreature(n), NEW x
  PROVE  /\ IsCreature([n EXCEPT !.alive = x])
         /\ [n EXCEPT !.alive = x].slot = n.slot /\ [n EXCEPT !.alive = x].alive = x
<1>1. [n EXCEPT !.alive = x] =
      [alive |-> x, at |-> n.at, target |-> n.target,
       slot |-> n.slot, straight |-> n.straight, lost |-> n.lost, acting |-> n.acting]
  BY DEF IsCreature
<1> QED
  BY <1>1 DEF IsCreature

LEMMA WithLost ==
  ASSUME NEW n, IsCreature(n), NEW x
  PROVE  Alike([n EXCEPT !.lost = x], n)
<1>1. [n EXCEPT !.lost = x] =
      [alive |-> n.alive, at |-> n.at, target |-> n.target,
       slot |-> n.slot, straight |-> n.straight, lost |-> x, acting |-> n.acting]
  BY DEF IsCreature
<1> QED
  BY <1>1 DEF IsCreature, Alike, Holds

LEMMA WithStraight ==
  ASSUME NEW n, IsCreature(n), NEW x
  PROVE  Alike([n EXCEPT !.straight = x], n)
<1>1. [n EXCEPT !.straight = x] =
      [alive |-> n.alive, at |-> n.at, target |-> n.target,
       slot |-> n.slot, straight |-> x, lost |-> n.lost, acting |-> n.acting]
  BY DEF IsCreature
<1> QED
  BY <1>1 DEF IsCreature, Alike, Holds

LEMMA WithActing ==
  ASSUME NEW n, IsCreature(n), NEW x
  PROVE  Alike([n EXCEPT !.acting = x], n)
<1>1. [n EXCEPT !.acting = x] =
      [alive |-> n.alive, at |-> n.at, target |-> n.target,
       slot |-> n.slot, straight |-> n.straight, lost |-> n.lost, acting |-> x]
  BY DEF IsCreature
<1> QED
  BY <1>1 DEF IsCreature, Alike, Holds

LEMMA WithAt ==
  ASSUME NEW n, IsCreature(n), NEW x
  PROVE  Alike([n EXCEPT !.at = x], n)
<1>1. [n EXCEPT !.at = x] =
      [alive |-> n.alive, at |-> x, target |-> n.target,
       slot |-> n.slot, straight |-> n.straight, lost |-> n.lost, acting |-> n.acting]
  BY DEF IsCreature
<1> QED
  BY <1>1 DEF IsCreature, Alike, Holds

LEMMA WithTarget ==
  ASSUME NEW n, IsCreature(n), NEW x
  PROVE  Alike([n EXCEPT !.target = x], n)
<1>1. [n EXCEPT !.target = x] =
      [alive |-> n.alive, at |-> n.at, target |-> x,
       slot |-> n.slot, straight |-> n.straight, lost |-> n.lost, acting |-> n.acting]
  BY DEF IsCreature
<1> QED
  BY <1>1 DEF IsCreature, Alike, Holds

LEMMA WithTargetLost ==
  ASSUME NEW n, IsCreature(n), NEW x, NEW y
  PROVE  Alike([n EXCEPT !.target = x, !.lost = y], n)
<1> DEFINE m == [n EXCEPT !.target = x]
<1>1. Alike(m, n)
  BY WithTarget
<1>2. [n EXCEPT !.target = x, !.lost = y] = [m EXCEPT !.lost = y]
  OBVIOUS
<1> HIDE DEF m
<1>3. Alike([m EXCEPT !.lost = y], m)
  BY <1>1, WithLost DEF Alike, Holds
<1> QED
  BY <1>1, <1>2, <1>3 DEF Alike, Holds

LEMMA WithStraightLost ==
  ASSUME NEW n, IsCreature(n), NEW x, NEW y
  PROVE  Alike([n EXCEPT !.straight = x, !.lost = y], n)
<1> DEFINE m == [n EXCEPT !.straight = x]
<1>1. Alike(m, n)
  BY WithStraight
<1>2. [n EXCEPT !.straight = x, !.lost = y] = [m EXCEPT !.lost = y]
  OBVIOUS
<1> HIDE DEF m
<1>3. Alike([m EXCEPT !.lost = y], m)
  BY <1>1, WithLost DEF Alike, Holds
<1> QED
  BY <1>1, <1>2, <1>3 DEF Alike, Holds

LEMMA WithLostStraight ==
  ASSUME NEW n, IsCreature(n), NEW x, NEW y
  PROVE  Alike([n EXCEPT !.lost = x, !.straight = y], n)
<1> DEFINE m == [n EXCEPT !.lost = x]
<1>1. Alike(m, n)
  BY WithLost
<1>2. [n EXCEPT !.lost = x, !.straight = y] = [m EXCEPT !.straight = y]
  OBVIOUS
<1> HIDE DEF m
<1>3. Alike([m EXCEPT !.straight = y], m)
  BY <1>1, WithStraight DEF Alike, Holds
<1> QED
  BY <1>1, <1>2, <1>3 DEF Alike, Holds

LEMMA WithSlotLost ==
  ASSUME NEW n, IsCreature(n), NEW x, NEW y
  PROVE  Holds([n EXCEPT !.slot = x, !.lost = y], n, x)
<1> DEFINE k == [n EXCEPT !.slot = x]
<1>1. Holds(k, n, x)
  BY WithSlot
<1>2. [n EXCEPT !.slot = x, !.lost = y] = [k EXCEPT !.lost = y]
  OBVIOUS
<1> HIDE DEF k
<1>3. Alike([k EXCEPT !.lost = y], k)
  BY <1>1, WithLost DEF Holds
<1> QED
  BY <1>1, <1>2, <1>3 DEF Alike, Holds

\* A record with the same slot.
LEMMA PutKeeps ==
  ASSUME NEW v, Shape(v), NEW c \in Creatures, NEW n, IsCreature(n),
         n.slot = v.npc[c].slot, v.npc[c].alive => n.alive
  PROVE  SameSlots(Put(v, c, n), v)
<1> DEFINE u == Put(v, c, n)
<1>1. IsPut(u, v, c, n)
  BY PutShape
<1> HIDE DEF u
<1>2. ASSUME NEW d \in Creatures
      PROVE  u.npc[d].slot = v.npc[d].slot /\ (v.npc[d].alive => u.npc[d].alive)
  <2>1. CASE d = c
    BY <2>1, <1>1 DEF IsPut
  <2>2. CASE d # c
    BY <2>2, <1>1 DEF IsPut
  <2> QED
    BY <2>1, <2>2
<1>3. SameSlots(u, v)
  BY <1>1, <1>2 DEF SameSlots, IsPut
<1> QED
  BY <1>3 DEF u

LEMMA PutKeepsInv ==
  ASSUME NEW v, PathInv(v), NEW c \in Creatures, NEW n, IsCreature(n),
         n.slot = v.npc[c].slot, v.npc[c].alive => n.alive
  PROVE  PathInv(Put(v, c, n)) /\ IsPut(Put(v, c, n), v, c, n)
<1>1. Shape(v)
  BY DEF PathInv
<1>2. SameSlots(Put(v, c, n), v) /\ IsPut(Put(v, c, n), v, c, n)
  BY <1>1, PutShape, PutKeeps
<1> QED
  BY <1>2, SameSlotsKeep

\* A slot given back; nothing else about the creature changes.
LEMMA ReleaseKeeps ==
  ASSUME NEW v, PathInv(v), NEW c \in Creatures
  PROVE  /\ PathInv(Release(v, c)) /\ ~Pathed(Release(v, c), c)
         /\ Release(v, c).npc[c].alive = v.npc[c].alive
<1> DEFINE u == Release(v, c)
           n == [v.npc[c] EXCEPT !.slot = NoSlot]
           p == Put(v, c, n)
<1>1. CASE ~Pathed(v, c)
  BY <1>1 DEF Release
<1>2. CASE Pathed(v, c)
  <2>1. /\ Shape(v) /\ SlotsSound(v) /\ AbsentHaveNone(v)
    BY DEF PathInv
  <2>2. IsCreature(v.npc[c])
    BY <2>1 DEF Shape
  <2>3. IsCreature(n) /\ n.slot = NoSlot /\ n.alive = v.npc[c].alive
    BY <2>2, WithSlot DEF Holds
  <2> HIDE DEF n
  <2>4. IsPut(p, v, c, n)
    BY <2>1, <2>3, PutShape
  <2>5. u = [p EXCEPT !.free = v.free \cup {v.npc[c].slot}, !.stale = v.stale \ {c},
                      !.cache = [v.cache EXCEPT ![v.npc[c].slot] = NoPath]]
    BY <1>2 DEF Release, n
  <2> HIDE DEF p
  <2>6. u = [npc |-> p.npc, free |-> v.free \cup {v.npc[c].slot},
             cache |-> [v.cache EXCEPT ![v.npc[c].slot] = NoPath],
             leaked |-> p.leaked, stale |-> v.stale \ {c}]
    BY <2>4, <2>5 DEF Shape, IsPut
  <2> HIDE DEF u
  <2>7. /\ u.npc = p.npc /\ u.free = v.free \cup {v.npc[c].slot} /\ u.leaked = v.leaked
    BY <2>4, <2>6 DEF IsPut
  <2>8. Shape(u)
    BY <2>4, <2>6, <2>7 DEF Shape, IsPut
  <2>9. /\ u.npc[c].slot = NoSlot /\ u.npc[c].alive = v.npc[c].alive
        /\ \A d \in Creatures \ {c} : u.npc[d] = v.npc[d]
    BY <2>3, <2>4, <2>7 DEF IsPut
  <2>10. SlotsSound(u)
    BY <1>2, <2>1, <2>7, <2>9 DEF SlotsSound, Pathed
  <2>11. AbsentHaveNone(u)
    BY <2>1, <2>9 DEF AbsentHaveNone, Pathed
  <2>12. PathInv(u) /\ ~Pathed(u, c) /\ u.npc[c].alive = v.npc[c].alive
    BY <2>8, <2>9, <2>10, <2>11 DEF PathInv, Pathed
  <2> QED
    BY <2>12 DEF u
<1> QED
  BY <1>1, <1>2

\* Nobody else's slot moves.
LEMMA ReleaseOthers ==
  ASSUME NEW v, Shape(v), NEW c \in Creatures
  PROVE  \A d \in Creatures \ {c} : Release(v, c).npc[d] = v.npc[d]
<1> DEFINE n == [v.npc[c] EXCEPT !.slot = NoSlot]
           p == Put(v, c, n)
<1>1. CASE ~Pathed(v, c)
  BY <1>1 DEF Release
<1>2. CASE Pathed(v, c)
  <2>1. Release(v, c) =
          [p EXCEPT !.free = v.free \cup {v.npc[c].slot}, !.stale = v.stale \ {c},
                    !.cache = [v.cache EXCEPT ![v.npc[c].slot] = NoPath]]
    BY <1>2 DEF Release
  <2>2. IsCreature(v.npc[c])
    BY DEF Shape
  <2>3. IsCreature(n)
    BY <2>2, WithSlot DEF Holds
  <2> HIDE DEF n
  <2>4. IsPut(p, v, c, n)
    BY <2>3, PutShape
  <2> HIDE DEF p
  <2>5. Release(v, c).npc = p.npc
    BY <2>1, <2>4 DEF IsPut, Shape
  <2> QED
    BY <2>4, <2>5 DEF IsPut
<1> QED
  BY <1>1, <1>2

\* A slot taken from the mask by a creature without one.
LEMMA TakeKeeps ==
  ASSUME SlotsHypothesis, NEW v, PathInv(v), NEW c \in Creatures, NEW path,
         v.npc[c].alive, ~Pathed(v, c), v.free # {}
  PROVE  PathInv(Take(v, c, path)) /\ Pathed(Take(v, c, path), c)
<1> DEFINE slot == Min(v.free)
           u == Take(v, c, path)
           no == FALSE
           n == [v.npc[c] EXCEPT !.slot = slot, !.lost = no]
           p == Put(v, c, n)
<1>1. /\ Shape(v) /\ SlotsSound(v) /\ AbsentHaveNone(v)
  BY DEF PathInv
<1>2. slot \in v.free /\ slot \in Slots /\ slot # NoSlot
  BY <1>1, LowestIsFree DEF SlotsSound, SlotsHypothesis
<1> HIDE DEF slot, no
<1>3. IsCreature(v.npc[c])
  BY <1>1 DEF Shape
<1>4. Holds(n, v.npc[c], slot)
  BY <1>3, WithSlotLost
<1>5. IsCreature(n) /\ n.slot = slot /\ n.alive = v.npc[c].alive
  BY <1>4 DEF Holds
<1> HIDE DEF n
<1>6. IsPut(p, v, c, n)
  BY <1>1, <1>5, PutShape
<1>7. u = [p EXCEPT !.free = v.free \ {slot},
             !.cache = [v.cache EXCEPT ![slot] = [at |-> v.npc[c].at, step |-> 0, path |-> path]]]
  BY DEF Take, n, slot, no
<1> HIDE DEF p
<1>8. /\ u = [npc |-> p.npc, free |-> v.free \ {slot}, cache |-> u.cache,
              leaked |-> p.leaked, stale |-> p.stale]
      /\ u.npc = p.npc /\ u.free = v.free \ {slot} /\ u.leaked = v.leaked /\ u.stale = p.stale
  BY <1>6, <1>7 DEF Shape, IsPut
<1> HIDE DEF u
<1>9. Shape(u)
  BY <1>6, <1>8 DEF Shape, IsPut
<1>10. /\ u.npc[c].slot = slot /\ u.npc[c].alive
      /\ \A d \in Creatures \ {c} : u.npc[d] = v.npc[d]
  BY <1>5, <1>6, <1>8 DEF IsPut
<1>11. SlotsSound(u)
  <2>1. \A d \in Creatures \ {c} : v.npc[d].slot # slot
    BY <1>1, <1>2 DEF SlotsSound, Pathed
  <2>2. /\ u.free \subseteq Slots /\ u.leaked \subseteq Slots /\ u.free \cap u.leaked = {}
        /\ slot \notin u.free /\ slot \notin u.leaked
    BY <1>1, <1>2, <1>8 DEF SlotsSound
  <2>3. ASSUME NEW d \in Creatures, Pathed(u, d)
        PROVE  /\ u.npc[d].slot \in Slots
               /\ u.npc[d].slot \notin u.free /\ u.npc[d].slot \notin u.leaked
    <3>1. CASE d = c
      BY <3>1, <1>2, <1>10, <2>2
    <3>2. CASE d # c
      BY <3>2, <2>3, <1>1, <1>8, <1>10 DEF SlotsSound, Pathed
    <3> QED
      BY <3>1, <3>2
  <2>4. ASSUME NEW d \in Creatures, NEW e \in Creatures,
               Pathed(u, d), u.npc[d].slot = u.npc[e].slot
        PROVE  d = e
    BY <2>1, <2>4, <1>1, <1>10 DEF SlotsSound, Pathed
  <2>5. ASSUME NEW s \in Slots
        PROVE  s \in u.free \/ s \in u.leaked \/ \E d \in Creatures : u.npc[d].slot = s
    <3>1. CASE s = slot
      BY <3>1, <1>10
    <3>2. CASE s # slot /\ (s \in v.free \/ s \in v.leaked)
      BY <3>2, <1>8
    <3>3. CASE s # slot /\ \E d \in Creatures : v.npc[d].slot = s
      <4>1. PICK d \in Creatures : v.npc[d].slot = s
        BY <3>3
      <4>2. d # c
        BY <4>1, <1>1, <1>3 DEF SlotsSound, Pathed, SlotsHypothesis
      <4> QED
        BY <4>1, <4>2, <1>10
    <3> QED
      BY <3>1, <3>2, <3>3, <1>1 DEF SlotsSound
  <2> QED
    BY <2>2, <2>3, <2>4, <2>5 DEF SlotsSound
<1>12. AbsentHaveNone(u)
  BY <1>1, <1>10 DEF AbsentHaveNone, Pathed
<1>13. PathInv(u) /\ Pathed(u, c)
  BY <1>2, <1>9, <1>10, <1>11, <1>12 DEF PathInv, Pathed
<1> QED
  BY <1>13 DEF u

----------------------------------------------------------------------------
(* What a creature does.                                                   *)

Fit(v, c) == PathInv(v) /\ v.npc[c].alive

\* A record with the same slot put in.
LEMMA PutFit ==
  ASSUME NEW v, NEW c \in Creatures, Fit(v, c), NEW n, Alike(n, v.npc[c])
  PROVE  /\ Fit(Put(v, c, n), c) /\ Put(v, c, n).npc[c] = n
         /\ Pathed(Put(v, c, n), c) <=> Pathed(v, c)
         /\ Put(v, c, n).free = v.free
<1>1. /\ PathInv(v) /\ IsCreature(n) /\ n.slot = v.npc[c].slot /\ n.alive = v.npc[c].alive
      /\ v.npc[c].alive
  BY DEF Fit, Alike, Holds
<1>2. PathInv(Put(v, c, n)) /\ IsPut(Put(v, c, n), v, c, n)
  BY <1>1, PutKeepsInv
<1>3. Put(v, c, n).npc[c] = n /\ Put(v, c, n).free = v.free
  BY <1>2 DEF IsPut
<1> QED
  BY <1>1, <1>2, <1>3 DEF Fit, Pathed

LEMMA FitShape ==
  ASSUME NEW v, NEW c \in Creatures, PathInv(v)
  PROVE  Shape(v) /\ IsCreature(v.npc[c])
BY DEF PathInv, Shape

LEMMA PutTwice ==
  ASSUME NEW m, NEW n, NEW k, Alike(m, n), Alike(n, k)
  PROVE  Alike(m, k) /\ IsCreature(m)
BY DEF Alike, Holds

LEMMA ReleaseFit ==
  ASSUME NEW v, NEW c \in Creatures, Fit(v, c)
  PROVE  Fit(Release(v, c), c) /\ ~Pathed(Release(v, c), c)
BY ReleaseKeeps DEF Fit

\* What becomes of the paths themselves.
LEMMA CacheFit ==
  ASSUME NEW v, NEW c \in Creatures, Fit(v, c), NEW x
  PROVE  Fit([v EXCEPT !.cache = x], c)
<1> DEFINE u == [v EXCEPT !.cache = x]
<1>1. PathInv(v) /\ Shape(v) /\ v.npc[c].alive
  BY DEF Fit, PathInv
<1>2. u = [npc |-> v.npc, free |-> v.free, cache |-> x, leaked |-> v.leaked, stale |-> v.stale]
  BY <1>1 DEF Shape
<1> HIDE DEF u
<1>3. SameSlots(u, v) /\ u.npc = v.npc
  BY <1>1, <1>2 DEF SameSlots, Shape
<1>4. Fit(u, c)
  BY <1>1, <1>3, SameSlotsKeep DEF Fit
<1> QED
  BY <1>4 DEF u

LEMMA AdvanceFit ==
  ASSUME NEW v, NEW c \in Creatures, Fit(v, c)
  PROVE  Fit(Advance(v, c), c)
BY CacheFit DEF Advance

LEMMA FollowFit ==
  ASSUME NEW v, NEW c \in Creatures, Fit(v, c), NEW leans
  PROVE  Fit(Follow(v, c, leans), c)
BY AdvanceFit, ReleaseFit DEF Follow

\* Setting a target and running into something (npc_set_walk_target and the tick's
\* collision flags).
LEMMA AimFit ==
  ASSUME NEW v, NEW c \in Creatures, Fit(v, c), NEW goal
  PROVE  Fit(Aim(v, c, goal), c) /\ (Pathed(Aim(v, c, goal), c) <=> Pathed(v, c))
<1> DEFINE n == v.npc[c]
           same == n.lost /\ goal = n.target
           m == [n EXCEPT !.target = goal, !.lost = same]
<1>1. IsCreature(n)
  BY FitShape DEF Fit
<1>2. Aim(v, c, goal) = Put(v, c, m)
  BY DEF Aim
<1> HIDE DEF same, n
<1>3. Alike(m, n)
  BY <1>1, WithTargetLost
<1> HIDE DEF m
<1> QED
  BY <1>2, <1>3, PutFit DEF n

LEMMA BumpFit ==
  ASSUME NEW v, NEW c \in Creatures, Fit(v, c), NEW hit
  PROVE  Fit(Bump(v, c, hit), c)
<1> DEFINE r == Release(v, c)
           no == FALSE
           stopped == hit = "stopped"
           m == [r.npc[c] EXCEPT !.straight = no, !.lost = stopped]
<1>1. Bump(v, c, hit) = v \/ Bump(v, c, hit) = Put(r, c, m)
  BY DEF Bump
<1>2. Fit(r, c)
  BY ReleaseFit
<1> HIDE DEF r, no, stopped
<1>3. IsCreature(r.npc[c])
  BY <1>2, FitShape DEF Fit
<1>4. Alike(m, r.npc[c])
  BY <1>3, WithStraightLost
<1> HIDE DEF m
<1>5. Fit(Put(r, c, m), c)
  BY <1>2, <1>4, PutFit
<1> QED
  BY <1>1, <1>5

\* The rest of npc_walk_toward_tile, for a creature without a path.
LEMMA ChooseFit ==
  ASSUME SlotsHypothesis, NEW v, NEW c \in Creatures, Fit(v, c), ~Pathed(v, c),
         NEW goal, NEW changed, NEW blocked, NEW ahead
  PROVE  Fit(Choose(v, c, goal, changed, blocked, ahead), c)
<1> DEFINE n == v.npc[c]
           no == FALSE
           yes == TRUE
           again == ~ahead
           goes == [n EXCEPT !.acting = no]
           path == Ways[n.at][goal]
           tries == [n EXCEPT !.lost = again]
           straight == [goes EXCEPT !.straight = yes, !.lost = no]
           stuck == [n EXCEPT !.lost = yes, !.straight = no]
           w1 == Put(v, c, goes)
           w2 == Idle(Put(v, c, tries), c)
           w3 == Put(v, c, straight)
           w4 == Follow(Take(w1, c, path), c, FALSE)
           w5 == Idle(Put(v, c, stuck), c)
           u == Choose(v, c, goal, changed, blocked, ahead)
<1>1. u = w1 \/ u = w2 \/ u = w3 \/ (u = w4 /\ v.free # {}) \/ u = w5
  BY DEF Choose
<1>2. IsCreature(n)
  BY FitShape DEF Fit
<1> HIDE DEF u, no, yes, again, path, n
<1>3. Alike(goes, n) /\ Alike(tries, n) /\ Alike(stuck, n)
  BY <1>2, WithActing, WithLost, WithLostStraight
<1> HIDE DEF goes, tries, stuck
<1>4. Alike(straight, goes)
  <2>1. IsCreature(goes)
    BY <1>3 DEF Alike, Holds
  <2> QED
    BY <2>1, WithStraightLost
<1> HIDE DEF straight
<1>5. Alike(straight, n)
  BY <1>3, <1>4, PutTwice
<1>6. /\ Fit(w1, c) /\ (Pathed(w1, c) <=> Pathed(v, c)) /\ w1.free = v.free
      /\ Fit(Put(v, c, tries), c) /\ Fit(w3, c) /\ Fit(Put(v, c, stuck), c)
  BY <1>3, <1>5, PutFit DEF n
<1>7. Fit(w2, c) /\ Fit(w5, c)
  BY <1>6, ReleaseFit DEF Idle
<1> HIDE DEF w1
<1>8. ASSUME v.free # {} PROVE Fit(w4, c)
  <2>1. PathInv(Take(w1, c, path)) /\ Take(w1, c, path).npc[c].alive
    BY <1>6, <1>8, TakeKeeps DEF Fit, PathInv, AbsentHaveNone
  <2> QED
    BY <2>1, FollowFit DEF Fit
<1> HIDE DEF w2, w3, w4, w5
<1> QED
  BY <1>1, <1>6, <1>7, <1>8 DEF u

\* npc_walk_toward_tile.
LEMMA WalkFit ==
  ASSUME SlotsHypothesis, NEW v, NEW c \in Creatures, Fit(v, c), NEW goal,
         NEW aimed, NEW homing, NEW hit, NEW ahead
  PROVE  Fit(Walk(v, c, goal, aimed, homing, hit, ahead), c)
<1> DEFINE changed == aimed \/ goal # v.npc[c].target
           atGoal == goal = v.npc[c].at
           there == IF changed \/ atGoal THEN Release(Aim(v, c, goal), c) ELSE v
           free == Bump(there, c, hit)
           no == FALSE
           blocked == hit # "nothing" /\ ~there.npc[c].lost
           w1 == Advance(there, c)
           m2 == [there.npc[c] EXCEPT !.acting = no]
           w2 == Put(there, c, m2)
           m3 == [free.npc[c] EXCEPT !.acting = no]
           w3 == Follow(Put(free, c, m3), c, ahead)
           w4 == Choose(free, c, goal, changed, blocked, ahead)
           u == Walk(v, c, goal, aimed, homing, hit, ahead)
<1>1. u = there \/ u = w1 \/ u = w2 \/ u = w3 \/ (~Pathed(free, c) /\ u = w4)
  BY DEF Walk
<1>2. Fit(there, c)
  <2>1. Fit(Aim(v, c, goal), c)
    BY AimFit
  <2> QED
    BY <2>1, ReleaseFit
<1> HIDE DEF u, there, no, blocked, changed
<1>3. Fit(free, c)
  BY <1>2, BumpFit
<1> HIDE DEF free
<1>4. Fit(w1, c)
  BY <1>2, AdvanceFit
<1>5. Alike(m2, there.npc[c]) /\ Alike(m3, free.npc[c])
  <2>1. IsCreature(there.npc[c]) /\ IsCreature(free.npc[c])
    BY <1>2, <1>3, FitShape DEF Fit
  <2> QED
    BY <2>1, WithActing
<1> HIDE DEF m2, m3
<1>6. Fit(w2, c) /\ Fit(w3, c)
  BY <1>2, <1>3, <1>5, PutFit, FollowFit
<1>7. ASSUME ~Pathed(free, c) PROVE Fit(w4, c)
  BY <1>3, <1>7, ChooseFit
<1> HIDE DEF w1, w2, w3, w4
<1> QED
  BY <1>1, <1>2, <1>4, <1>6, <1>7 DEF u

----------------------------------------------------------------------------
(* The steps.                                                              *)

\* The first half of a tick.
LEMMA BeginFit ==
  ASSUME NEW c \in Creatures, Fit(w, c), NEW to
  PROVE  Fit(Begin(c, to), c)
<1> DEFINE v == IF w.npc[c].acting THEN Release(w, c) ELSE w
           m == [v.npc[c] EXCEPT !.at = to]
<1>1. Fit(v, c)
  BY ReleaseFit
<1>2. Begin(c, to) = Put(v, c, m)
  BY DEF Begin
<1> HIDE DEF v
<1>3. Alike(m, v.npc[c])
  <2>1. IsCreature(v.npc[c])
    BY <1>1, FitShape DEF Fit
  <2> QED
    BY <2>1, WithAt
<1> HIDE DEF m
<1> QED
  BY <1>1, <1>2, <1>3, PutFit

LEMMA InitPaths ==
  ASSUME SlotsHypothesis, WalkInit
  PROVE  PathInv(w)
BY DEF SlotsHypothesis, WalkInit, PathInv, Shape, SlotsSound, AbsentHaveNone, Pathed, IsCreature, Gone

LEMMA WalkTickPaths ==
  ASSUME SlotsHypothesis, PathInv(w), NEW c \in Creatures, WalkTick(c)
  PROVE  PathInv(w')
<1>1. Fit(w, c)
  BY DEF WalkTick, Fit
<1>2. PICK to \in Reach(c), aim, goal \in Goals[c], homing, ahead \in BOOLEAN,
        hit \in {"nothing", "still", "bumped", "stopped"} :
        /\ homing => goal = to
        /\ w' = Walk(Aim(Begin(c, to), c, aim), c, goal, aim # w.npc[c].target, homing, hit, ahead)
  BY Zenon DEF WalkTick
<1> DEFINE v == Aim(Begin(c, to), c, aim)
           aimed == aim # w.npc[c].target
<1>3. Fit(v, c)
  BY <1>1, BeginFit, AimFit
<1>4. w' = Walk(v, c, goal, aimed, homing, hit, ahead)
  BY <1>2
<1> HIDE DEF v, aimed
<1>5. Fit(Walk(v, c, goal, aimed, homing, hit, ahead), c)
  BY <1>3, WalkFit
<1> QED
  BY <1>4, <1>5 DEF Fit

\* A tick that does not walk, and what only history notes of it.
LEMMA StaleFit ==
  ASSUME NEW v, NEW c \in Creatures, Fit(v, c), NEW x
  PROVE  Fit([v EXCEPT !.stale = x], c)
<1> DEFINE u == [v EXCEPT !.stale = x]
<1>1. PathInv(v) /\ Shape(v) /\ v.npc[c].alive
  BY DEF Fit, PathInv
<1>2. u = [npc |-> v.npc, free |-> v.free, cache |-> v.cache, leaked |-> v.leaked, stale |-> x]
  BY <1>1 DEF Shape
<1> HIDE DEF u
<1>3. SameSlots(u, v) /\ u.npc = v.npc
  BY <1>1, <1>2 DEF SameSlots, Shape
<1>4. Fit(u, c)
  BY <1>1, <1>3, SameSlotsKeep DEF Fit
<1> QED
  BY <1>4 DEF u

LEMMA OtherTickPaths ==
  ASSUME PathInv(w), NEW c \in Creatures, OtherTick(c)
  PROVE  PathInv(w')
<1>1. Fit(w, c)
  BY DEF OtherTick, Fit
<1>2. PICK to \in Reach(c), aim \in Goals[c], idles \in BOOLEAN, acts \in BOOLEAN :
        LET v == Aim(Begin(c, to), c, aim)
            noted == IF Pathed(v, c) /\ aim # w.npc[c].target
                     THEN [v EXCEPT !.stale = v.stale \cup {c}] ELSE v
            rests == IF idles THEN Idle(noted, c) ELSE noted
        IN  w' = Put(rests, c, [rests.npc[c] EXCEPT !.acting = acts])
  BY DEF OtherTick
<1> DEFINE v == Aim(Begin(c, to), c, aim)
           noted == IF Pathed(v, c) /\ aim # w.npc[c].target
                    THEN [v EXCEPT !.stale = v.stale \cup {c}] ELSE v
           rests == IF idles THEN Idle(noted, c) ELSE noted
           m == [rests.npc[c] EXCEPT !.acting = acts]
<1>3. w' = Put(rests, c, m)
  BY <1>2
<1>4. Fit(v, c)
  BY <1>1, BeginFit, AimFit
<1> HIDE DEF v
<1>5. Fit(noted, c)
  BY <1>4, StaleFit
<1> HIDE DEF noted
<1>6. Fit(rests, c)
  BY <1>5, ReleaseFit DEF Idle
<1> HIDE DEF rests
<1>7. Alike(m, rests.npc[c])
  <2>1. IsCreature(rests.npc[c])
    BY <1>6, FitShape DEF Fit
  <2> QED
    BY <2>1, WithActing
<1> HIDE DEF m
<1>8. Fit(Put(rests, c, m), c)
  BY <1>6, <1>7, PutFit
<1> QED
  BY <1>3, <1>8 DEF Fit

\* A creature that dies in its own tick has given its slot back.
LEMMA DiePaths ==
  ASSUME PathInv(w), NEW c \in Creatures, Die(c)
  PROVE  PathInv(w')
<1> DEFINE v == Release(w, c)
<1>1. PathInv(v) /\ ~Pathed(v, c)
  BY ReleaseKeeps
<1>2. w' = Put(v, c, Gone)
  BY DEF Die
<1>3. IsCreature(Gone) /\ Gone.slot = NoSlot
  BY DEF Gone, IsCreature
<1> HIDE DEF v
<1>4. IsPut(w', v, c, Gone)
  BY <1>1, <1>2, <1>3, PutShape DEF PathInv
<1>5. \A d \in Creatures : w'.npc[d].slot = v.npc[d].slot
  BY <1>1, <1>3, <1>4 DEF IsPut, Pathed
<1>6. Shape(w') /\ SlotsSound(w')
  BY <1>1, <1>4, <1>5 DEF IsPut, PathInv, SlotsSound, Pathed
<1>7. AbsentHaveNone(w')
  BY <1>1, <1>3, <1>4, <1>5 DEF IsPut, PathInv, AbsentHaveNone, Pathed
<1> QED
  BY <1>6, <1>7 DEF PathInv

\* One that vanishes takes its slot out of both mask and use.
LEMMA VanishPaths ==
  ASSUME PathInv(w), NEW c \in Creatures, Vanish(c)
  PROVE  PathInv(w')
<1> DEFINE v == Release(w, c)
           p == Put(v, c, Gone)
<1>1. PathInv(v) /\ ~Pathed(v, c)
  BY ReleaseKeeps
<1>2. w' = [p EXCEPT !.free = w.free, !.leaked = w.leaked \cup ({w.npc[c].slot} \ {NoSlot})]
  BY DEF Vanish
<1>3. IsCreature(Gone) /\ Gone.slot = NoSlot
  BY DEF Gone, IsCreature
<1>4. /\ \A d \in Creatures \ {c} : v.npc[d] = w.npc[d]
      /\ Shape(w) /\ SlotsSound(w) /\ AbsentHaveNone(w)
  <2>1. Shape(w) /\ SlotsSound(w) /\ AbsentHaveNone(w)
    BY DEF PathInv
  <2>2. \A d \in Creatures \ {c} : v.npc[d] = w.npc[d]
    BY <2>1, ReleaseOthers
  <2> QED
    BY <2>1, <2>2
<1> HIDE DEF v
<1>5. IsPut(p, v, c, Gone)
  BY <1>1, <1>3, PutShape DEF PathInv
<1> HIDE DEF p
<1>6. w' = [npc |-> p.npc, free |-> w.free, cache |-> p.cache,
            leaked |-> w.leaked \cup ({w.npc[c].slot} \ {NoSlot}), stale |-> p.stale]
  BY <1>2, <1>5 DEF IsPut, Shape
<1>7. /\ w'.npc = p.npc /\ w'.free = w.free
      /\ w'.leaked = w.leaked \cup ({w.npc[c].slot} \ {NoSlot})
  BY <1>6
<1>8. Shape(w')
  BY <1>5, <1>6, <1>7 DEF IsPut, Shape
<1>9. /\ w'.npc[c] = Gone
      /\ \A d \in Creatures \ {c} : w'.npc[d] = w.npc[d]
  BY <1>4, <1>5, <1>7 DEF IsPut
<1>10. SlotsSound(w')
  BY <1>3, <1>4, <1>7, <1>9 DEF SlotsSound, Pathed
<1>11. AbsentHaveNone(w')
  BY <1>3, <1>4, <1>9 DEF AbsentHaveNone, Pathed
<1> QED
  BY <1>8, <1>10, <1>11 DEF PathInv

\* A new creature begins in the record of one that is gone, without a slot.
LEMMA SpawnPaths ==
  ASSUME PathInv(w), NEW c \in Creatures, Spawn(c)
  PROVE  PathInv(w')
<1>1. PICK t, g : w' = Put(w, c, [Gone EXCEPT !.alive = TRUE, !.at = t, !.target = g])
  BY DEF Spawn
<1> DEFINE n == [Gone EXCEPT !.alive = TRUE, !.at = t, !.target = g]
           k == [Gone EXCEPT !.alive = TRUE]
           m == [k EXCEPT !.at = t]
           yes == TRUE
<1>2. IsCreature(Gone) /\ Gone.slot = NoSlot
  BY DEF Gone, IsCreature
<1>3. n = [m EXCEPT !.target = g]
  OBVIOUS
<1>4. IsCreature(k) /\ k.slot = NoSlot /\ k.alive
  <2> HIDE DEF yes
  <2>1. /\ IsCreature([Gone EXCEPT !.alive = yes])
        /\ [Gone EXCEPT !.alive = yes].slot = NoSlot
        /\ [Gone EXCEPT !.alive = yes].alive = yes
    BY <1>2, WithAlive
  <2> QED
    BY <2>1 DEF yes
<1> HIDE DEF k
<1>5. Alike(m, k)
  BY <1>4, WithAt
<1> HIDE DEF m
<1>6. Alike([m EXCEPT !.target = g], m)
  BY <1>5, WithTarget DEF Alike, Holds
<1>7. IsCreature(n) /\ n.slot = NoSlot /\ n.alive
  BY <1>3, <1>4, <1>5, <1>6 DEF Alike, Holds
<1> HIDE DEF n
<1>8. w.npc[c].slot = NoSlot
  BY DEF Spawn, PathInv, AbsentHaveNone, Pathed
<1>9. PathInv(Put(w, c, n))
  BY <1>7, <1>8, PutKeepsInv
<1> QED
  BY <1>1, <1>9 DEF n

\* The slots of a level that begins are all free.
LEMMA ResetPaths ==
  ASSUME SlotsHypothesis, PathInv(w), Reset
  PROVE  PathInv(w')
<1>1. Shape(w)
  BY DEF PathInv
<1>2. w' = [npc |-> [c \in Creatures |-> [w.npc[c] EXCEPT !.slot = NoSlot]], free |-> Slots,
            cache |-> w.cache, leaked |-> {}, stale |-> {}]
  BY <1>1 DEF Reset, Shape
<1>3. /\ w'.npc = [c \in Creatures |-> [w.npc[c] EXCEPT !.slot = NoSlot]]
      /\ w'.free = Slots /\ w'.leaked = {}
  BY <1>2
<1>4. \A c \in Creatures : IsCreature(w'.npc[c]) /\ w'.npc[c].slot = NoSlot
  <2> SUFFICES ASSUME NEW c \in Creatures
               PROVE  IsCreature(w'.npc[c]) /\ w'.npc[c].slot = NoSlot
    OBVIOUS
  <2>1. w'.npc[c] = [w.npc[c] EXCEPT !.slot = NoSlot]
    BY <1>3
  <2>2. Holds([w.npc[c] EXCEPT !.slot = NoSlot], w.npc[c], NoSlot)
    BY <1>1, WithSlot DEF Shape
  <2> QED
    BY <2>1, <2>2 DEF Holds
<1>5. Shape(w')
  BY <1>2, <1>3, <1>4 DEF Shape
<1>6. SlotsSound(w') /\ AbsentHaveNone(w')
  BY <1>3, <1>4 DEF SlotsSound, AbsentHaveNone, Pathed
<1> QED
  BY <1>5, <1>6 DEF PathInv

LEMMA NextPaths ==
  ASSUME SlotsHypothesis, PathInv(w), [WalkNext]_walkVars
  PROVE  PathInv(w')
<1>1. ASSUME NEW c \in Creatures, WalkTick(c) PROVE PathInv(w')
  BY <1>1, WalkTickPaths
<1>2. ASSUME NEW c \in Creatures, OtherTick(c) PROVE PathInv(w')
  BY <1>2, OtherTickPaths
<1>3. ASSUME NEW c \in Creatures, Die(c) PROVE PathInv(w')
  BY <1>3, DiePaths
<1>4. ASSUME NEW c \in Creatures, Vanish(c) PROVE PathInv(w')
  BY <1>4, VanishPaths
<1>5. ASSUME NEW c \in Creatures, Spawn(c) PROVE PathInv(w')
  BY <1>5, SpawnPaths
<1>6. CASE Reset
  BY <1>6, ResetPaths
<1>7. CASE UNCHANGED walkVars
  BY <1>7 DEF walkVars
<1> QED
  BY <1>1, <1>2, <1>3, <1>4, <1>5, <1>6, <1>7 DEF WalkNext

----------------------------------------------------------------------------
(* The theorems.                                                           *)

\* The state stays what the code keeps: records of creatures, the mask, and the slots
\* that are free, lost, or one creature's.
THEOREM PathInvariant ==
  ASSUME SlotsHypothesis
  PROVE  WalkSpec => []PathInv(w)
<1>1. WalkInit => PathInv(w)
  BY InitPaths
<1>2. PathInv(w) /\ [WalkNext]_walkVars => PathInv(w)'
  BY NextPaths
<1> QED
  BY <1>1, <1>2, PTL DEF WalkSpec

\* There are as many slots in use as creatures that use one: nobody shares.
LEMMA NobodyShares ==
  ASSUME SlotsHypothesis, PathInv(w)
  PROVE  SlotsAccountedFor
<1> DEFINE owned == {w.npc[c].slot : c \in Owners}
           f == [c \in Owners |-> w.npc[c].slot]
<1>1. IsFiniteSet(Owners)
  <2>1. Owners \subseteq Creatures
    BY DEF Owners
  <2> QED
    BY <2>1, FS_Subset DEF SlotsHypothesis
<1>2. f \in Bijection(Owners, owned)
  <2>1. \A c, d \in Owners : f[c] = f[d] => c = d
    BY DEF PathInv, SlotsSound, Owners
  <2>2. f \in [Owners -> owned] /\ \A s \in owned : \E c \in Owners : f[c] = s
    OBVIOUS
  <2> QED
    BY <2>1, <2>2 DEF Bijection, Injection, Surjection, IsInjective
<1>3. Cardinality(owned) = Cardinality(Owners)
  BY <1>1, <1>2, FS_Bijection DEF ExistsBijection
<1>4. Slots \ w.free = owned \cup w.leaked
  <2>1. ASSUME NEW s \in Slots, s \notin w.free PROVE s \in owned \cup w.leaked
    BY <2>1 DEF PathInv, SlotsSound, Owners, Pathed, SlotsHypothesis
  <2>2. ASSUME NEW s \in owned \cup w.leaked PROVE s \in Slots /\ s \notin w.free
    BY <2>2 DEF PathInv, SlotsSound, Owners
  <2> QED
    BY <2>1, <2>2
<1>5. w.leaked \cap owned = {}
  BY DEF PathInv, SlotsSound, Owners
<1> QED
  BY <1>3, <1>4, <1>5 DEF SlotsAccountedFor

\* However creatures take, give up and follow paths, are hurt, die, vanish and come, no
\* two of them use one path slot, and a slot is lost only with a creature that was freed
\* without a tick of its own (the mask DAT_000853b8 and npc_walk_toward_tile).
THEOREM SlotsAreAccountedFor ==
  ASSUME SlotsHypothesis
  PROVE  WalkSpec => []SlotsAccountedFor
<1>1. PathInv(w) => SlotsAccountedFor
  BY NobodyShares
<1> QED
  BY <1>1, PathInvariant, PTL

----------------------------------------------------------------------------
(* Where the paths lead.                                                   *)

RouteHypothesis ==
  /\ SlotsHypothesis
  /\ IsLevel(Level)
  /\ \A c \in Creatures : Room[c] \subseteq Tiles /\ Goals[c] \subseteq Tiles

\* A path to g, being begun or at its end.
OnWay(r, g) ==
  \/ r = [at |-> r.at, step |-> 0, path |-> <<g>>] /\ Open(Level, r.at, g)
  \/ r = [at |-> g, step |-> 1, path |-> <<g>>]

\* The path of a creature leads somewhere, and to its target unless that was set in a
\* tick that did not walk.
Bound(v, c) == Pathed(v, c) => \E g : OnWay(v.cache[v.npc[c].slot], g)
Leads(v, c) == Pathed(v, c) => \E g : /\ OnWay(v.cache[v.npc[c].slot], g)
                                      /\ c \notin v.stale => g = v.npc[c].target
Placed(v, c) == v.npc[c].alive => v.npc[c].at \in Tiles
Cached(v) == v.cache = [s \in Slots |-> v.cache[s]]
RouteInv(v) == PathInv(v) /\ Cached(v) /\ \A c \in Creatures : Leads(v, c) /\ Placed(v, c)

\* In the middle of a creature's tick, all but its own path.
Moving(v, c) ==
  /\ Fit(v, c) /\ Cached(v) /\ v.npc[c].at \in Tiles
  /\ \A d \in Creatures \ {c} : Leads(v, d) /\ Placed(v, d)
Stays(u, v, c) == u.npc[c].at = v.npc[c].at /\ u.npc[c].target = v.npc[c].target

\* The row that a search keeps is 0 to begin with, and no search changes it.
LEMMA WaysLeadNextDoor ==
  ASSUME RouteHypothesis, NEW from \in Tiles, NEW goal \in Tiles
  PROVE  Ways[from][goal] = IF Open(Level, from, goal) THEN <<goal>> ELSE <<>>
<1>1. Level.tiles = Tiles
  BY DEF Level
<1>2. FindPath(Level, 0, from, goal) =
        [path |-> IF Open(Level, from, goal) THEN <<goal>> ELSE <<>>, row |-> 0]
  <2>1. from \in Level.tiles
    BY <1>1
  <2> QED
    BY <2>1, LevelsAssumption, SearchAnswers DEF RouteHypothesis
<1>3. FindPath(Level, 0, from, goal).path = IF Open(Level, from, goal) THEN <<goal>> ELSE <<>>
  BY <1>2
<1> QED
  BY <1>3 DEF Ways

\* Whoever has a path has a slot of his own.
LEMMA SlotsApart ==
  ASSUME NEW v, PathInv(v), NEW c \in Creatures, Pathed(v, c)
  PROVE  /\ v.npc[c].slot \in Slots /\ v.npc[c].slot \notin v.free
         /\ \A d \in Creatures \ {c} : v.npc[d].slot # v.npc[c].slot
BY DEF PathInv, SlotsSound

\* A record put in for a creature, with its slot.
LEMMA PutMoving ==
  ASSUME NEW v, NEW c \in Creatures, Moving(v, c), NEW n, Alike(n, v.npc[c]), n.at \in Tiles
  PROVE  LET u == Put(v, c, n)
         IN  /\ Moving(u, c) /\ u.npc[c] = n /\ (Pathed(u, c) <=> Pathed(v, c))
             /\ u.free = v.free
             /\ Bound(v, c) => Bound(u, c)
             /\ Leads(v, c) /\ n.target = v.npc[c].target => Leads(u, c)
<1> DEFINE u == Put(v, c, n)
<1>1. Fit(u, c) /\ u.npc[c] = n /\ (Pathed(u, c) <=> Pathed(v, c)) /\ u.free = v.free
  BY PutFit DEF Moving
<1>2. IsPut(u, v, c, n)
  <2>1. Shape(v) /\ IsCreature(n)
    BY DEF Moving, Fit, PathInv, Alike, Holds
  <2> QED
    BY <2>1, PutShape
<1> HIDE DEF u
<1>3. Cached(u) /\ u.npc[c].at \in Tiles
  BY <1>1, <1>2 DEF IsPut, Moving, Cached
<1>4. ASSUME NEW d \in Creatures \ {c} PROVE Leads(u, d) /\ Placed(u, d)
  <2>1. /\ u.npc[d] = v.npc[d] /\ u.cache = v.cache /\ u.stale = v.stale
        /\ Leads(v, d) /\ Placed(v, d)
    BY <1>2 DEF IsPut, Moving
  <2> QED
    BY <2>1 DEF Leads, Placed, Pathed
<1>5. Moving(u, c)
  BY <1>1, <1>3, <1>4 DEF Moving
<1>6. /\ u.npc[c].slot = v.npc[c].slot /\ u.cache = v.cache /\ u.stale = v.stale
  BY <1>1, <1>2 DEF IsPut, Alike, Holds
<1>7. Bound(v, c) => Bound(u, c)
  BY <1>1, <1>6 DEF Bound
<1>8. Leads(v, c) /\ n.target = v.npc[c].target => Leads(u, c)
  BY <1>1, <1>6 DEF Leads
<1> QED
  BY <1>1, <1>5, <1>7, <1>8 DEF u

\* The fields that a change of one field leaves alone.
Same(m, n) == m.at = n.at /\ m.target = n.target

LEMMA OneField ==
  ASSUME NEW n, IsCreature(n), NEW x
  PROVE  /\ Same([n EXCEPT !.slot = x], n) /\ Same([n EXCEPT !.lost = x], n)
         /\ Same([n EXCEPT !.straight = x], n) /\ Same([n EXCEPT !.acting = x], n)
         /\ [n EXCEPT !.at = x].at = x /\ [n EXCEPT !.at = x].target = n.target
         /\ [n EXCEPT !.target = x].target = x /\ [n EXCEPT !.target = x].at = n.at
<1>1. Same([n EXCEPT !.slot = x], n) /\ Same([n EXCEPT !.lost = x], n)
  BY DEF IsCreature, Same
<1>2. Same([n EXCEPT !.straight = x], n) /\ Same([n EXCEPT !.acting = x], n)
  BY DEF IsCreature, Same
<1>3. [n EXCEPT !.at = x].at = x /\ [n EXCEPT !.at = x].target = n.target
  BY DEF IsCreature
<1>4. [n EXCEPT !.target = x].target = x /\ [n EXCEPT !.target = x].at = n.at
  BY DEF IsCreature
<1> QED
  BY <1>1, <1>2, <1>3, <1>4

LEMMA TwoFields ==
  ASSUME NEW n, IsCreature(n), NEW x, NEW y
  PROVE  /\ Same([n EXCEPT !.straight = x, !.lost = y], n)
         /\ Same([n EXCEPT !.lost = x, !.straight = y], n)
         /\ Same([n EXCEPT !.slot = x, !.lost = y], n)
<1>1. Same([n EXCEPT !.straight = x, !.lost = y], n)
  BY DEF IsCreature, Same
<1>2. Same([n EXCEPT !.lost = x, !.straight = y], n)
  BY DEF IsCreature, Same
<1>3. Same([n EXCEPT !.slot = x, !.lost = y], n)
  BY DEF IsCreature, Same
<1> QED
  BY <1>1, <1>2, <1>3

LEMMA TargetAndLost ==
  ASSUME NEW n, IsCreature(n), NEW x, NEW y
  PROVE  /\ [n EXCEPT !.target = x, !.lost = y].target = x
         /\ [n EXCEPT !.target = x, !.lost = y].at = n.at
BY DEF IsCreature

\* A path given up.
LEMMA ReleaseMoving ==
  ASSUME NEW v, NEW c \in Creatures, Moving(v, c)
  PROVE  LET u == Release(v, c)
         IN  Moving(u, c) /\ Leads(u, c) /\ ~Pathed(u, c) /\ Stays(u, v, c)
<1> DEFINE u == Release(v, c)
           n == [v.npc[c] EXCEPT !.slot = NoSlot]
           p == Put(v, c, n)
           slot == v.npc[c].slot
           cleared == [v.cache EXCEPT ![slot] = NoPath]
<1>1. Fit(u, c) /\ ~Pathed(u, c)
  BY ReleaseFit DEF Moving
<1>2. CASE ~Pathed(v, c)
  BY <1>2 DEF Release, Leads, Stays
<1>3. CASE Pathed(v, c)
  <2>1. /\ Shape(v) /\ PathInv(v) /\ IsCreature(v.npc[c])
    BY DEF Moving, Fit, PathInv, Shape
  <2>2. IsCreature(n) /\ Same(n, v.npc[c])
    BY <2>1, WithSlot, OneField DEF Holds
  <2> HIDE DEF n
  <2>3. IsPut(p, v, c, n)
    BY <2>1, <2>2, PutShape
  <2>4. u = [p EXCEPT !.free = v.free \cup {slot}, !.stale = v.stale \ {c}, !.cache = cleared]
    BY <1>3 DEF Release, n
  <2> HIDE DEF p
  <2>5. u = [npc |-> p.npc, free |-> v.free \cup {slot}, cache |-> cleared,
             leaked |-> p.leaked, stale |-> v.stale \ {c}]
    <3> HIDE DEF cleared
    <3> QED
      BY <2>3, <2>4 DEF Shape, IsPut
  <2>6. slot \in Slots /\ \A d \in Creatures \ {c} : v.npc[d].slot # slot
    BY <1>3, <2>1, SlotsApart
  <2>7. cleared = [s \in Slots |-> IF s = slot THEN NoPath ELSE v.cache[s]]
    BY <2>6 DEF Moving, Cached
  <2> HIDE DEF u, cleared
  <2>8. u.npc = p.npc /\ u.cache = cleared /\ u.stale = v.stale \ {c}
    BY <2>5
  <2>9. Cached(u)
    BY <2>7, <2>8 DEF Cached
  <2>10. u.npc[c].at \in Tiles /\ Stays(u, v, c)
    BY <2>2, <2>3, <2>8 DEF IsPut, Same, Stays, Moving
  <2>11. ASSUME NEW d \in Creatures \ {c} PROVE Leads(u, d) /\ Placed(u, d)
    <3>1. u.npc[d] = v.npc[d] /\ Leads(v, d) /\ Placed(v, d)
      BY <2>3, <2>8 DEF IsPut, Moving
    <3>2. d \notin u.stale => d \notin v.stale
      BY <2>8
    <3>3. Pathed(v, d) => u.cache[v.npc[d].slot] = v.cache[v.npc[d].slot]
      BY <2>1, <2>6, <2>7, <2>8, SlotsApart
    <3> QED
      BY <3>1, <3>2, <3>3 DEF Leads, Placed, Pathed
  <2>12. Moving(u, c)
    BY <1>1, <2>9, <2>10, <2>11 DEF Moving, u
  <2>13. Leads(u, c)
    BY <1>1 DEF Leads, u
  <2> QED
    BY <1>1, <2>10, <2>12, <2>13 DEF u
<1> QED
  BY <1>2, <1>3

\* A target set.
LEMMA AimMoving ==
  ASSUME NEW v, NEW c \in Creatures, Moving(v, c), NEW goal
  PROVE  LET u == Aim(v, c, goal)
         IN  /\ Moving(u, c) /\ u.npc[c].target = goal /\ u.npc[c].at = v.npc[c].at
             /\ Bound(v, c) => Bound(u, c)
             /\ Leads(v, c) /\ goal = v.npc[c].target => Leads(u, c)
<1> DEFINE n == v.npc[c]
           same == n.lost /\ goal = n.target
           m == [n EXCEPT !.target = goal, !.lost = same]
<1>1. IsCreature(n) /\ n.at \in Tiles
  BY FitShape DEF Moving, Fit
<1>2. Aim(v, c, goal) = Put(v, c, m)
  BY DEF Aim
<1> HIDE DEF same, n
<1>3. Alike(m, n) /\ m.target = goal /\ m.at = n.at
  <2>1. Alike(m, n)
    BY <1>1, WithTargetLost
  <2>2. m.target = goal /\ m.at = n.at
    BY <1>1, TargetAndLost
  <2> QED
    BY <2>1, <2>2
<1> HIDE DEF m
<1>4. m.at \in Tiles
  BY <1>1, <1>3
<1>5. LET u == Put(v, c, m)
      IN  /\ Moving(u, c) /\ u.npc[c] = m
          /\ Bound(v, c) => Bound(u, c)
          /\ Leads(v, c) /\ m.target = v.npc[c].target => Leads(u, c)
  BY <1>3, <1>4, PutMoving DEF n
<1> QED
  BY <1>2, <1>3, <1>5 DEF n


LEMMA StepAndTile ==
  ASSUME NEW r, r = [at |-> r.at, step |-> r.step, path |-> r.path], NEW k, NEW t
  PROVE  [r EXCEPT !.step = k, !.at = t] = [at |-> t, step |-> k, path |-> r.path]
<1> DEFINE q == [r EXCEPT !.step = k]
<1>1. q = [at |-> r.at, step |-> k, path |-> r.path]
  OBVIOUS
<1>2. [r EXCEPT !.step = k, !.at = t] = [q EXCEPT !.at = t]
  OBVIOUS
<1> HIDE DEF q
<1>3. q.path = r.path
  BY <1>1
<1>4. [q EXCEPT !.at = t] = [at |-> t, step |-> k, path |-> q.path]
  BY <1>1
<1> QED
  BY <1>2, <1>3, <1>4

\* The next tile of the path.
LEMMA AdvanceMoving ==
  ASSUME NEW v, NEW c \in Creatures, Moving(v, c), Pathed(v, c), Leads(v, c)
  PROVE  LET u == Advance(v, c) IN Moving(u, c) /\ Leads(u, c) /\ Stays(u, v, c)
<1> DEFINE slot == v.npc[c].slot
           r == v.cache[slot]
           next == [r EXCEPT !.step = r.step + 1, !.at = r.path[r.step + 1]]
           moved == [v.cache EXCEPT ![slot] = next]
           u == Advance(v, c)
<1>1. PICK g : OnWay(r, g) /\ (c \notin v.stale => g = v.npc[c].target)
  BY DEF Leads
<1>2. CASE r = [at |-> g, step |-> 1, path |-> <<g>>]
  <2>1. r.step = Len(r.path)
    BY <1>2
  <2>2. u = v
    BY <2>1 DEF Advance
  <2> QED
    BY <2>2 DEF Stays
<1>3. CASE r = [at |-> r.at, step |-> 0, path |-> <<g>>] /\ Open(Level, r.at, g)
  <2>1. r.step = 0 /\ r.path = <<g>> /\ Len(r.path) = 1 /\ r.path[1] = g
    <3> HIDE DEF r
    <3>1. r.step = 0 /\ r.path = <<g>>
      BY <1>3
    <3> QED
      BY <3>1
  <2>2. next = [at |-> g, step |-> 1, path |-> <<g>>]
    <3> DEFINE k == r.step + 1
               t == r.path[k]
    <3>1. k = 1 /\ t = g
      BY <2>1
    <3> HIDE DEF k, t
    <3>2. [r EXCEPT !.step = k, !.at = t] = [at |-> t, step |-> k, path |-> r.path]
      BY <1>3, StepAndTile
    <3>3. next = [r EXCEPT !.step = k, !.at = t]
      BY DEF k, t
    <3> QED
      BY <2>1, <3>1, <3>2, <3>3
  <2>3. u = [v EXCEPT !.cache = moved]
    BY <2>1 DEF Advance
  <2>4. /\ PathInv(v) /\ Shape(v) /\ v.cache = [s \in Slots |-> v.cache[s]]
    BY DEF Moving, Fit, PathInv, Cached
  <2>5. slot \in Slots /\ \A d \in Creatures \ {c} : v.npc[d].slot # slot
    BY <2>4, SlotsApart
  <2> HIDE DEF next
  <2>6. moved = [s \in Slots |-> IF s = slot THEN next ELSE v.cache[s]]
    BY <2>4
  <2>7. Fit(u, c)
    BY AdvanceFit DEF Moving
  <2> HIDE DEF moved, u
  <2>8. /\ u.npc = v.npc /\ u.cache = moved /\ u.stale = v.stale
    BY <2>3, <2>4 DEF Shape
  <2>9. Cached(u)
    BY <2>6, <2>8 DEF Cached
  <2>10. ASSUME NEW d \in Creatures \ {c} PROVE Leads(u, d) /\ Placed(u, d)
    <3>1. Leads(v, d) /\ Placed(v, d)
      BY DEF Moving
    <3>2. Pathed(v, d) => u.cache[v.npc[d].slot] = v.cache[v.npc[d].slot]
      BY <2>4, <2>5, <2>6, <2>8, SlotsApart
    <3> QED
      BY <2>8, <3>1, <3>2 DEF Leads, Placed, Pathed
  <2>11. Moving(u, c) /\ Stays(u, v, c)
    BY <2>7, <2>8, <2>9, <2>10 DEF Moving, Stays
  <2>12. OnWay(u.cache[u.npc[c].slot], g)
    BY <2>2, <2>5, <2>6, <2>8 DEF OnWay
  <2>13. Leads(u, c)
    BY <1>1, <2>8, <2>12 DEF Leads
  <2> QED
    BY <2>11, <2>13 DEF u
<1> QED
  BY <1>1, <1>2, <1>3 DEF OnWay

\* A path followed, given up at its end.
LEMMA FollowMoving ==
  ASSUME NEW v, NEW c \in Creatures, Moving(v, c), Pathed(v, c), Leads(v, c), NEW leans
  PROVE  LET u == Follow(v, c, leans) IN Moving(u, c) /\ Leads(u, c) /\ Stays(u, v, c)
<1>1. \/ Follow(v, c, leans) = v
      \/ Follow(v, c, leans) = Release(v, c)
      \/ Follow(v, c, leans) = Advance(v, c)
  BY DEF Follow
<1>2. Stays(v, v, c)
  BY DEF Stays
<1> QED
  BY <1>1, <1>2, ReleaseMoving, AdvanceMoving

\* Running into something.
LEMMA BumpMoving ==
  ASSUME NEW v, NEW c \in Creatures, Moving(v, c), Leads(v, c), NEW hit
  PROVE  LET u == Bump(v, c, hit) IN Moving(u, c) /\ Leads(u, c) /\ Stays(u, v, c)
<1> DEFINE r == Release(v, c)
           no == FALSE
           stopped == hit = "stopped"
           m == [r.npc[c] EXCEPT !.straight = no, !.lost = stopped]
<1>1. Bump(v, c, hit) = v \/ Bump(v, c, hit) = Put(r, c, m)
  BY DEF Bump
<1>2. Moving(r, c) /\ Leads(r, c) /\ Stays(r, v, c)
  BY ReleaseMoving
<1> HIDE DEF r, no, stopped
<1>3. IsCreature(r.npc[c]) /\ r.npc[c].at \in Tiles
  BY <1>2, FitShape DEF Moving, Fit
<1>4. Alike(m, r.npc[c]) /\ Same(m, r.npc[c])
  <2>1. Alike(m, r.npc[c])
    BY <1>3, WithStraightLost
  <2>2. Same(m, r.npc[c])
    BY <1>3, TwoFields
  <2> QED
    BY <2>1, <2>2
<1> HIDE DEF m
<1>5. m.at \in Tiles /\ m.target = r.npc[c].target
  BY <1>3, <1>4 DEF Same
<1>6. LET u == Put(r, c, m) IN Moving(u, c) /\ Leads(u, c) /\ u.npc[c] = m
  BY <1>2, <1>4, <1>5, PutMoving
<1>7. Stays(Put(r, c, m), v, c)
  BY <1>2, <1>4, <1>6 DEF Stays, Same
<1>8. Stays(v, v, c)
  BY DEF Stays
<1> QED
  BY <1>1, <1>6, <1>7, <1>8

\* A path taken from the mask's lowest slot.
LEMMA TakeMoving ==
  ASSUME RouteHypothesis, NEW v, NEW c \in Creatures, Moving(v, c), ~Pathed(v, c), v.free # {},
         NEW path, path = <<v.npc[c].target>>, Open(Level, v.npc[c].at, v.npc[c].target)
  PROVE  LET u == Take(v, c, path)
         IN  Moving(u, c) /\ Leads(u, c) /\ Pathed(u, c) /\ Stays(u, v, c)
<1> DEFINE slot == Min(v.free)
           no == FALSE
           n == [v.npc[c] EXCEPT !.slot = slot, !.lost = no]
           p == Put(v, c, n)
           r == [at |-> v.npc[c].at, step |-> 0, path |-> path]
           filled == [v.cache EXCEPT ![slot] = r]
           u == Take(v, c, path)
<1>1. /\ PathInv(v) /\ Shape(v) /\ IsCreature(v.npc[c]) /\ v.npc[c].alive
  BY FitShape DEF Moving, Fit
<1>2. /\ PathInv(u) /\ Pathed(u, c)
  BY <1>1, TakeKeeps DEF RouteHypothesis
<1>3. slot \in v.free /\ slot \in Slots
  <2>1. v.free \subseteq Slots /\ Slots \subseteq Nat
    BY <1>1 DEF PathInv, SlotsSound, RouteHypothesis, SlotsHypothesis
  <2> QED
    BY <2>1, LowestIsFree
<1>4. u = [p EXCEPT !.free = v.free \ {slot}, !.cache = filled]
  BY DEF Take, n, slot, no
<1> HIDE DEF slot, no
<1>5. Holds(n, v.npc[c], slot) /\ Same(n, v.npc[c])
  <2>1. Holds(n, v.npc[c], slot)
    BY <1>1, WithSlotLost
  <2>2. Same(n, v.npc[c])
    BY <1>1, TwoFields
  <2> QED
    BY <2>1, <2>2
<1> HIDE DEF n
<1>6. IsPut(p, v, c, n)
  BY <1>1, <1>5, PutShape DEF Holds
<1> HIDE DEF p
<1>7. filled = [s \in Slots |-> IF s = slot THEN r ELSE v.cache[s]]
  BY DEF Moving, Cached
<1> HIDE DEF filled, r
<1>8. /\ u.npc = p.npc /\ u.cache = filled /\ u.stale = v.stale
  BY <1>4, <1>6 DEF Shape, IsPut
<1> HIDE DEF u
<1>9. u.npc[c] = n /\ u.npc[c].slot = slot /\ u.npc[c].alive /\ Stays(u, v, c)
  BY <1>1, <1>5, <1>6, <1>8 DEF IsPut, Holds, Same, Stays
<1>10. Cached(u)
  BY <1>7, <1>8 DEF Cached
<1>11. ASSUME NEW d \in Creatures \ {c} PROVE Leads(u, d) /\ Placed(u, d)
  <2>1. u.npc[d] = v.npc[d] /\ Leads(v, d) /\ Placed(v, d)
    BY <1>6, <1>8 DEF IsPut, Moving
  <2>2. Pathed(v, d) => u.cache[v.npc[d].slot] = v.cache[v.npc[d].slot]
    BY <1>1, <1>3, <1>7, <1>8, SlotsApart
  <2> QED
    BY <1>8, <2>1, <2>2 DEF Leads, Placed, Pathed
<1>12. Moving(u, c)
  <2>1. u.npc[c].at \in Tiles
    BY <1>9 DEF Stays, Moving
  <2> QED
    BY <1>2, <1>9, <1>10, <1>11, <2>1 DEF Moving, Fit, u
<1>13. Leads(u, c)
  <2> DEFINE g == v.npc[c].target
  <2>1. u.cache[u.npc[c].slot] = r
    BY <1>3, <1>7, <1>8, <1>9
  <2>2. OnWay(r, g)
    BY DEF OnWay, r
  <2>3. g = u.npc[c].target
    BY <1>9 DEF Stays
  <2> QED
    BY <2>1, <2>2, <2>3 DEF Leads
<1> QED
  BY <1>2, <1>9, <1>12, <1>13 DEF u

\* The rest of npc_walk_toward_tile, for a creature without a path.
LEMMA ChooseMoving ==
  ASSUME RouteHypothesis, NEW v, NEW c \in Creatures, Moving(v, c), ~Pathed(v, c),
         NEW goal \in Tiles, v.npc[c].target = goal, NEW changed, NEW blocked, NEW ahead
  PROVE  LET u == Choose(v, c, goal, changed, blocked, ahead) IN Moving(u, c) /\ Leads(u, c)
<1> DEFINE n == v.npc[c]
           no == FALSE
           yes == TRUE
           again == ~ahead
           goes == [n EXCEPT !.acting = no]
           path == Ways[n.at][goal]
           tries == [n EXCEPT !.lost = again]
           straight == [goes EXCEPT !.straight = yes, !.lost = no]
           stuck == [n EXCEPT !.lost = yes, !.straight = no]
           w1 == Put(v, c, goes)
           w2 == Idle(Put(v, c, tries), c)
           w3 == Put(v, c, straight)
           w4 == Follow(Take(w1, c, path), c, FALSE)
           w5 == Idle(Put(v, c, stuck), c)
           u == Choose(v, c, goal, changed, blocked, ahead)
<1>1. u = w1 \/ u = w2 \/ u = w3 \/ (u = w4 /\ v.free # {} /\ path # <<>>) \/ u = w5
  BY DEF Choose
<1>2. IsCreature(n) /\ n.at \in Tiles
  BY FitShape DEF Moving, Fit
<1>3. path # <<>> => path = <<goal>> /\ Open(Level, n.at, goal)
  BY <1>2, WaysLeadNextDoor
<1>4. Leads(v, c)
  BY DEF Leads
<1> HIDE DEF u, no, yes, again, path
<1>5. Alike(goes, n) /\ Same(goes, n)
  <2> HIDE DEF n
  <2> QED
    BY <1>2, WithActing, OneField
<1>6. Alike(tries, n) /\ Same(tries, n)
  <2> HIDE DEF n
  <2> QED
    BY <1>2, WithLost, OneField
<1>7. Alike(stuck, n) /\ Same(stuck, n)
  <2> HIDE DEF n
  <2> QED
    BY <1>2, WithLostStraight, TwoFields
<1> HIDE DEF goes, tries, stuck
<1>8. Alike(straight, n) /\ Same(straight, n)
  <2>1. IsCreature(goes)
    BY <1>5 DEF Alike, Holds
  <2>2. Alike(straight, goes) /\ Same(straight, goes)
    BY <2>1, WithStraightLost, TwoFields
  <2> HIDE DEF straight
  <2> QED
    BY <1>5, <2>2 DEF Alike, Holds, Same
<1> HIDE DEF straight
<1>9. ASSUME NEW m, Alike(m, n), Same(m, n)
      PROVE  LET p == Put(v, c, m)
             IN  /\ Moving(p, c) /\ Leads(p, c) /\ ~Pathed(p, c) /\ Stays(p, v, c)
                 /\ p.free = v.free
  <2>1. m.at \in Tiles /\ m.target = n.target
    BY <1>2, <1>9 DEF Same
  <2>2. LET p == Put(v, c, m)
        IN  /\ Moving(p, c) /\ p.npc[c] = m /\ ~Pathed(p, c) /\ p.free = v.free
            /\ Leads(v, c) /\ m.target = v.npc[c].target => Leads(p, c)
    BY <1>9, <2>1, PutMoving
  <2> QED
    BY <1>4, <1>9, <2>1, <2>2 DEF Same, Stays
<1>10. /\ Moving(w1, c) /\ Leads(w1, c) /\ ~Pathed(w1, c) /\ Stays(w1, v, c) /\ w1.free = v.free
  BY <1>5, <1>9
<1>11. Moving(w3, c) /\ Leads(w3, c)
  BY <1>8, <1>9
<1>12. Moving(w2, c) /\ Leads(w2, c)
  BY <1>6, <1>9, ReleaseMoving DEF Idle
<1>13. Moving(w5, c) /\ Leads(w5, c)
  BY <1>7, <1>9, ReleaseMoving DEF Idle
<1> HIDE DEF w1
<1>14. ASSUME v.free # {}, path # <<>> PROVE Moving(w4, c) /\ Leads(w4, c)
  <2> DEFINE t == Take(w1, c, path)
  <2>1. path = <<w1.npc[c].target>> /\ Open(Level, w1.npc[c].at, w1.npc[c].target)
    BY <1>3, <1>10, <1>14 DEF Stays
  <2>2. Moving(t, c) /\ Leads(t, c) /\ Pathed(t, c)
    BY <1>10, <1>14, <2>1, TakeMoving
  <2> HIDE DEF t
  <2>3. Moving(Follow(t, c, FALSE), c) /\ Leads(Follow(t, c, FALSE), c)
    BY <2>2, FollowMoving
  <2> QED
    BY <2>3 DEF t
<1> HIDE DEF w2, w3, w4, w5
<1> QED
  BY <1>1, <1>10, <1>11, <1>12, <1>13, <1>14 DEF u

\* npc_walk_toward_tile, after what the tick has aimed at: a path that does not lead to
\* the target is given up.
LEMMA WalkMoving ==
  ASSUME RouteHypothesis, NEW v, NEW c \in Creatures, Moving(v, c), NEW goal \in Tiles,
         NEW aimed \in BOOLEAN, aimed \/ Leads(v, c), NEW homing, NEW hit, NEW ahead
  PROVE  LET u == Walk(v, c, goal, aimed, homing, hit, ahead) IN Moving(u, c) /\ Leads(u, c)
<1> DEFINE changed == aimed \/ goal # v.npc[c].target
           atGoal == goal = v.npc[c].at
           there == IF changed \/ atGoal THEN Release(Aim(v, c, goal), c) ELSE v
           free == Bump(there, c, hit)
           no == FALSE
           blocked == hit # "nothing" /\ ~there.npc[c].lost
           w1 == Advance(there, c)
           m2 == [there.npc[c] EXCEPT !.acting = no]
           w2 == Put(there, c, m2)
           m3 == [free.npc[c] EXCEPT !.acting = no]
           p3 == Put(free, c, m3)
           w3 == Follow(p3, c, ahead)
           w4 == Choose(free, c, goal, changed, blocked, ahead)
           u == Walk(v, c, goal, aimed, homing, hit, ahead)
<1>1. \/ u = there \/ u = w2
      \/ Pathed(there, c) /\ u = w1
      \/ Pathed(free, c) /\ u = w3
      \/ ~Pathed(free, c) /\ u = w4
  BY DEF Walk
<1>2. Moving(there, c) /\ Leads(there, c) /\ there.npc[c].target = goal
  <2>1. CASE changed \/ atGoal
    <3> DEFINE t == Aim(v, c, goal)
    <3>1. Moving(t, c) /\ t.npc[c].target = goal
      BY AimMoving
    <3>2. there = Release(t, c)
      BY <2>1
    <3> HIDE DEF t, there
    <3>3. LET r == Release(t, c) IN Moving(r, c) /\ Leads(r, c) /\ Stays(r, t, c)
      BY <3>1, ReleaseMoving
    <3> QED
      BY <3>1, <3>2, <3>3 DEF Stays
  <2>2. CASE ~(changed \/ atGoal)
    BY <2>2
  <2> QED
    BY <2>1, <2>2
<1> HIDE DEF u, there, no, blocked, changed
<1>3. Moving(free, c) /\ Leads(free, c) /\ free.npc[c].target = goal
  BY <1>2, BumpMoving DEF Stays
<1> HIDE DEF free
<1>4. Pathed(there, c) => Moving(w1, c) /\ Leads(w1, c)
  BY <1>2, AdvanceMoving
<1>5. /\ Alike(m2, there.npc[c]) /\ Same(m2, there.npc[c])
      /\ Alike(m3, free.npc[c]) /\ Same(m3, free.npc[c])
  <2>1. IsCreature(there.npc[c]) /\ IsCreature(free.npc[c])
    BY <1>2, <1>3, FitShape DEF Moving, Fit
  <2> QED
    BY <2>1, WithActing, OneField
<1> HIDE DEF m2, m3
<1>6. /\ m2.at \in Tiles /\ m2.target = there.npc[c].target
      /\ m3.at \in Tiles /\ m3.target = free.npc[c].target
  BY <1>2, <1>3, <1>5 DEF Same, Moving
<1>7. Moving(w2, c) /\ Leads(w2, c)
  BY <1>2, <1>5, <1>6, PutMoving
<1>8. Moving(p3, c) /\ Leads(p3, c) /\ (Pathed(p3, c) <=> Pathed(free, c))
  BY <1>3, <1>5, <1>6, PutMoving
<1> HIDE DEF p3
<1>9. Pathed(free, c) => Moving(w3, c) /\ Leads(w3, c)
  BY <1>8, FollowMoving
<1>10. ~Pathed(free, c) => Moving(w4, c) /\ Leads(w4, c)
  BY <1>3, ChooseMoving
<1> HIDE DEF w1, w2, w3, w4
<1> QED
  BY <1>1, <1>2, <1>4, <1>7, <1>9, <1>10 DEF u

\* The first half of a tick.
LEMMA BeginMoving ==
  ASSUME NEW c \in Creatures, Moving(w, c), Leads(w, c), NEW to \in Tiles
  PROVE  LET u == Begin(c, to)
         IN  Moving(u, c) /\ Leads(u, c) /\ u.npc[c].target = w.npc[c].target
<1> DEFINE v == IF w.npc[c].acting THEN Release(w, c) ELSE w
           m == [v.npc[c] EXCEPT !.at = to]
<1>1. Moving(v, c) /\ Leads(v, c) /\ Stays(v, w, c)
  <2>1. Stays(w, w, c)
    BY DEF Stays
  <2> QED
    BY <2>1, ReleaseMoving
<1>2. Begin(c, to) = Put(v, c, m)
  BY DEF Begin
<1> HIDE DEF v
<1>3. Alike(m, v.npc[c]) /\ m.at = to /\ m.target = v.npc[c].target
  <2>1. IsCreature(v.npc[c])
    BY <1>1, FitShape DEF Moving, Fit
  <2> QED
    BY <2>1, WithAt, OneField
<1> HIDE DEF m
<1>4. LET u == Put(v, c, m) IN Moving(u, c) /\ Leads(u, c) /\ u.npc[c] = m
  BY <1>1, <1>3, PutMoving
<1> QED
  BY <1>1, <1>2, <1>3, <1>4 DEF Stays

\* Passages lead to tiles.
LEMMA ReachIsOnTheMap ==
  ASSUME NEW c \in Creatures, w.npc[c].at \in Tiles
  PROVE  Reach(c) \subseteq Tiles
BY DEF Reach

\* A creature's tick, seen from the other side: what holds in its middle and at its end.
LEMMA MovingIsRoute ==
  ASSUME NEW v, NEW c \in Creatures
  PROVE  /\ RouteInv(v) /\ v.npc[c].alive => Moving(v, c) /\ Leads(v, c)
         /\ Moving(v, c) /\ Leads(v, c) => RouteInv(v)
BY DEF RouteInv, Moving, Fit, Placed

LEMMA WalkTickRoute ==
  ASSUME RouteHypothesis, RouteInv(w), NEW c \in Creatures, WalkTick(c)
  PROVE  RouteInv(w')
<1>1. Moving(w, c) /\ Leads(w, c)
  BY MovingIsRoute DEF WalkTick
<1>2. PICK to \in Reach(c), aim, goal \in Goals[c], homing, ahead \in BOOLEAN,
        hit \in {"nothing", "still", "bumped", "stopped"} :
        /\ homing => goal = to
        /\ w' = Walk(Aim(Begin(c, to), c, aim), c, goal, aim # w.npc[c].target, homing, hit, ahead)
  BY Zenon DEF WalkTick
<1> DEFINE b == Begin(c, to)
           v == Aim(b, c, aim)
           aimed == aim # w.npc[c].target
<1>3. to \in Tiles /\ goal \in Tiles
  BY <1>1, <1>2, ReachIsOnTheMap DEF Moving, RouteHypothesis
<1>4. Moving(b, c) /\ Leads(b, c) /\ b.npc[c].target = w.npc[c].target
  BY <1>1, <1>3, BeginMoving
<1>5. w' = Walk(v, c, goal, aimed, homing, hit, ahead)
  BY <1>2
<1> HIDE DEF b
<1>6. Moving(v, c) /\ (aimed \/ Leads(v, c))
  BY <1>4, AimMoving
<1> HIDE DEF v
<1>7. aimed \in BOOLEAN
  OBVIOUS
<1> HIDE DEF aimed
<1>8. LET u == Walk(v, c, goal, aimed, homing, hit, ahead) IN Moving(u, c) /\ Leads(u, c)
  BY <1>3, <1>6, <1>7, WalkMoving
<1>9. RouteInv(Walk(v, c, goal, aimed, homing, hit, ahead))
  BY <1>8, MovingIsRoute
<1> QED
  BY <1>5, <1>9

\* A target set in a tick that does not walk is noted.
LEMMA StaleMoving ==
  ASSUME NEW v, NEW c \in Creatures, Moving(v, c), Bound(v, c)
  PROVE  LET u == [v EXCEPT !.stale = v.stale \cup {c}] IN Moving(u, c) /\ Leads(u, c)
<1> DEFINE more == v.stale \cup {c}
           u == [v EXCEPT !.stale = more]
<1>1. Shape(v)
  BY DEF Moving, Fit, PathInv
<1>2. u = [npc |-> v.npc, free |-> v.free, cache |-> v.cache, leaked |-> v.leaked, stale |-> more]
  <2> HIDE DEF more
  <2> QED
    BY <1>1 DEF Shape
<1>3. Fit(u, c)
  <2> HIDE DEF more
  <2> QED
    BY StaleFit DEF Moving
<1> HIDE DEF u
<1>4. u.npc = v.npc /\ u.cache = v.cache /\ u.stale = v.stale \cup {c}
  BY <1>2
<1>5. Moving(u, c)
  BY <1>3, <1>4 DEF Moving, Cached, Leads, Placed, Pathed
<1>6. Leads(u, c)
  BY <1>4 DEF Bound, Leads, Pathed
<1> QED
  BY <1>5, <1>6 DEF u

LEMMA OtherTickRoute ==
  ASSUME RouteHypothesis, RouteInv(w), NEW c \in Creatures, OtherTick(c)
  PROVE  RouteInv(w')
<1>1. Moving(w, c) /\ Leads(w, c)
  BY MovingIsRoute DEF OtherTick
<1>2. PICK to \in Reach(c), aim \in Goals[c], idles \in BOOLEAN, acts \in BOOLEAN :
        LET v == Aim(Begin(c, to), c, aim)
            noted == IF Pathed(v, c) /\ aim # w.npc[c].target
                     THEN [v EXCEPT !.stale = v.stale \cup {c}] ELSE v
            rests == IF idles THEN Idle(noted, c) ELSE noted
        IN  w' = Put(rests, c, [rests.npc[c] EXCEPT !.acting = acts])
  BY DEF OtherTick
<1> DEFINE b == Begin(c, to)
           v == Aim(b, c, aim)
           marked == [v EXCEPT !.stale = v.stale \cup {c}]
           noted == IF Pathed(v, c) /\ aim # w.npc[c].target THEN marked ELSE v
           rests == IF idles THEN Idle(noted, c) ELSE noted
           m == [rests.npc[c] EXCEPT !.acting = acts]
<1>3. w' = Put(rests, c, m)
  BY <1>2
<1>4. to \in Tiles
  BY <1>1, <1>2, ReachIsOnTheMap DEF Moving
<1>5. Moving(b, c) /\ Leads(b, c) /\ b.npc[c].target = w.npc[c].target
  BY <1>1, <1>4, BeginMoving
<1> HIDE DEF b
<1>6. Bound(b, c)
  BY <1>5 DEF Leads, Bound
<1>7. /\ Moving(v, c) /\ Bound(v, c)
      /\ aim = w.npc[c].target => Leads(v, c)
  BY <1>5, <1>6, AimMoving
<1> HIDE DEF v
<1>8. Moving(marked, c) /\ Leads(marked, c)
  BY <1>7, StaleMoving
<1> HIDE DEF marked
<1>9. Moving(noted, c) /\ Leads(noted, c)
  <2>1. CASE Pathed(v, c) /\ aim # w.npc[c].target
    BY <2>1, <1>8
  <2>2. CASE ~Pathed(v, c)
    BY <2>2, <1>7 DEF Leads
  <2>3. CASE aim = w.npc[c].target
    BY <2>3, <1>7
  <2> QED
    BY <2>1, <2>2, <2>3
<1> HIDE DEF noted
<1>10. Moving(rests, c) /\ Leads(rests, c)
  BY <1>9, ReleaseMoving DEF Idle
<1> HIDE DEF rests
<1>11. Alike(m, rests.npc[c]) /\ Same(m, rests.npc[c])
  <2>1. IsCreature(rests.npc[c])
    BY <1>10, FitShape DEF Moving, Fit
  <2> QED
    BY <2>1, WithActing, OneField
<1> HIDE DEF m
<1>12. m.at \in Tiles /\ m.target = rests.npc[c].target
  BY <1>10, <1>11 DEF Same, Moving
<1>13. LET u == Put(rests, c, m) IN Moving(u, c) /\ Leads(u, c)
  BY <1>10, <1>11, <1>12, PutMoving
<1>14. RouteInv(Put(rests, c, m))
  BY <1>13, MovingIsRoute
<1> QED
  BY <1>3, <1>14

\* A creature that leaves gives up its path; what is left is everybody else's.
LEMMA DieRoute ==
  ASSUME RouteInv(w), NEW c \in Creatures, Die(c)
  PROVE  RouteInv(w')
<1> DEFINE v == Release(w, c)
<1>1. PathInv(w')
  BY DiePaths DEF RouteInv
<1>2. Moving(v, c)
  BY MovingIsRoute, ReleaseMoving DEF Die
<1>3. w' = Put(v, c, Gone)
  BY DEF Die
<1>4. IsCreature(Gone) /\ Gone.slot = NoSlot /\ ~Gone.alive
  BY DEF Gone, IsCreature
<1> HIDE DEF v
<1>5. IsPut(w', v, c, Gone)
  BY <1>2, <1>3, <1>4, PutShape DEF Moving, Fit, PathInv
<1>6. Cached(w')
  BY <1>2, <1>5 DEF IsPut, Moving, Cached
<1>7. Leads(w', c) /\ Placed(w', c)
  BY <1>4, <1>5 DEF IsPut, Leads, Placed, Pathed
<1>8. ASSUME NEW d \in Creatures \ {c} PROVE Leads(w', d) /\ Placed(w', d)
  BY <1>2, <1>5 DEF IsPut, Moving, Leads, Placed, Pathed
<1> QED
  BY <1>1, <1>6, <1>7, <1>8 DEF RouteInv

LEMMA VanishRoute ==
  ASSUME RouteInv(w), NEW c \in Creatures, Vanish(c)
  PROVE  RouteInv(w')
<1> DEFINE v == Release(w, c)
           p == Put(v, c, Gone)
           more == w.leaked \cup ({w.npc[c].slot} \ {NoSlot})
<1>1. PathInv(w')
  BY VanishPaths DEF RouteInv
<1>2. Moving(v, c)
  BY MovingIsRoute, ReleaseMoving DEF Vanish
<1>3. w' = [p EXCEPT !.free = w.free, !.leaked = more]
  BY DEF Vanish
<1>4. IsCreature(Gone) /\ Gone.slot = NoSlot /\ ~Gone.alive
  BY DEF Gone, IsCreature
<1> HIDE DEF v, more
<1>5. IsPut(p, v, c, Gone)
  BY <1>2, <1>4, PutShape DEF Moving, Fit, PathInv
<1> HIDE DEF p
<1>6. w' = [npc |-> p.npc, free |-> w.free, cache |-> p.cache, leaked |-> more, stale |-> p.stale]
  BY <1>3, <1>5 DEF IsPut, Shape
<1>7. w'.npc = p.npc /\ w'.cache = v.cache /\ w'.stale = v.stale
  BY <1>5, <1>6 DEF IsPut
<1>8. Cached(w')
  BY <1>2, <1>7 DEF Moving, Cached
<1>9. Leads(w', c) /\ Placed(w', c)
  BY <1>4, <1>5, <1>7 DEF IsPut, Leads, Placed, Pathed
<1>10. ASSUME NEW d \in Creatures \ {c} PROVE Leads(w', d) /\ Placed(w', d)
  BY <1>2, <1>5, <1>7 DEF IsPut, Moving, Leads, Placed, Pathed
<1> QED
  BY <1>1, <1>8, <1>9, <1>10 DEF RouteInv

LEMMA SpawnRoute ==
  ASSUME RouteHypothesis, RouteInv(w), NEW c \in Creatures, Spawn(c)
  PROVE  RouteInv(w')
<1>1. PICK t \in Room[c], g \in Goals[c] :
        w' = Put(w, c, [Gone EXCEPT !.alive = TRUE, !.at = t, !.target = g])
  BY DEF Spawn
<1> DEFINE n == [Gone EXCEPT !.alive = TRUE, !.at = t, !.target = g]
           yes == TRUE
           k == [Gone EXCEPT !.alive = yes]
           m == [k EXCEPT !.at = t]
<1>2. IsCreature(n) /\ n.slot = NoSlot /\ n.at = t
  <2>1. n = [m EXCEPT !.target = g]
    BY DEF Gone
  <2>2. IsCreature(Gone) /\ Gone.slot = NoSlot
    BY DEF Gone, IsCreature
  <2> HIDE DEF yes, n
  <2>3. IsCreature(k) /\ k.slot = NoSlot
    BY <2>2, WithAlive
  <2> HIDE DEF k
  <2>4. IsCreature(m) /\ m.slot = NoSlot /\ m.at = t
    BY <2>3, WithAt DEF Alike, Holds, IsCreature
  <2> HIDE DEF m
  <2> QED
    BY <2>1, <2>4, WithTarget DEF Alike, Holds, IsCreature
<1>3. PathInv(w')
  BY SpawnPaths DEF RouteInv
<1> HIDE DEF n
<1>4. IsCreature(n) /\ n.slot = NoSlot /\ n.at = t
  BY <1>2
<1>5. IsPut(w', w, c, n)
  BY <1>1, <1>4, PutShape DEF n, RouteInv, PathInv
<1>6. Cached(w')
  BY <1>5 DEF IsPut, RouteInv, Cached
<1>7. Leads(w', c) /\ Placed(w', c)
  BY <1>4, <1>5 DEF IsPut, Leads, Placed, Pathed, RouteHypothesis
<1>8. ASSUME NEW d \in Creatures \ {c} PROVE Leads(w', d) /\ Placed(w', d)
  BY <1>5 DEF IsPut, RouteInv, Leads, Placed, Pathed
<1> QED
  BY <1>3, <1>6, <1>7, <1>8 DEF RouteInv

LEMMA ResetRoute ==
  ASSUME RouteHypothesis, RouteInv(w), Reset
  PROVE  RouteInv(w')
<1>1. PathInv(w')
  BY ResetPaths DEF RouteInv, RouteHypothesis
<1>2. Shape(w)
  BY DEF RouteInv, PathInv
<1>3. w' = [npc |-> [c \in Creatures |-> [w.npc[c] EXCEPT !.slot = NoSlot]], free |-> Slots,
            cache |-> w.cache, leaked |-> {}, stale |-> {}]
  BY <1>2 DEF Reset, Shape
<1>4. Cached(w')
  BY <1>3 DEF RouteInv, Cached
<1>5. ASSUME NEW c \in Creatures PROVE Leads(w', c) /\ Placed(w', c)
  <2>1. w'.npc[c] = [w.npc[c] EXCEPT !.slot = NoSlot]
    BY <1>3
  <2>2. /\ Holds([w.npc[c] EXCEPT !.slot = NoSlot], w.npc[c], NoSlot)
        /\ Same([w.npc[c] EXCEPT !.slot = NoSlot], w.npc[c])
    BY <1>2, WithSlot, OneField DEF Shape
  <2>3. w'.npc[c].slot = NoSlot /\ w'.npc[c].alive = w.npc[c].alive /\ w'.npc[c].at = w.npc[c].at
    BY <2>1, <2>2 DEF Holds, Same
  <2> QED
    BY <2>3 DEF Leads, Placed, Pathed, RouteInv
<1> QED
  BY <1>1, <1>4, <1>5 DEF RouteInv

LEMMA InitRoute ==
  ASSUME RouteHypothesis, WalkInit
  PROVE  RouteInv(w)
<1>1. PathInv(w)
  BY InitPaths DEF RouteHypothesis
<1>2. Cached(w) /\ \A c \in Creatures : w.npc[c] = Gone
  BY DEF WalkInit, Cached
<1>3. \A c \in Creatures : Leads(w, c) /\ Placed(w, c)
  BY <1>2 DEF Leads, Placed, Pathed, Gone
<1> QED
  BY <1>1, <1>2, <1>3 DEF RouteInv

LEMMA NextRoute ==
  ASSUME RouteHypothesis, RouteInv(w), [WalkNext]_walkVars
  PROVE  RouteInv(w')
<1>1. ASSUME NEW c \in Creatures, WalkTick(c) PROVE RouteInv(w')
  BY <1>1, WalkTickRoute
<1>2. ASSUME NEW c \in Creatures, OtherTick(c) PROVE RouteInv(w')
  BY <1>2, OtherTickRoute
<1>3. ASSUME NEW c \in Creatures, Die(c) PROVE RouteInv(w')
  BY <1>3, DieRoute
<1>4. ASSUME NEW c \in Creatures, Vanish(c) PROVE RouteInv(w')
  BY <1>4, VanishRoute
<1>5. ASSUME NEW c \in Creatures, Spawn(c) PROVE RouteInv(w')
  BY <1>5, SpawnRoute
<1>6. CASE Reset
  BY <1>6, ResetRoute
<1>7. CASE UNCHANGED walkVars
  BY <1>7 DEF walkVars
<1> QED
  BY <1>1, <1>2, <1>3, <1>4, <1>5, <1>6, <1>7 DEF WalkNext

\* Where the path in each slot in use begins, how far it has been followed and where it
\* leads.
THEOREM RouteInvariant ==
  ASSUME RouteHypothesis
  PROVE  WalkSpec => []RouteInv(w)
<1>1. WalkInit => RouteInv(w)
  BY InitRoute
<1>2. RouteInv(w) /\ [WalkNext]_walkVars => RouteInv(w)'
  BY NextRoute
<1> QED
  BY <1>1, <1>2, PTL DEF WalkSpec

\* The path a creature follows goes to its target, and the tile it heads for is the next
\* one or where the path began, except that a target set in a tick that does not walk
\* leaves the old path in place (npc_set_walk_target, walk_using_cached_path).
THEOREM PathsAreCurrent ==
  ASSUME RouteHypothesis
  PROVE  WalkSpec => []PathsLeadToTarget
<1>1. ASSUME RouteInv(w) PROVE PathsLeadToTarget
  <2> SUFFICES ASSUME NEW c \in Owners
               PROVE  LET r == w.cache[w.npc[c].slot]
                      IN  /\ c \notin w.stale => r.path[Len(r.path)] = w.npc[c].target
                          /\ IF r.step = 0 THEN Open(Level, r.at, r.path[1]) ELSE r.at = r.path[r.step]
    BY DEF PathsLeadToTarget
  <2> DEFINE r == w.cache[w.npc[c].slot]
  <2>1. PICK g : OnWay(r, g) /\ (c \notin w.stale => g = w.npc[c].target)
    BY <1>1 DEF Owners, RouteInv, Leads
  <2> HIDE DEF r
  <2>2. r.path = <<g>> /\ (IF r.step = 0 THEN Open(Level, r.at, g) ELSE r.step = 1 /\ r.at = g)
    BY <2>1 DEF OnWay
  <2>3. Len(r.path) = 1 /\ r.path[1] = g
    BY <2>2
  <2> QED
    BY <2>1, <2>2, <2>3 DEF r
<1> QED
  BY <1>1, RouteInvariant, PTL

=============================================================================
