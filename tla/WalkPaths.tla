----------------------------- MODULE WalkPaths -----------------------------
(***************************************************************************)
(* Creatures on their way (npc_walk_toward_tile and what calls it, ai.c).  *)
(* A creature that cannot go straight keeps the path it found in one of    *)
(* sixteen slots; a mask tells which slots are free, and a bit and a       *)
(* number in the creature which one is its own.                            *)
(*                                                                         *)
(* A creature may be freed without a tick of its own, by the garbage       *)
(* collector or a trap: its slot stays taken until the next level.         *)
(***************************************************************************)
EXTENDS PathSearch

CONSTANTS
  Tiles, Passages, Heights,  \* of the level, as in PathSearch
  Creatures,
  Room,    \* the tiles each of them can come to
  Goals,   \* and those it goes to
  Slots,   \* path slots (16)
  NoSlot

VARIABLE
  w  \* npc: the creatures; free: the mask (DAT_000853b8); cache: the paths
     \* (DAT_00101568); leaked, stale: history, slots whose creature was freed and
     \* creatures whose target changed under their path

walkVars == <<w>>

Level == [tiles |-> Tiles, passages |-> Passages, heights |-> Heights]

\* What a search finds between each two tiles: the row it keeps stays 0 (PathQuery).
Ways == [from \in Tiles |-> [goal \in Tiles |-> FindPath(Level, 0, from, goal).path]]

Gone == [alive |-> FALSE, at |-> NoTile, target |-> NoTile, slot |-> NoSlot,
         straight |-> FALSE, lost |-> FALSE, acting |-> FALSE]
NoPath == [at |-> NoTile, step |-> 0, path |-> <<>>]

Put(v, c, n) == [v EXCEPT !.npc = [v.npc EXCEPT ![c] = n]]
Pathed(v, c) == v.npc[c].slot # NoSlot

----------------------------------------------------------------------------
(* The slots.                                                              *)

\* What a free slot holds is not read again.
Release(v, c) ==
  IF ~Pathed(v, c) THEN v
  ELSE [Put(v, c, [v.npc[c] EXCEPT !.slot = NoSlot]) EXCEPT
          !.free = v.free \cup {v.npc[c].slot}, !.stale = v.stale \ {c},
          !.cache = [v.cache EXCEPT ![v.npc[c].slot] = NoPath]]

\* pop_pending_path_cache_slot, save_walk_path_to_cache_slot
Take(v, c, path) ==
  LET slot == Min(v.free)
      n == v.npc[c]
  IN  [Put(v, c, [n EXCEPT !.slot = slot, !.lost = FALSE]) EXCEPT
         !.free = v.free \ {slot},
         !.cache = [v.cache EXCEPT ![slot] = [at |-> n.at, step |-> 0, path |-> path]]]

\* advance_cached_path_step, when the path goes on.
Advance(v, c) ==
  LET slot == v.npc[c].slot
      r == v.cache[slot]
  IN  IF r.step = Len(r.path) THEN v
      ELSE [v EXCEPT !.cache = [v.cache EXCEPT ![slot] =
              [r EXCEPT !.step = r.step + 1, !.at = r.path[r.step + 1]]]]

\* walk_using_cached_path: the creature heads for the path's tile until it stands
\* on it, or is next to it and leans that way; at the end the slot is free again.
Follow(v, c, leans) ==
  LET n == v.npc[c]
      r == v.cache[n.slot]
      near == \A i \in 1 .. 2 : Distance(r.at[i], n.at[i]) <= 1
  IN  IF ~(r.at = n.at \/ (leans /\ near)) THEN v
      ELSE IF r.step = Len(r.path) THEN Release(v, c) ELSE Advance(v, c)

\* npc_set_walk_target
Aim(v, c, goal) ==
  LET n == v.npc[c] IN Put(v, c, [n EXCEPT !.target = goal, !.lost = n.lost /\ goal = n.target])

\* Mutant: a creature that runs into something forgets its slot.
BumpForgetsSlot(v, c, hit) ==
  IF hit \in {"nothing", "still"} \/ v.npc[c].lost THEN v
  ELSE Put(v, c, [v.npc[c] EXCEPT !.straight = FALSE, !.lost = hit = "stopped", !.slot = NoSlot])

\* What the creature ran into makes it give up its path or its straight line.
Bump(v, c, hit) ==
  IF hit \in {"nothing", "still"} \/ v.npc[c].lost THEN v
  ELSE LET r == Release(v, c)
       IN  Put(r, c, [r.npc[c] EXCEPT !.straight = FALSE, !.lost = hit = "stopped"])

\* npc_idle_behavior_tick
Idle(v, c) == Release(v, c)

\* The rest of npc_walk_toward_tile, for a creature with no path to follow: ahead says
\* that the straight line is open (try_direct_line_walk) or, for a creature that
\* cannot find its way, that it will try again.
Choose(v, c, goal, changed, blocked, ahead) ==
  LET n == v.npc[c]
      goes == [n EXCEPT !.acting = FALSE]
      path == Ways[n.at][goal]
  IN  IF ~changed /\ n.straight THEN Put(v, c, goes)
      ELSE IF ~changed /\ n.lost THEN Idle(Put(v, c, [n EXCEPT !.lost = ~ahead]), c)
      ELSE IF ~blocked /\ ahead /\ goal # n.at
      THEN Put(v, c, [goes EXCEPT !.straight = TRUE, !.lost = FALSE])
      ELSE IF v.free # {} /\ path # <<>> THEN Follow(Take(Put(v, c, goes), c, path), c, FALSE)
      ELSE Idle(Put(v, c, [n EXCEPT !.lost = TRUE, !.straight = FALSE]), c)

\* Mutant: a path is kept though its target is no longer the creature's.
WalkKeepsPath(v, c, goal, aimed, homing, hit, ahead) ==
  LET changed == aimed \/ goal # v.npc[c].target
      atGoal == goal = v.npc[c].at
      there == IF atGoal THEN Release(Aim(v, c, goal), c) ELSE Aim(v, c, goal)
      free == Bump(there, c, hit)
  IN  IF hit = "still"
      THEN IF Pathed(there, c) /\ there.cache[there.npc[c].slot].at = v.npc[c].at THEN Advance(there, c) ELSE there
      ELSE IF atGoal /\ ~homing THEN Put(there, c, [there.npc[c] EXCEPT !.acting = FALSE])
      ELSE IF Pathed(free, c) THEN Follow(Put(free, c, [free.npc[c] EXCEPT !.acting = FALSE]), c, ahead)
      ELSE Choose(free, c, goal, changed, hit # "nothing" /\ ~there.npc[c].lost, ahead)

\* npc_walk_toward_tile.  aimed: a target was set before in this tick; hit: what its
\* body ran into, or that it cannot move yet; homing: it goes back to its home.
Walk(v, c, goal, aimed, homing, hit, ahead) ==
  LET changed == aimed \/ goal # v.npc[c].target
      atGoal == goal = v.npc[c].at
      there == IF changed \/ atGoal THEN Release(Aim(v, c, goal), c) ELSE v
      free == Bump(there, c, hit)
  IN  IF hit = "still"
      THEN IF Pathed(there, c) /\ there.cache[there.npc[c].slot].at = v.npc[c].at THEN Advance(there, c) ELSE there
      ELSE IF atGoal /\ ~homing THEN Put(there, c, [there.npc[c] EXCEPT !.acting = FALSE])
      ELSE IF Pathed(free, c) THEN Follow(Put(free, c, [free.npc[c] EXCEPT !.acting = FALSE]), c, ahead)
      ELSE Choose(free, c, goal, changed, hit # "nothing" /\ ~there.npc[c].lost, ahead)

----------------------------------------------------------------------------
(* The ticks.                                                              *)

WalkInit ==
  /\ w = [npc |-> [c \in Creatures |-> Gone], free |-> Slots,
          cache |-> [s \in Slots |-> NoPath], leaked |-> {}, stale |-> {}]

\* The first half of npc_ai_tick: a creature that is neither walking nor standing
\* gives up its path; then its body moves, or is moved.
Begin(c, to) ==
  LET v == IF w.npc[c].acting THEN Release(w, c) ELSE w
  IN  Put(v, c, [v.npc[c] EXCEPT !.at = to])

Reach(c) == {w.npc[c].at} \cup {t \in Tiles : Open(Level, w.npc[c].at, t)}

\* A tick that ends in npc_walk_toward_tile, perhaps after another target was set.
WalkTick(c) ==
  /\ w.npc[c].alive
  /\ \E to \in Reach(c), aim, goal \in Goals[c], homing, ahead \in BOOLEAN,
        hit \in {"nothing", "still", "bumped", "stopped"} :
       /\ homing => goal = to
       /\ w' = Walk(Aim(Begin(c, to), c, aim), c, goal, aim # w.npc[c].target, homing, hit, ahead)

\* A tick in which it fights, stands or does nothing, perhaps after a target was set:
\* the flag that tells of it is cleared before the creature walks again.
OtherTick(c) ==
  /\ w.npc[c].alive
  /\ \E to \in Reach(c), aim \in Goals[c], idles, acts \in BOOLEAN :
       LET v == Aim(Begin(c, to), c, aim)
           noted == IF Pathed(v, c) /\ aim # w.npc[c].target
                    THEN [v EXCEPT !.stale = v.stale \cup {c}] ELSE v
           rests == IF idles THEN Idle(noted, c) ELSE noted
       IN  w' = Put(rests, c, [rests.npc[c] EXCEPT !.acting = acts])

\* The end of its death animation, in its own tick.
Die(c) ==
  /\ w.npc[c].alive /\ w.npc[c].acting
  /\ w' = Put(Release(w, c), c, Gone)

\* despawn_objects_outside_radius, settle passes and traps: no tick of its own.
Vanish(c) ==
  /\ w.npc[c].alive
  /\ w' = [Put(Release(w, c), c, Gone) EXCEPT
             !.free = w.free,
             !.leaked = w.leaked \cup ({w.npc[c].slot} \ {NoSlot})]

\* spawn_new_object, with the flags that its initializer clears.
Spawn(c) ==
  /\ ~w.npc[c].alive
  /\ \E t \in Room[c], g \in Goals[c] :
       w' = Put(w, c, [Gone EXCEPT !.alive = TRUE, !.at = t, !.target = g])

\* reset_npc_path_cache, as a level begins.
Reset ==
  /\ w' = [w EXCEPT !.npc = [c \in Creatures |-> [w.npc[c] EXCEPT !.slot = NoSlot]],
                    !.free = Slots, !.leaked = {}, !.stale = {}]

WalkNext ==
  \/ \E c \in Creatures : WalkTick(c) \/ OtherTick(c) \/ Die(c) \/ Vanish(c) \/ Spawn(c)
  \/ Reset

WalkSpec == WalkInit /\ [][WalkNext]_walkVars

----------------------------------------------------------------------------
(* Properties.                                                             *)

Owners == {c \in Creatures : Pathed(w, c)}

\* However creatures take, give up and follow paths, are hurt, die and vanish, no two
\* of them use one slot, and a slot that is taken has an owner or lost it when its
\* creature was freed without a tick of its own (the mask of npc_walk_toward_tile).
SlotsAccountedFor ==
  LET owned == {w.npc[c].slot : c \in Owners}
  IN  /\ Cardinality(owned) = Cardinality(Owners)
      /\ Slots \ w.free = owned \cup w.leaked /\ w.leaked \cap owned = {}

\* The path a creature follows goes to its target, and the tile it heads for is the next
\* one of the path or where the path began, except that a target set in a tick that does
\* not walk leaves the old path in place (npc_set_walk_target, walk_using_cached_path).
PathsLeadToTarget ==
  \A c \in Owners :
    LET r == w.cache[w.npc[c].slot]
    IN  /\ c \notin w.stale => r.path[Len(r.path)] = w.npc[c].target
        /\ IF r.step = 0 THEN Open(Level, r.at, r.path[1]) ELSE r.at = r.path[r.step]
=============================================================================
