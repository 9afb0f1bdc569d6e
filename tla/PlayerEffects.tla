---------------------------- MODULE PlayerEffects ----------------------------
(***************************************************************************)
(* What works on the player (player.c, spells.c, item_use.c): spells that  *)
(* count down in a list, things worn, torches that burn, a mushroom's      *)
(* haze.  What follows from them is derived at once by                     *)
(* refresh_player_equipment_effects and kept until the next refresh, which *)
(* every handler has to ask for.                                           *)
(*                                                                         *)
(* Operators take the player's state and return one.                       *)
(***************************************************************************)
EXTENDS Integers, Sequences, FiniteSets, FiniteSetsExt, SequencesExt, BagsExt

CONSTANTS
  Torches, Rings,  \* what one carries
  Tapers,          \* of the torches, those that a fall does not put out (type 7)
  LightSlots,      \* how many torches can be worn (4)
  Fingers,         \* how many rings (2)
  Owned,           \* what one may begin with: sets of these things
  Bright,          \* the brightness of a burning torch
  Fuel,            \* what a torch has at first (0x3f)
  Interval,        \* the ticks in which each burns one, 0 for one that lasts for ever
  Period,          \* the ticks after which the phase begins anew (0x18)
  Spells,          \* what is cast: kinds; "light" has a brightness
  SpellLight,
  Lengths,         \* what the dice give for a spell
  MaxSpells,       \* 3
  MaxHaze          \* 3

VARIABLE
  p  \* at: where each thing is: "worn" (a torch in a light slot, a ring on a finger),
     \* "cursor", "bag", "floor" or "elsewhere"; lit; fuel; spells: the list of [kind, left];
     \* haze: bits 2 and 3 of the word at 0x61; phase: DAT_002046d0; aimed: DAT_0023bc94;
     \* roams: the view has left the player; derived: what the last refresh made of it.
     \* History: granted, a bag of what was cast and still has to last; stale, a
     \* handler has left the light of the cache behind; astray, the view roams without a spell.

----------------------------------------------------------------------------
(* The cache.                                                              *)

Things == Torches \cup Rings
Kinds(v) == {v.spells[i].kind : i \in DOMAIN v.spells}

\* What shines: torches in the light slots and the thing on the cursor.
Shining(v) == {t \in Torches \cap v.lit : v.at[t] \in {"worn", "cursor"}}

\* refresh_player_equipment_effects: the first of the brightest torches, then the
\* spells in their order, then what is worn.
Derive(v) ==
  [light |-> FoldLeft(LAMBDA level, s : IF s.kind = "light" /\ level < SpellLight
                                        THEN SpellLight ELSE level,
                      Max({Bright[t] : t \in Shining(v)} \cup {0}), v.spells),
   effects |-> (Kinds(v) \ {"light"}) \cup {r \in Rings : v.at[r] = "worn"},
   reach |-> IF v.aimed THEN "long" ELSE "short",
   hazy |-> v.haze # 0]
Refresh(v) == [v EXCEPT !.derived = Derive(v), !.stale = FALSE]

----------------------------------------------------------------------------
(* Spells.                                                                 *)

\* add_active_light_source, for a spell of any kind.
AddSpell(v, kind, n) ==
  IF Len(v.spells) = MaxSpells THEN v
  ELSE LET s == [kind |-> kind, left |-> n]
       IN  Refresh([v EXCEPT !.spells = Append(@, s), !.granted = BagAdd(@, s)])

\* The list after the spell at i has gone: the last one fills its place.
TakeOut(list, i) ==
  LET n == Len(list) IN [j \in 1 .. n - 1 |-> IF j = i THEN list[n] ELSE list[j]]

\* cycle_active_light_source: flying ends in a slow fall.
Flight == {"levitate", "fly"}
Falls(v, i) == [v EXCEPT !.spells[i] = [kind |-> "slow fall", left |-> 1]]
EndSpell(v, i) ==
  IF v.spells[i].kind \in Flight THEN Falls(v, i)
  ELSE [v EXCEPT !.spells = TakeOut(@, i), !.roams = @ /\ v.spells[i].kind # "roam",
                 !.astray = @ /\ v.spells[i].kind # "roam"]

\* Mutant: the spell that has filled the gap is passed over.
RECURSIVE CountDownPast(_, _)
CountDownPast(v, i) ==
  IF i > Len(v.spells) THEN v
  ELSE IF v.spells[i].left = 1 THEN CountDownPast(EndSpell(v, i), i + 1)
  ELSE CountDownPast([v EXCEPT !.spells[i].left = (@ - 1) % 256], i + 1)

\* The loop of update_player_tick_effects: the index steps back for a spell that has gone.
RECURSIVE CountDown(_, _)
CountDown(v, i) ==
  IF i > Len(v.spells) THEN v
  ELSE IF v.spells[i].left # 1
       THEN CountDown([v EXCEPT !.spells[i].left = (@ - 1) % 256], i + 1)
  ELSE CountDown(EndSpell(v, i), IF v.spells[i].kind \in Flight THEN i + 1 ELSE i)

\* What a tick should do to what was granted: everything at once.
Lasts(s) == s.left > 1 \/ s.kind \in Flight
Passed(s) ==
  IF s.left > 1 THEN [s EXCEPT !.left = @ - 1] ELSE [kind |-> "slow fall", left |-> 1]
Granted(bag) == BagOfAll(Passed, Restrict(bag, {s \in DOMAIN bag : Lasts(s)}))

----------------------------------------------------------------------------
(* Torches.                                                                *)

\* decay_equipped_light_sources: what burns down in a time, and at a phase of the tick.
Units(elapsed, phase) ==
  [t \in Torches |->
     IF Interval[t] = 0 THEN 0
     ELSE (IF phase % Interval[t] = 0 THEN 1 ELSE 0)
            + (IF elapsed > 1 THEN elapsed \div Interval[t] ELSE 0)]
Burning(v) == {t \in Torches \cap v.lit : v.at[t] = "worn"}
Out(v, units) == {t \in Burning(v) : units[t] >= v.fuel[t] /\ units[t] > 0}
Burn(v, units) ==
  [v EXCEPT !.fuel = [t \in Torches |-> IF t \notin Burning(v) THEN @[t]
                                        ELSE IF t \in Out(v, units) THEN 0 ELSE @[t] - units[t]],
            !.lit = @ \ Out(v, units)]

----------------------------------------------------------------------------
(* The tick (update_player_tick_effects).                                  *)

SpellEnds(v) == \E i \in DOMAIN v.spells : v.spells[i].left = 1

\* Mutant: a torch that goes out is not noticed.
NoticesSpells(v, out) == SpellEnds(v) \/ v.haze = 1

Notices(v, out) == SpellEnds(v) \/ out # {} \/ v.haze = 1

Tick(v) ==
  LET phase == v.phase + 1
      units == Units(1, phase)
      passed == [Burn(CountDown(v, 1), units) EXCEPT
                   !.haze = IF @ > 0 THEN @ - 1 ELSE 0, !.phase = phase % Period,
                   !.granted = Granted(@)]
  IN  IF Notices(v, Out(v, units)) THEN Refresh(passed) ELSE passed

UpdatePlayerTickEffects == p' = Tick(p)

----------------------------------------------------------------------------
(* Commands.                                                               *)

\* execute_spell_effect for a spell that lasts, and dispatch_player_command for the
\* one that lets the view roam, full list or not.
Cast(kind, n) ==
  LET cast == AddSpell(p, kind, n)
  IN  p' = IF kind # "roam" THEN cast
           ELSE [cast EXCEPT !.roams = TRUE, !.astray = @ \/ "roam" \notin Kinds(cast)]

\* handle_light_source_click on the icon of spell i.
Dismiss(i) ==
  LET s == p.spells[i]
      rest == p.granted (-) SetToBag({s})
  IN  p' = Refresh([EndSpell(p, i) EXCEPT
                      !.granted = IF s.kind \in Flight
                                  THEN rest (+) SetToBag({[kind |-> "slow fall", left |-> 1]})
                                  ELSE rest])

\* What ends all spells at once leaves the view where it is.
NoSpells(v) == [v EXCEPT !.spells = <<>>, !.granted = EmptyBag, !.astray = v.roams]

\* handle_rest_action, and apply_special_object_use_effect: the player wakes up
\* where he had planted a sapling.
Rest(elapsed) == p' = Refresh(Burn([NoSpells(p) EXCEPT !.haze = 0], Units(elapsed, 0)))
Reincarnate == p' = Refresh(NoSpells(p))

\* use_food_item for a mushroom, and execute_spell_effect for a stronger dream.
Eat == p' = Refresh([p EXCEPT !.haze = IF @ < MaxHaze THEN @ + 1 ELSE @])
Dream == p' = Refresh([p EXCEPT !.haze = MaxHaze])

\* arm_use_item_on_target_prompt and complete_use_item_on_container: a pole reaches
\* far until it has been used; a prompt that is broken off leaves it so.
AimPole == p' = Refresh([p EXCEPT !.aimed = TRUE])
UsePole == p.aimed /\ p' = Refresh([p EXCEPT !.aimed = FALSE])

----------------------------------------------------------------------------
(* Things.                                                                 *)

Holding == \E x \in Things : p.at[x] = "cursor"
Worn(kind) == {y \in kind : p.at[y] = "worn"}
Free(x) == IF x \in Torches THEN Cardinality(Worn(Torches) \ {x}) < LightSlots
           ELSE Cardinality(Worn(Rings) \ {x}) < Fingers
MoveTo(v, x, place) == [v EXCEPT !.at[x] = place]
Douse(v, x) == [v EXCEPT !.lit = @ \ {x}]

\* swap_cursor_and_slot_item, and pick_up_object's attach_picked_up_object_to_cursor,
\* which refreshes nothing.
TakeUp(x) ==
  /\ ~Holding /\ p.at[x] \in {"worn", "bag"}
  /\ p' = Refresh(MoveTo(p, x, "cursor"))
PickUp(x) ==
  /\ ~Holding /\ p.at[x] = "floor"
  /\ p' = [MoveTo(p, x, "cursor") EXCEPT !.stale = @ \/ x \in p.lit]

\* place_object_in_backpack_slot, in a slot that suits it.
PutOn(x) == p.at[x] = "cursor" /\ Free(x) /\ p' = Refresh(MoveTo(p, x, "worn"))

\* auto_place_in_container: check_object_fits_in_slot puts a torch out, but not when
\* the bag lies in a slot where torches burn; the refresh comes before the cursor is
\* empty.
Stow(x, bagInHand) ==
  LET put == IF bagInHand THEN p ELSE Douse(p, x)
  IN  /\ p.at[x] = "cursor"
      /\ p' = [MoveTo(Refresh(put), x, "bag") EXCEPT !.stale = x \in put.lit]

\* drop_held_object_near_player and the refresh of handle_object_drop_target: what is
\* dropped goes out, but a taper burns on.
Drop(x) ==
  LET left == IF x \in Tapers THEN p ELSE Douse(p, x)
  IN  p.at[x] = "cursor" /\ p' = Refresh(MoveTo(left, x, "floor"))

\* use_light_source: a torch elsewhere than in a light slot is put there first.
UseLight(t) ==
  LET placed == IF t \in p.lit THEN p ELSE MoveTo(p, t, "worn")
  IN  /\ p.fuel[t] > 0 /\ p.at[t] \in {"worn", "bag"}
      /\ t \in p.lit \/ Free(t)
      /\ p' = Refresh([placed EXCEPT !.lit = IF t \in @ THEN @ \ {t} ELSE @ \cup {t}])

Start(own) ==
  [at |-> [x \in Things |-> IF x \in own THEN "bag" ELSE "elsewhere"], lit |-> {}, fuel |-> [t \in Torches |-> Fuel],
   spells |-> <<>>, haze |-> 0, phase |-> 0, aimed |-> FALSE, roams |-> FALSE,
   derived |-> [light |-> 0, effects |-> {}, reach |-> "short", hazy |-> FALSE],
   granted |-> EmptyBag, stale |-> FALSE, astray |-> FALSE]
Init == \E own \in Owned : p = Start(own)

Next ==
  \/ UpdatePlayerTickEffects
  \/ \E kind \in Spells, n \in Lengths : Cast(kind, n)
  \/ \E i \in DOMAIN p.spells : Dismiss(i)
  \/ \E elapsed \in {2 * Period} : Rest(elapsed)
  \/ Reincarnate \/ Eat \/ Dream \/ AimPole \/ UsePole
  \/ \E x \in Things : TakeUp(x) \/ PickUp(x) \/ PutOn(x) \/ Drop(x)
  \/ \E x \in Things, bagInHand \in BOOLEAN : Stow(x, bagInHand)
  \/ \E t \in Torches : UseLight(t)

Spec == Init /\ [][Next]_p

----------------------------------------------------------------------------
(* Properties.                                                             *)

\* Whatever burns out, ends, is worn, cast or eaten, what the game goes by is what
\* works on the player now (the copies of refresh_player_equipment_effects), with two
\* exceptions, in which the light alone lags until the next refresh: after a burning torch
\* went into a bag held in the hand, and after a burning taper was taken from the floor.
EffectsAreCurrent ==
  /\ [p.derived EXCEPT !.light = Derive(p).light] = Derive(p)
  /\ p.derived.light = Derive(p).light \/ p.stale

\* Each spell lasts as long as it was granted, however others end before it and move
\* it in the list (cycle_active_light_source), and the view roams only as long as
\* that spell lasts, except when spells were ended, or refused, without the view.
Occurrences(list) == [s \in ToSet(list) |-> Cardinality({i \in DOMAIN list : list[i] = s})]
SpellsLastAsCast ==
  /\ Occurrences(p.spells) = p.granted
  /\ p.roams => "roam" \in Kinds(p) \/ p.astray
=============================================================================
