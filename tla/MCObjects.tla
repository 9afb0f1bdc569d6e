----------------------------- MODULE MCObjects -----------------------------
(* What the player handles: the chains of objects of a level, the pack and  *)
(* its panel, the regions of the screen that take the clicks, and what he   *)
(* wears, burns and casts.  They are four instances that share nothing, so  *)
(* one of them runs in a behaviour and the others rest.                     *)
EXTENDS Bindings

CONSTANTS Me, None

\* Two tiles and three things in four records: both pools run dry.
MobileSlots == {1, 2}
StaticSlots == {3, 4}
Tiles == {<<"tile", 1>>, <<"tile", 2>>}
Start == <<"bag", "gem", "coin">>
Bags == {"bag"}
Rock == "rock"

\* A box in a box, two records of a kind that stacks, three slots.
PackBoxes == {101, 102}
Stones == {1, 2}
Hands == {7}
Packs == {11, 12}
Grid == 2
Row == 1
Capacity == [box \in PackBoxes |-> IF box = 101 THEN 4 ELSE 2]
MaxCarry == 6
Sizes == {3}

\* A torch that burns two ticks with a weaker taper that lasts or with a ring, and one slot
\* for a light; two spells at a time, one of them a light.
Torches == {"torch", "taper"}
Spells == {"light", "levitate", "roam"}

VARIABLES
  which,
  world, held, there,
  w, packHeld,
  p

World == INSTANCE ObjectWorld
Panel == INSTANCE Backpack WITH Boxes <- PackBoxes, held <- packHeld
Player == INSTANCE PlayerEffects WITH
            Rings <- {"ring"}, Tapers <- {"taper"}, LightSlots <- 1, Fingers <- 1,
            Owned <- {{"torch", "taper"}, {"torch", "ring"}},
            Bright <- [t \in Torches |-> IF t = "taper" THEN 1 ELSE 2], Fuel <- 2,
            Interval <- [t \in Torches |-> IF t = "taper" THEN 0 ELSE 1], Period <- 1,
            SpellLight <- 1, Lengths <- {1, 2}, MaxSpells <- 2, MaxHaze <- 2

worldVars == <<world, held, there>>
packVars == <<w, packHeld>>

MCInit ==
  /\ which \in {"world", "pack", "clicks", "player"}
  /\ Init /\ World!Init /\ Panel!Init
  /\ which # "world" => there = <<"tile", 1>> /\ world.word[there] # World!Null
  /\ which # "pack" => w.count[1] # 0
  /\ IF which = "player" THEN Player!Init ELSE p = Nobody

WorldRuns == which = "world" /\ World!Next /\ UNCHANGED <<which, packVars, vars, p>>
PackRuns == which = "pack" /\ Panel!Next /\ UNCHANGED <<which, worldVars, vars, p>>
ClicksRun == which = "clicks" /\ Next /\ UNCHANGED <<which, worldVars, packVars, p>>
PlayerRuns ==
  which = "player" /\ Player!Next /\ UNCHANGED <<which, worldVars, packVars, vars>>

MCNext == WorldRuns \/ PackRuns \/ ClicksRun \/ PlayerRuns

MCSpec == MCInit /\ [][MCNext]_<<which, worldVars, packVars, vars, p>>

WorldIsForest == which = "world" => World!WorldIsForest
NothingVanishes == which = "world" => World!NothingVanishes
BreaksOnlyAfterSweep == which = "world" => World!BreaksOnlyAfterSweep
InventoryTravelsWhole == [][which = "world" => World!TravelsWhole]_worldVars
PanelShowsPack == which = "pack" => Panel!PanelShowsPack
WeightsAreExact == which = "pack" => Panel!WeightsAreExact
EffectsAreCurrent == which = "player" => Player!EffectsAreCurrent
SpellsLastAsCast == which = "player" => Player!SpellsLastAsCast
=============================================================================
