# Formal models of the Underworld Pocket PC decompilation

The repository is a C reconstruction of the Pocket PC port of *Ultima
Underworld* (`src/src/*.c`, about 81,000 lines).  This directory holds TLA+
models of the parts of it that keep shared state and change it in small steps,
the TLC runs that check them and TLAPS proofs about them.  Paths below are
relative to the C directory `src/src/` unless they start with `src/`.

## 1. Inventory

The program is single-threaded but for SDL's audio callbacks.  What makes most of
it hard is not parallelism: it is that every subsystem holds *slot numbers* of
records in one arena, or copies of them, and that a call in the middle of another
one's loop frees, moves or reuses those records.

| component | files | state | operations | what must hold |
|---|---|---|---|---|
| object arena | `objects.c`, `level.c` | 256 mobile and 768 static records, a stack of free slots for each, the active mobile list | allocate, free, collect garbage, reset a level, add to and remove from the list | no slot in use twice, none lost; the list names every live mobile once |
| object chains | `objects.c`, `containers.c` | a 10-bit next link and a content link in every record, heads in tiles | link, unlink, take out, recursive free, despawn around the player | every live record in exactly one chain, no cycle |
| scheduler | `scheduler.c` | 64 entries (link, tile, delay), a count, a flag `DAT_002508fc` | add, remove, find, relink, tick, save, load | an entry for each animated object and only for those; every finite entry ends |
| doors | `doors.c`, `scheduler.c` | class id (closed, open, moving `0x1cf`), a 4-bit counter holding direction and frame, owner nibble | open, close, toggle, reverse, swing, rebound | a swing ends in the state it was aimed at; frame and remaining time agree |
| mobile tick, creature AI | `ai.c`, `combat.c` | phase of each mobile on a 16-step ring clock, goals, attitude, target | sweep of the active list, NPC think, projectile flight, settle into a static record, loot | each mobile is ticked at its own rate, none is skipped for long, none twice |
| traps and triggers | `traps.c`, `interact.c` | the link of a trigger, the count of its triggers in a trap, chains of both | fire, follow, create, delete, disarm, purge | a trigger names a trap; a trap goes with the last of its triggers and not before |
| containers, inventory | `containers.c`, `inventory.c`, `interact.c`, `object_actions.c`, `item_use.c` | the object on the cursor, panel slots and grid cells, the list of open containers, running weights | take, drop, stack, split, swap, open, close, scroll, use | an object is in one place; slots and cells show what is carried; the weights are those of the things |
| conversations | `babl.c` | a stack machine, string ring, barter slots with marks and prices | interpret, barter, give and take objects | stack in bounds; a bargain makes and loses nothing; a price is the thing's |
| audio | `audio.c`, `platform_*.c` | music player and DOS sequencer, voices of the sample mixer, one spoken line, four DOS effect slots | play, stop, steal a voice, mix (callback threads) | the callback reads no freed or half-written buffer; what is heard is what the game thinks it plays; slots and channels come back |
| level and save files | `level.c`, `saveload.c` | the level archive and its offset table, `\SAVE0` and the saved slots | change level, save, load, rebuild the archive through `_arc.tmp` | an entry reads back as written; the four files of a slot are one game |
| input, game loop | `input.c`, `game.c`, `mouselook.c`, `weapon_swing.c` | two parallel tables of click regions, one pending key and one pending event, mode, swing state | register, remove, poll, dispatch, pace | a click calls the handler of the region it hits; a swing is released once |
| movement, collision | `movement.c`, `collision.c` | fixed-point position and velocity, collision bits | step, slide, fall, pace the world | no step through a wall |
| player, spells, creation | `player.c`, `spells.c`, `item_use.c`, `chargen.c` | statistics, the list of spells that last, torches that burn, things worn, a cache of what works | tick, cast, rest, light, wear, level up | the cache is what works now; a spell lasts as long as it was cast |
| display, automap | `hud.c`, `automap.c`, `fullscreen_view.c` | message panels, menus of answers, flasks, map bits | print, scroll, ask for [MORE], draw, hit-test | no row is lost unread; a choice is the one on the screen |
| text, resources, files | `text.c`, `resources.c`, `file_io.c`, `winfile_wrappers.c` | caches of decoded blocks | load, decode | |
| rendering | `visibility.c`, `tmap.c`, `models*.c`, `lights.c`, `gx_stub.c`, ... | frame buffers | draw | |
| support | `registration.c`, `options.c`, `debug_*.c`, `demomode.c`, `unit_test_hooks.c`, ... | | | |

How they meet:

- Everything that creates an object calls `alloc_object_slot`; when the pool is
  empty that call runs the garbage collector, in the middle of its caller's work,
  on objects the caller and the scheduler may hold.
- The scheduler holds links into the arena.  `scheduler_tick` frees records and
  rewrites its own table while it walks it.  `reallocate_object_to_arena` and
  `settle_mobile_to_immobile` move an object to another record and relink its
  entry; the collector frees a record and does not.
- Doors are commanded by the player, creatures, traps and conversations, and
  moved only by the scheduler.
- `movement_pacing_handler` calls `scheduler_tick(1)` once per game frame and
  `tick_mobile_objects` with 0 to 4 (rarely 5) steps of the ring clock; quest
  events and one spell call `scheduler_tick(4)`.
- A level change writes the arena, the list and the table to the archive and
  resets them.  What the player carries is taken off the level and put back on
  the next one, through `player.dat`'s record.
- The inventory panel, the barter window and the scheduler keep numbers of objects
  that also stand in chains; whoever moves an object has to tell them.
- Every audio backend has a device of its own whose callback runs on SDL's thread;
  the game thread takes the device's lock for some of what it changes.
- The screens (dungeon, map, conversation, full screen) put their click regions
  into one table and take them out by saved ids.

Hard behaviours: removal from a list or table inside the loop that walks it; a
slot freed while something still names it; the collector inside an allocation;
wrap-around of 4-bit counters; a full table; an object moved between pools in
mid-tick; handlers that keep three copies of one fact in step; the audio threads;
a crash or a failed copy between the steps of a save.

## 2. Plan

| order | module | of | composes | state |
|---|---|---|---|---|
| 1 | `SlotPool` | what the arena promises | | done |
| 2 | `ObjectArena`, `ObjectArenaProofs` | allocator, free stacks, active list, collector | implements `SlotPool` | done, proved |
| 3 | `EffectQueue`, `DoorSwing` | the scheduler's table; one door | | done |
| 4 | `EffectScheduler`, `EffectSchedulerProofs` | scheduler, doors and effects together | `EffectQueue`, `DoorSwing` | done, proved |
| 5 | `ActiveList`, `MobileTick`, `ActiveListProofs` | the sweep over the active list on the ring clock | the list of `ObjectArena` as a sequence | done, proved |
| 6 | `SettlePass` | the pass that brings a level to rest | `ActiveList` | done, proved (in `ActiveListProofs`) |
| 7 | `ObjectWorld` | chains, contents, moves between the pools with the collector in the middle, level changes | the pools of `ObjectArena` as sets | done |
| 8 | `MusicPlayer`, `EffectMixer`, `VoiceLine`, `DosEffects`, `Audio`, `AudioProofs` | game thread against the callbacks | `Audio` is the four together | done, all but `DosEffects` proved |
| 9 | `LevelArchive`, `SaveSlots`, `SaveSlotsProofs` | archive rebuilding; slot copies; crashes | | done, proved |
| 10 | `Backpack` | panel, open containers, cursor, weights | | done |
| 11 | `Barter` | goods in a conversation | | done |
| 12 | `Bindings`, `BindingsProofs` | click regions and the screens that own them | | done, proved |
| 13 | `PathSearch`, `PathQuery`, `WalkPaths`, `WalkPathsProofs` | the search for a way; path slots | `PathSearch` is used by both | done, proved |
| 14 | `TrapChains` | triggers, traps and their removal | | done |
| 15 | `MessageScroll`, `ResponseMenu`, `ResponseMenuProofs` | the message panels; menus of answers on them | `MessageScroll` | done, proved |
| 16 | `BablVM`, `BablScripts`, `Conversation` | the interpreter; what its scripts mean; a talk from click to farewell | `BablVM` | done |
| 17 | `PlayerEffects` | the effects of equipment and spells, a cache rebuilt by hand at each change | | done |
| 18 | `CreatureMind` | goals, attitude and target of a creature | `MobileTick` | to do |
| 19 | proofs about `Backpack`, `Conversation` | | | to do |

Abstract specifications: `SlotPool` for the arena; reachability in a number of
steps (`Ball`) for the search, which falls short of it.  Theorems worth proving
next: `PanelShowsPack`, `MemoryOfLastTalk`.

## 3. How the modules correspond to the code

### `SlotPool`, `ObjectArena`

`ObjectArena` is the allocator of `objects.c` over the arena `level.c` lays out.
A slot is the number a link word holds: 0 is null, 1 the player's record, 2 to
`FirstStatic - 1` mobile records, `FirstStatic` to `LastSlot` static ones.

| state | code |
|---|---|
| `free`, `top` | the two stacks at arena `+0x7300` and `+0x74fc`, `DAT_002046a8`, `DAT_0020469c` |
| `active`, `activeLen` | the array from `DAT_002046c0` to `DAT_002046c8` |
| `request`, `destroyed`, `inTree` | the allocation that is collecting and the locals of `despawn_objects_outside_radius` |
| `live` | history: what has been handed out and not freed |

`AllocObjectSlot` is an allocation that finds a slot.  `BeginDespawn`,
`DespawnContent`, `DespawnRoot`, `RetrySucceeds` and `RetryFails` are one that
does not.  A tree of objects is freed record by record, so every record freed is
a step; which trees go is decided by dice, distance and the map, here by the
environment.  `ReleaseObject` is every other caller of `free_object_slot`.
`free_object_slot` does not look whether the slot is in use: that it is, is the
callers' duty and a guard here; what becomes of callers that break it is in
`EffectScheduler`, which finds one.

`SlotPool` says what callers may rely on: a set of slots in use, requests that
take any slot of their pool, refusals only when there is none.
`ImplementsSlotPool` is the refinement (`inUse <- live`, `waiting <- request`).

### `EffectQueue`, `DoorSwing`, `EffectScheduler`

`EffectQueue` is the table of `scheduler.c`: `link`, `delay`, `count`, and the
operations add, remove (the last entry fills the gap), relink, save and load.
Loading counts entries up to the first blank link, so the link left *behind* the
last entry is part of the state.  `DoorSwing` is the record of one door.  Its
direction and its frame are one 4-bit counter in the record, and every step is
arithmetic on that counter modulo 16.

`EffectScheduler` composes them.  `scheduler_tick` is `BeginTick` and then one
`Visit...` action per pass of its loop, by kind of entry (effect, door, for ever)
and outcome (waiting, due, blocked).  Between ticks doors are commanded
(`CloseDoorObject`, `OpenDoorObject`, `ToggleDoorObject`) and effects come, move
to another record and go.  The names of the commands are the code's and are the
wrong way round: `close_door_object` opens.  Whether something stands in the way
of a closing door is an argument of the visits, chosen by the environment.

`CollectEffect` is the garbage collector taking an effect object.  The scheduler
run lets it take none, the other runs some: `Collectable` says which effect slots
hold objects small enough for the collector's size test.  After a collected
object the code may free the slot a second time when the stale entry ends; the
model shows the stale entry and does not follow the second free.

### `ActiveList`, `MobileTick`, `SettlePass`

`ActiveList` is the active mobile list as a sequence, with `Without`, the removal
that moves the last entry into the gap, and `Overtaken`, the entries a removal
moves from behind an index to before it.

`MobileTick` is `tick_mobile_objects`.  `BeginSweep` sets the new clock,
`NextEntry` is the outer loop finding an object not due, `TickMoves`,
`TickLeaves` and `TickSettlesAndFalls` are one turn of the inner loop with the
three things a tick can do to its object's place in the list; `ThrowObject` and
`FreeOther` happen in the middle of a tick, before it returns.  Phases and the
clock are four-bit and `ObjectTickIsDue` is the code's comparison, not a
statement of what it ought to compute.  Creatures and projectiles are not told
apart.

`SettlePass` is the first loop of `advance_mobile_objects`, which both callers
(leaving a level, sleeping) run between sweeps.  A flying object that settles
leaves the list and the index stays; a creature that a trap had made is taken
away inside `npc_movement_tick`, which cannot tell the loop.  The second loop
changes attitudes only and is left out.

### `ObjectWorld`

The link words of a level: heads in tiles, the next and content words of every
record, the pack's head in the player's record, and the object on the cursor.
Operators take a *world* and return one, or the set of worlds that chance leads
to; an action is one handler: pick up, drop, throw, a flight that goes on, leaves
the map or lands (`settle_mobile_to_immobile`), a static thing that starts to
fall (`reallocate_object_to_arena`), a creature that dies with its belongings, a
saved game (`build_player_save_record`), a change of level.  An allocation from
an empty pool runs the collector inside the handler, on any subset of what is
far away; `world.swept` records that it did.  `world.broken` is set by the first
write through a null pointer or second free, and the model stops there.

`WorldIsForest` and `NothingVanishes` say what the chains must be while nothing
is broken, `BreaksOnlyAfterSweep` that they break only in handlers whose
allocation had to collect: `settle_mobile_to_immobile` and
`reallocate_object_to_arena`, whose own object the collector may take, and
callers that do not look whether they got a record.

### `Backpack`

The panel of what the player carries.  Slots and grid cells are *copies* of links
that each handler keeps in step by hand, and the weights are running sums.  There
is one action for each thing a click or a drag can do (take out, drop in, drop on
a container, swap, stack, split, open, close, scroll, pick up from the floor,
drop), and one for each way the game changes a stack from outside.  `drift`
records which weight the handlers known to lose count have touched, so that
`WeightsAreExact` is exact everywhere else.

### `Barter`

Goods in a conversation.  The creature and the player have barter slots; a thing
in a slot hangs in no chain.  Scripts are data, so the handlers they call
(`setup_to_barter`, `do_offer`, `do_demand`, `give_to_npc`, `take_from_npc`,
`do_inv_create`, ...) come in any order, mixed with what the player drags.
`priced` is the thing each cached price was computed for, and `adrift` are the things
`place_object` took from the creature and could not place: they are in no chain.

### `Bindings`

The table of click regions (`register_click_region`, `unregister_click_region`)
and the screens that fill it: the dungeon view and its stats panel, the map and
its notes, the conversation, full screen.  Two tables are compacted in parallel;
`viewId` and `notesId` are the ids other modules keep.

### `PathSearch`, `PathQuery`, `WalkPaths`

`PathSearch` is `creature_find_path_to_tile`, as it is written: `Look` is one
direction of one tile, with the tree of parents and the rule that hangs a tile below
a later parent when it comes out nearer the goal's height; `Around` looks in all four,
`Expand` is a layer.  The rows of the first layer go to an array of their own
(`DAT_001014e1`) and are read beside the columns (`DAT_001014e0`), where only
layers of odd depth write; `row` is that byte, kept from one search to the next.
`First` therefore is a tile in the column of the first layer's first tile and in
the kept row, 0 to begin with, which is the rock round the level, and there the
search ends.  That only the first tile of a layer is looked around from
(`local_50` counts tiles and directions both) comes to the same.  The second buffer,
`DAT_00101460`, is one byte long, but only layers that are never reached would be
written there.  `IsLevel` is what a search may rely on: the border of a level is rock,
and passages lead to neighbours.

`PathQuery` asks one search after another on any level of a set, with the row kept
between them.  `WalkPaths` is what creatures do with the answer
(`npc_walk_toward_tile`, `walk_using_cached_path`): sixteen slots, a mask of free
ones, a slot number in the creature.  `Vanish` is a creature freed without a tick
of its own (collector, traps): it takes its slot with it, which `leaked` records.

### `MusicPlayer`, `EffectMixer`, `VoiceLine`, `DosEffects`, `Audio`

Each of the first four models one device of the audio code with its two threads;
`Audio` runs them side by side, a step of one at a time.  `lock` is SDL's
device lock, held by SDL for the length of a callback; a section of the game
thread under the lock is one step, an assignment outside it a step of its own.

| module | devices | a step of the game thread |
|---|---|---|
| `MusicPlayer` | `.MOD` player and DOS sequencer under `play_music_track` | read the file, free the old buffer, swap, record the track |
| `EffectMixer` | sample mixer | take a voice, set pointer, length and position |
| `VoiceLine` | spoken lines, and the picture that waits for one | load, swap, free |
| `DosEffects` | DOS effect slots over the driver's channels | one access to slot or channel: there is no lock |

### `LevelArchive`, `SaveSlots`

`LevelArchive` is the archive file: a table of offsets, data without lengths, the
rebuilding through `_arc.tmp` that moves every other entry, and the table in
memory that is written back on closing.  `Interrupted`, the death of the program, can
come between any two steps that touch the disk; `LoadSaved` is what the player can do
then.  The archives of a new game and of the saved slots are the constant `Archives`;
`last`, what each entry was last given, is read off the archive that is loaded.  `SaveSlots` is
a level above: the four files of each directory as whole files, copied one at a
time, each copy succeeding, missing or breaking off.

### `TrapChains`

Triggers and traps.  A trigger's link names a trap without owning it, a trap
counts the triggers that name it, and a trap's link names what it fires, or heads
what it holds.  `Fire` and `Dispatch` are a trigger and a trap going off; of the
traps the module tells apart those that change chains (create, delete, check,
end) and lets all others go on to their link.  `Refresh`, `Purge`, `RemoveMarker`,
`FreeLinked` and `UnlinkAndFree` are the mutually recursive removal.  What chance
and the game's variables decide is one value `c` for a handler: whether the dice let the
trap work, and whether there is room for what it makes.  Four history variables name
the handlers that break the relations: `drift`, how many more triggers a trap has than
it was told of; `passed`, triggers that a purge walks past, or that go beyond the count
of a trap that had more than it was told of; `lost`, records left in no chain;
`broken`, the first write through a null or stale link, where the model stops.

### `MessageScroll`, `ResponseMenu`

A text is what wrapping makes of it, a sequence of rows.  `message_scroll_print_wrapped`
is `PrintText`, its loop the `Draw...` actions, one per way a row comes to stand on
the panel, and the prompt [MORE] is split at the point where it waits
(`AskMore`, `Read...`).  `ResponseMenu` is a builtin `babl_menu` or
`babl_fmenu`: answers are printed as messages, `offered` is the table of what the
rows show and the game waits for a digit or a click.

### `BablVM`, `BablScripts`, `Conversation`

`BablVM` has an action for each group of opcodes of the interpreter; memory is one
block of variables and stack, as in the code, and all words are C shorts.
`BablScripts` says what expressions mean and which code they stand for; it models
the compiler of the game's scripts (external, from how the interpreter reads its
output).  `Conversation` is a talk: the block is loaded from the flat file of all
scripts' private variables and from the creature, the interpreter runs, and what
is left goes back to both.  Game functions are menus and quest flags here.
`SampleScripts` holds the scripts TLC runs.

### `PlayerEffects`

What works on the player.  `p` is his state, operators take one and return one.
`Derive` is what `refresh_player_equipment_effects` makes of spells, torches and
things worn, `Refresh` a call of it; handlers that change something without the
call leave `derived` as it was.  `Tick` is `update_player_tick_effects` with the
torches of `decay_equipped_light_sources` and the spells of
`cycle_active_light_source`, where a spell that ends is taken out of the list
under the loop.  `granted` is the bag of spells cast that still have to last,
kept without looking at the list; `stale` and `astray` name the handlers that
leave the cache or the view behind.

### Instances

TLC's instances of the small components share harnesses: `MCCreatures`
(`PathQuery`, `WalkPaths`, `MobileTick`, `SettlePass`), `MCObjects`
(`ObjectWorld`, `Backpack`, `Bindings`, `PlayerEffects`), `MCObjectArena` (`ObjectArena`
and `Barter`), `MCOutput` (`Audio` and the message scroll) and `MCSession`
(`LevelArchive`, `SaveSlots`, `TrapChains`, `Conversation`).  One of the components of a harness, named by `which`, runs in a
behaviour.  They share no variable, so that this is their interleaving up to
independent steps; only `MobileTick` and `SettlePass` have the active list in common,
and in the code, too, a pass begins when no sweep is under way.

## 4. Runs

| run | asks | instance and bounds | states |
|---|---|---|---|
| `arena` | are stacks and list exact whatever is allocated, freed and collected; is it a `SlotPool`; do bargains conserve goods and keep prices current | arena: 3 mobile and 3 static slots, 1 or 2 trees per collection; barter: 2 coin stacks and a box, 2 places a side | 865,295 |
| `scheduler` | is the table exact; do frame and time of a swing agree | 2 doors (5 and 4 ticks), 2 effect slots, delays -1 and 1, 3 entries, steps of 1 | 698,164 |
| `scheduler_fast` | with steps of 1 and 4: do doors come to rest turned, do effects end | 1 door, 2 effect slots, one of them collectable, 2 entries | 283,631 |
| `scheduler_stale` | *violation*: a collected effect leaves its entry | 1 door, 2 effects, 2 entries | |
| `creatures` | does a search find what is next door and nothing else; are path slots accounted for and paths current; is nobody late after a sweep; do sweeps end and tick everybody; does the settling pass reach what it can, nobody twice | search: every set of passages of a grid of 2 by 3, all pairs, 31 layers; walking: two creatures in rooms of 3 and 2 tiles, 2 slots; sweep: 2 mobiles, classes 1, 4 and 7, records placed 0 and 3 ahead, steps 1 and 4; pass: 3 mobiles | 151,594 |
| `search` | *violation*: a goal within reach is not found | as `creatures` | |
| `objects` | are the chains a forest, does nothing vanish, does the pack travel whole; does the panel show the pack; are weights exact; do clicks call the region they hit; does the game go by what works on the player, and does each spell last as cast | world: 2 + 2 records, 3 things and 1 new, 2 tiles; panel: a box in a box, a stack of 3, 3 slots, 2 cells; regions: the real table of 128, 7 fixed, 6 returns, 1 toggle, 1 redraw; player: a torch of 2 units with a taper that lasts or with a ring, one slot for lights, 3 kinds of spell, 2 at a time, haze up to 2 | 285,252 |
| `bindings_full` | *violation*: a click calls the wrong handler | the real table of 128, 19 returns to the dungeon | |
| `output` | do the callbacks read live, whole buffers; is what is heard current; do slots and pictures come back; is every row of a message on the screen until it is read; is the table of answers what the screen shows | 2 tracks, 3 buffers; 2 voices, 2 samples; 2 lines; 2 slots, 3 channels; panels of 3 rows, menus of 1 to 4 answers | 86,880 |
| `dos_effects` | *violation*: a channel is lost between the threads | 2 slots, 2 channels | |
| `session` | does every entry read back, also after a crash; is a saved slot, and a running game, one game; do triggers lead to traps and traps count them; do scripts find their variables and compute what their source says | a map and two pages of notes, two archives to start from and to load, 4 writes; 2 games, 2 levels, 1 slot; 2 or 3 triggers, 2 traps, a box, 2 tiles, up to 2 free records; 2 creatures, 3 talks, 2 records of 3 and 4 words | 1,321,395 |
| `session_title` | *violation*: the level in memory is not the one the game is on | 2 games, 2 levels, 1 slot | |

Why the bounds are enough.  The arena of 3 + 3 slots reaches every mixture of
empty, partly full and full stacks, a list whose first, middle or last entry is
removed, and a collection that fails, that frees the wrong pool, and that frees
more than one tree.  Three entries for four animated objects make the table full
with doors alone, effects alone and both; removal at the first, middle and last
index occurs, and so does an entry moved behind the tick's index.  The swing
times 4 and 5 are all the code has.  The ring of 16 is the code's; classes 1 and
7 are the extremes of their range (1 to 4, 6 and 7 occur), leads 0 and 3 of theirs, steps
1 and 4 of the ordinary ones.  The phases 0 and 9 of loaded creatures stand for a
fresh and a stale one: objects with a phase of their own are excused from `NobodyLate`
until their first tick anyway.  Two mobiles suffice for the one visited to go or to
be put behind the other; that a removal moves a third past the index, and steps of
five, are left to the proof, which holds for any number of mobiles.  The settling
pass has three.

A grid of 2 by 3 has levels with two ways of different and of equal length, ways
round a wall, unreachable tiles, and tiles two parents compete for; 31 layers are
the code's.  Two creatures and two
slots fill the mask; one creature has a room where it can go straight and one
where it cannot.  In the world of 2 + 2 records both pools run empty with every
kind of object in hand, flying, carried and inside the bag, and the collector has
a choice.  The box in the box gives the panel two open containers and one closed
one with contents; a stack of 3 can be split twice; 3 contents and 2 cells make
the grid scroll.  Two places and two stacks let a coin be merged, swapped, split
and offered beside another; the box is what nothing can be dropped on and what the
creature does not take.  Six returns with a toggle and a redraw between them move
every region of the table at least once.  Two spells at a time let one end before,
with and after another and fill the list; a torch of two units burns down once
and out, a taper that never does lies burning on the floor and is taken up again, and
the two compete for one slot (the game has four slots for lights and two for rings).

Each audio thread has two of everything it chooses among, and one buffer more than can be in use.  The archive's entries
are of fixed and of variable length, before and behind the one that grows; an archive
without the second page of notes and one that begins with it are there to start from
and to load; four writes rebuild the file, rebuild the rebuilt file, and crash in either.

Three triggers on two traps make a trap with one, two and three of them, in a tile
and in the box, before and behind each other; the worlds to begin with are all
that count right and have no circle.  In most no record is free until a trap or a box
has gone.  Where a template lies in a create-object trap there is also one free record,
which is too few for the copy of what is in it, or two, with two triggers, so that the
copy succeeds, a trap has a trigger it was not told of, and goes while it has; a rune of
warding takes two records as well.  Three rows fill a panel with one message and
overfill it with two, and four answers overfill it with a menu.  A record shorter
and one longer than a script's variables, two scripts that share an id or do not
and three talks let one script be loaded again after another has written; the
scripts use every opcode.

Symmetry is used only in `arena`, which has no liveness property, over coins that
neither the specification nor the properties distinguish.

What the passing properties say, beyond the comment each carries in its module:

- `TableExact` is the property the rest of the scheduler rests on: an effect with
  two entries would be freed twice, a door with none never stops.  It excepts the
  objects whose add was refused (`stranded`): `schedule_door_open_animation`
  ignores a full table.
- `SwingInStep` is why a swing ends on its last frame.  It needs steps of one:
  with 4 the frame runs ahead of the delay.  With either,
  `RestingDoorsTurned` still holds, because the final commit fixes the direction.
- `NobodyLate` bounds the wait by 7 units for all objects but `excused` ones, a
  history variable that names the three ways to get out of step: a phase that
  comes from a file or a creation, being moved behind the index by a removal, and
  a sweep of five units (`object_tick_is_due` looks back four).
- `PassReachesAll` has the same form: everything but what a removal took past the
  index (a creature of a trap that is taken away under the pass).
- `PanelShowsPack`, `WeightsAreExact`, `PricesAreCurrent`, `SlotsAccountedFor`,
  `PathsLeadToTarget`, `TableMatchesScreen`, `EffectsAreCurrent` and `CountsAreTriggers`
  relate a copy to what it was copied from.  Where the code
  lets a copy go stale, the history variable that excuses it (`drift`, `taken`,
  `leaked`, `stale`) is written by that handler alone, so everything else is held
  to the exact relation: of what works on the player only the light may lag, and a
  trap's count is wrong by exactly its `drift`.
- `SavedSlotIsOneGame` survives everything but a save over the slot;
  `SessionIsOneGame` needs that no load has broken off before (`spoiled`): a load
  that fails over a running game has already overwritten part of `\SAVE0`.

## 5. Fairness

`FairSpec` of `EffectScheduler` has weak fairness of `BeginTick(1)` and of the
visits: `movement_pacing_handler` calls `scheduler_tick(1)` in every game frame,
and the loop inside runs to its end with nothing interleaved.  Steps of four
come from quest events and one spell and are not fair; neither are commands,
spawns, saves or anything the environment decides.  `DoorsSettle` assumes that
commands and obstacles stop at some time, for a door may be thrown back for ever.

`Fairness` of `MobileTick` is weak fairness of beginning a sweep and of visits,
for the same reason.  What happens in the middle of a tick (`ThrowObject`,
`FreeOther`) is not fair and is disabled in the end by the number of records.
The spell that stops time only delays sweeps.  `EverybodyTicked` is checked with
steps of 1 and 4 units; a step of five could miss the same object each time and
nothing in the code rules that out in principle.  `MCSpec` of `MCCreatures` has these
conditions (`Fairness`) for the behaviours in which the sweep runs; `SweptAreTicked`
is `EverybodyTicked` there.

`VoiceLine` has weak fairness of the callback (SDL keeps asking for samples) and
of the game thread's steps, strong fairness of the steps that need the device
lock: the callback takes it again and again but lets go each time, and SDL's lock
is not held across callbacks.  Skipping a line by the player is not fair.
`DosEffects` has weak fairness of the driver's tick and of the game thread's
steps; neither thread waits for the other there.

## 6. Proofs

`ObjectArenaProofs` (assumption `ArenaAssumption`: at least one mobile slot, at
least one static slot, a positive limit for the collector) proves for arenas of
every size:

- `ArenaTypes`, `FreeStacksAreExact`, `ActiveListIsExact`.  `ArenaInv` is
  `TypeOK` with the two exactness properties and is inductive.  The types alone
  are not: that a push does not run out of its array needs the stack to be
  distinct and disjoint from `live`, for then it has room for the slot freed
  (`ArrayBound` is the counting lemma, by cardinality of an injection into an
  interval).  In the same way appending to the active list needs the list to be
  exact.
- `RefusalMeansFull`: an action property from the same invariant.
- `ArenaImplementsSlotPool`: the initial state maps to the initial state and
  every step to a step of `SlotPool` or a stutter, again using `ArenaInv`.

`EffectSchedulerProofs` (`SchedulerAssumption`) proves for every number of doors,
effects and entries and either value of flag `0x80`:

- `SchedulerTypes`, `DoorsAreExact` and `RestingDoorsAreTurned` whatever the
  collector takes and however many ticks a step has.  The inductive invariant
  `TableInv` speaks of the *sure* objects, those whose entries nobody leaves
  behind: all of them where the collector spares effects, the doors elsewhere.  It
  adds that stranded objects are animated (in `Owned`): without it an object
  discarded and spawned again would look stranded.
- `TableIsExact` under `Collectable = {}`.  Without it the theorem is false, as
  `scheduler_stale` shows.
- `SwingsAreInStep` and `DoorsReverseOnlyWhenBlocked` under `Elapsed \subseteq {1}`,
  the ordinary call in each game frame.  With steps of four both are false (section
  7), so the hypothesis is part of the statement.  `SwingInv` adds to `TableInv` that
  a door at rest is turned and that no tick arms a door's entry again.

The parts of the invariant about the table are grouped (`TableTypes` and those
after it) so that each operation of `EffectQueue` has one lemma (`AddKeeps`,
`RemoveKeeps`, `RelinkKeeps`, `LoadKeeps`) that all actions using it cite.

`ActiveListProofs` (`MobileAssumption`: classes 1 to 7, leads 0 to 3, steps of 1 to
5) proves for any set of mobile records:

- `NobodyIsLate`.  The property is about the time between sweeps; what makes it
  inductive is where objects stand during one.  `DueIsAhead` says that who is not on
  time (more than 7 units ahead on the ring) is due and is either the object being
  visited or behind the index, and `Placed` that the object visited is at the index
  unless it has been put to the end of the list and is not due again.  The lemmas
  on `Without`, `Overtaken` and the modular comparison of phases are shared by all
  actions.
- `PassReachesEverybody`, the action property `PassReachesAll`: when the pass ends
  everybody has been reached, by the invariant that all before the index have been
  and none behind it (`AtIndex`, `BeforeIndex`).

`AudioProofs` proves about `Audio`, so for all backends running at once,
`AudioBuffersAreLive` and `CurrentIsHeard`, for any tracks, lines, samples, voices
and buffers; the first supposes that `Null` is no buffer and `MixerHypothesis`:
voices are numbered from 0, samples have lengths.  There is an invariant per
device.  `BufferInv` and `VoiceInv` say which buffers are allocated at each step of
the game thread's loading, and that what the callback reads is what is loaded, for
that changes only while the callback does not hold the lock; `MixInv` which
fields of a voice are written already.  `TrackInv` says that past the loading the
file that is loaded is the one asked for, or could not be read.  `StepOfOneDevice`
joins them: a step of the whole is a step of one device and none of the others.

`SaveSlotsProofs` (`SlotsHypothesis`: slots are numbered from 1, there is a level 1)
proves `SavedSlotsAreOneGame` and `SessionsAreOneGame` for any slots, levels and
playthroughs.  The files are copied in a fixed order, so the state of a copy is the
suffix of files still to come; `FilesCopied` says that as long as every copy
succeeded, the files before that suffix are the source's.  `SlotWritten` is what
keeps a crash harmless: a slot under a save is no saved game while it is written,
and a load has marked the session `spoiled` before its first file lands.

Its second half proves `EntriesAreReadBack`, about the file of levels in a directory
(`LevelArchive`), for any entries and lengths and as many writes and crashes as there
may be.  `ArchiveHypothesis` says of the archives that come from outside that their
offsets are distinct and inside the file, and of the entries written through the copied
handle, the maps, that they have one length each, which is not 0; without that the
copied flag would lose a table.  `LaidOut` relates a table, a file and what the entries
are to contain: every entry's cells lie at its offset, and the next entry, or the end of
the file, comes right behind them.  That reading follows from it needs the least of a set
of distances (`ExtentIsLeast`, by the well-foundedness of `<` on the numbers); that
appending, overwriting and cutting out keep it are the lemmas on the four writes.
`ArchiveInv` says which file is laid out under which table in which phase: the archive
under the table in memory while it is open, which is the file's own unless it is `dirty`;
`_arc.tmp` under the moved table from the copying on; the archive again when it has been
restored.  What lies beyond the new data in `_arc.tmp` is nothing, for that file is always
empty when a rewrite begins: a session that was interrupted leaves it full, but what is
opened first after a load only reads, and closing deletes it.

`WalkPathsProofs` proves three things.  `SearchesFindNextDoor`, for any set of levels
(`LevelsAssumption`: the border is rock, passages lead to neighbours), any number of layers
and any sequence of searches: a search finds the goal when it is next door and nothing
else.  `Begun` says what the tree is while the start is looked around from
(`LookFromStart`, `FirstLayer`); the tile looked around from after that lies in row 0, from
which no passage leads (`RockEnds`), so the second layer is empty, no further one is
different (`SearchSettles`) and the kept row stays 0.  The layers are a recursive function:
its values are got from the least layer that would be otherwise (`FirstFailure`).

`SlotsAreAccountedFor` (`SlotsHypothesis`: finitely many creatures, slots are numbers).
`AbsentHaveNone`, that a record not in use holds no slot, is needed to make it
inductive: a creature made in a reused record would otherwise start with another
one's slot.  `LowestIsFree` says that the slot `npc_walk_toward_tile` takes from the
mask is one of its free ones.

`PathsAreCurrent` (`RouteHypothesis`: the level is one that searches can rely on, and rooms
and goals lie in it) joins the two.  What the search finds is one step, so a path is being
begun or is at its end (`OnWay`), and `Leads` says to where; `RouteInv` is that for
everybody, with the invariant of the slots.  In the middle of a tick it holds of all but the
creature that moves (`Moving`), whose own path may lead elsewhere until it is given up
(`Bound`); every helper of `npc_walk_toward_tile` has a lemma in those terms, and the
ticks are their composition.

`ResponseMenuProofs` (`MenuHypothesis`: a panel of at least two rows, texts whose
rows say of themselves whether another follows) proves `EveryRowIsRead` for any
texts and menus.  The loop counts a budget of rows that may be scrolled; `Budgeted`
is what it counts, the rows that stand above the first unread one.  The property
excludes messages begun beside other text, and messages that ask by themselves, as the
run does (section 7).

`TableIsTheScreen` is `TableMatchesScreen` for panels of 2 to 10 rows, the table's length,
and any menus of answers of a row or more (`AnswersHypothesis`).  The property speaks of
menus that fit the panel, those that have a layout: the row each answer ends on.  The
invariant `MenuInv` says of any layout of the menu (`Fitted`) that the answers printed so far
have their rows in the table (`TableInv`) and, as long as the list is being drawn or kept,
on the panel (`PanelInv`), the one in print as far as it has come; and that the answers are
printed in their order with nothing between them (`ListInv`).  `RowOfOneAnswer` and
`RowOfSomeAnswer`, by least counterexamples, take the place of adding rows up.

`BindingsProofs` (`BindingsHypothesis`: the handler table has an entry for every
region that the allowed returns and drawings of the map can leave) proves
`BindingsAreExact`.  At the code's length of 128 and seven fixed regions that
allows eighteen returns to the dungeon; the nineteenth is what `bindings_full`
refutes, so the hypothesis cannot be weaker.  The argument looks at the table as a set of regions
(`On`), which registering and unregistering change in the obvious way however
regions are moved about; `Sound` keeps the two tables in step and the ids distinct.
`Saved` is the strengthening: the id saved for the view is the view's and no
other's, and nothing but notes has the id of the notes, stale or not, so that
leaving a map that was never drawn takes nothing else away.

Hypotheses on constants that no module declares as an assumption stand in the
theorems; each holds in the program and in the instances TLC runs.

Only model-checked, and why:

- liveness (`EffectsExpire`, `DoorsSettle`, `SweepsEnd`, `SweptAreTicked`,
  `PicturesAreReleased`, `SlotsComeBack`): needs fairness and ENABLED;
- what a fold or a recursive function computes for every input, which needs
  induction over data: `EvaluatesAsWritten`, `PricesAreCurrent` and
  `GoodsAccountedFor` (goods are folded over), `WeightsAreExact`,
  `EffectsAreCurrent` (light is folded over the spells), `SpellsLastAsCast`;
- the modules whose operators are RECURSIVE (`ObjectWorld`, `TrapChains`,
  `BablScripts`) and what reaches them: `WorldIsForest`, `NothingVanishes`,
  `BreaksOnlyAfterSweep`, `InventoryTravelsWhole`, `TriggersLeadToTraps`,
  `CountsAreTriggers`;
- still to be tried: `PanelShowsPack`, `MemoryOfLastTalk`.

## 7. Where code and documents disagree

| run | the code | what is said |
|---|---|---|
| `scheduler_stale` | `despawn_objects_outside_radius` (`objects.c:1167`) frees an effect object and leaves its entry, whose link still resolves to the freed record | "A stale queue entry resolves to NULL here too" (`scheduler.c:290`) |
| `dos_effects` | `audio.c:1040` and `audio.c:883` start and stop DOS effects without the device's lock, which the callback's timer holds: both release one slot | "The audio device's lock, for callers that must mutate state the audio callback also touches" (`src/headers/platform_music.h:36`) |
| `session_title` | `journey_onward_load_slot_menu` loads level 1 (`saveload.c:253`) though `load_player_save_record` has set the level from the record (`player.c:884`) | "DAT_00201b68 (current level) isn't meaningfully set yet at a fresh title screen" (`saveload.c:250`) |
| `search` | `creature_find_path_to_tile` writes the rows of its first layer to one array (`ai.c:355`) and reads them from another (`ai.c:373`): it looks on from the rock of row 0 and finds only goals next door | "Pathing is a breadth-first search (`creature_find_path_to_tile`, capped at 0x1f steps) with straight-line shortcuts first." (`src/code-analysis.md:388`) |
| `bindings_full` | every return to the dungeon registers six more regions (`hud.c:691`), the handler table ends at 128 and the region table does not | "`poll_input_bindings` scans click regions from last registered to first and calls the first whose rectangle and mode mask match" (`src/code-analysis.md:577`) |

Noticed while reading, not shown by a run of its own:

- `schedule_door_open_animation` (`doors.c:268`) turns the door into `0x1cf` and
  ignores the -1 of a full table: the door never stops and no command brings it
  back (`src/code-analysis.md:336` has it "owned by the scheduler").
- `scheduler_tick(4)` steps the 4-bit counter past the end of a swing, which flips
  the direction bit (`scheduler.c:336`; `src/code-analysis.md:330`: "Otherwise it
  commits the final state").
- A creature of a trap leaves the list under the settling pass, the last entry
  takes its index and is passed over (`ai.c:3582`; `ai.c:3561`: "settles each
  non-NPC mobile object").
- The sound `0xc` of a blocked door is played on the *unblocked* path
  (`scheduler.c:151`); the comment at `doors.c:104` calls a toggle of a moving door
  a no-op, but it reverses a door that was opening; `src/code-analysis.md` counts
  766 static records where the code has 768.
- Backpack: `close_backpack_container` leaves cells filled that are shown again
  when a container is opened; `reduce_object_count` in a closed container reads a
  null container and takes the whole stack's weight off; `auto_place_in_container`
  through the slot of an open container does not raise its recorded weight;
  `deplete_object_count(-1)` leaves one too many.  A container three deep cannot be
  opened while its root is in a slot that is always shown.
- Barter: `pick_up_barter_slot_item` reads a count at the wrong word, so splitting
  a slot's stack is meaningless; the builtin `end_barter` leaves slots filled and
  leaving the conversation puts the same things down again; `take_from_npc` resets
  the wrong cache, so the player's offer keeps the price of what lay there before;
  a mark stays with the slot when `setup_to_barter` replaces the thing; `place_object`
  takes the thing from the creature (`babl.c:731`) before it looks for room, and when
  there is no such tile or no room (`babl.c:745`, `babl.c:750`) leaves it in no chain.
- Click regions: the stats panel registers six regions at each return because the
  exit handler of mode 0 is disabled (`game.c:64`) and
  `unregister_stats_panel_click_regions` has no caller.  A redraw of the map in
  mode 1 enters it again and leaves the old note region; compaction breaks the
  order "last registered first".
- Paths: a slot leaks when a creature is freed without its own tick;
  `npc_set_walk_target` in a tick that does not walk leaves the old path; the
  search's second frontier (`ai.c:62`) is declared as one byte, `local_50` counts
  tiles and directions both (`ai.c:377`), and a layer can hold 66 tiles where 64 fit: none
  of it shows as long as no search has a second layer.
- Saves: a load that fails over a running game leaves `\SAVE0` overwritten, and an
  interrupted save leaves a slot of two games that loads without complaint;
  `src/code-analysis.md:733` describes the copying differently.
  `write_level_tilemap_to_archive` works on a copied handle, which is harmless only
  because the map's entry has a fixed length.
- `audio.c` 1893 to 5127 is a decompiled module player that nothing calls.
- Messages: one begun beside other text, or on an empty panel, loses its first row
  without a [MORE], because the budget counts the rows above only (`hud.c:1962`);
  an explicit `\m` scrolls a row away before it asks; a menu taller than its
  panel of five rows leaves the table of answers behind what is shown.
- Menus: a click on an answer takes its row from byte 4 of the input state
  (`babl.c:5306`), where `poll_input_bindings` puts 1 (`input.c:532`), so nothing is
  chosen though `babl.c:5296` has a click resolved; `demos/demo_talk_select.txt`
  found the same.  With the digits 1 to 4 only (`game.c:780`) a fifth answer
  cannot be chosen.
- Conversations: a script can set the friend flag `0x40` of a creature but never
  clear it, so a lower attitude it sets is not what it reads in the next talk; the
  attitude 0 that a creature on the hunt shows is written back as its own;
  `babl_get_variable` of a name the script does not import leaves what was there;
  variables of a script without a record begin with what `malloc` left;
  `remove_talker` frees the record that the end of the talk then writes to.
- Player: sight cast to roam while the list of spells is full roams without an end,
  because `spells.c:735` ignores that `add_active_light_source` refused; sleeping
  (`player.c:2474`) or a sapling (`doors.c:235`) ends the spell and leaves the view
  away; leaving the prompt of the pole leaves its long reach; a burning torch that
  is put in a bag held in a hand keeps its light until the next refresh
  (`item_use.c:3108`); `item_use.c:293` and `ai.c:1399` put out lights of types 4 to
  6 where the refresh counts 4 to 7, so a taper burns on where it falls, and one that is
  taken up from there (`item_use.c:154`) gives no light until the next refresh; a worn thing whose charge is spent works by
  chance at each refresh.
- Triggers: `purge_tagged_objects_from_chain` stops at the first record it takes
  out, because unlinking clears its next word (`interact.c:538` has "for each
  entry"), so triggers behind it stay and name a freed record; disarming frees the
  head of the container's chain, which need not be the trap (`interact.c:427`);
  `free_linked_object_recursive` leaves what is behind a trap; a create-object trap
  that finds no room empties its template, and one whose second allocation fails
  shares the template's contents; the clean-up of a milestone (`traps.c:1253`)
  and delete traps take triggers without telling the trap.

## 8. What is abstracted and what is not modelled

- The game's data files are not in the repository.  From `OBJECTS.DAT` the models
  take as assumptions that flag `0x20` (free the object when its entry ends) is
  set for effects and not for doors; flag `0x80` of the moving door is the
  constant `CatchUp`, `TRUE` in the runs and either in the theorems.  Level files
  may hold creature templates off the active list; the arena starts from a reset
  instead.
- Not in the models: an entry's tile, a door's height, sounds and frames of
  effects; the camera branch of `free_object_slot` (`objects.c:228`); entries of
  link 0, which no caller adds; in `MobileTick`, which of a creature's goals it
  follows, and the optional fixed-rate physics (`--physics-fps`).
- `arena` saves and loads nothing: `saveload.c` and `level.c` write counts, stacks
  and list as they are.
- `ObjectWorld`: the collector's choice is any subset of what is far; the order in
  which a pool hands out records is `ObjectArena`'s; stacks, trap-class objects and
  what a record holds besides its words are left out; the model stops at the first
  broken write.
- `Backpack`: combining things, runes, what a slot accepts and what using a thing
  does.  `Barter`: prices themselves, judgement texts, the culling of the creature's
  things by chance, `add_to_npc_inv` and `remove_talker`, the creature's own price
  cache (reset only when bartering starts).  `Bindings`: keys, the event queue, and
  where exactly regions lie.
- `PathSearch`: line of sight to the goal and the box of the search are part of the
  given passages; the frontier is unbounded.  `WalkPaths`: the movement between two
  tiles; why a creature walks.
- Audio: volumes, panning, resampling, the sequencer's contents.
- Saves: the contents of a level's records; the special state of level 9; a slot's file
  that exists and cannot be read is taken for one that is missing.
- `TrapChains`: which effect a trap has on the player or the map; which triggers
  suit which occasion (disarming takes every trap that only goes on to its link for one
  that hurts or sends away); locks that are locked again; hazards spawned; the timing of
  chance (one value for a handler).
- `MessageScroll`: where rows break, colours, the line editor on the scroll.
- `PlayerEffects`: what an effect does once it works, charges of rings, hunger, poison,
  damage, drowning; which of the lights flickers; the flight of a thing that is thrown,
  which lands at once.
- `Conversation`: of about fifty game functions only menus and quest flags (the
  goods are in `Barter`), string words, the texts themselves; the few creatures that
  refuse to talk whatever their script.
- Rendering, text and resource decoding, the rest of the heads-up display and support code are
  functions of data or pure output and are left aside; so is the arithmetic of
  character statistics.
