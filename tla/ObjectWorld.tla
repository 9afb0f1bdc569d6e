---------------------------- MODULE ObjectWorld ----------------------------
(***************************************************************************)
(* The object records of a level and the words that chain them (objects.c, *)
(* ai.c, item_use.c): every tile heads a chain of objects, an object has a *)
(* next word and, when it is a container, a link word that heads its       *)
(* contents; the link word of the player's record heads what he carries.   *)
(*                                                                         *)
(* An object lies in a static record, flies or falls in a mobile one, and  *)
(* is copied from one to the other when it starts to move and when it      *)
(* comes to rest; the old record is freed.  When a pool is empty, the      *)
(* allocator destroys objects far from the player to find a record.        *)
(*                                                                         *)
(* Operators take a world and return one, or the set of worlds that chance *)
(* can lead to.  The order in which a pool hands out its records is        *)
(* ObjectArena's matter: here it is the least free one.                    *)
(***************************************************************************)
EXTENDS Integers, Sequences, FiniteSets, FiniteSetsExt, TLC

CONSTANTS
  MobileSlots,  \* records of 0x1b bytes (DAT_002046b8)
  StaticSlots,  \* records of 8 bytes (DAT_002046c4)
  Tiles,        \* the player stands near one, the others are far
  Start,        \* what the records hold at first: identities, to follow a copy
  Bags,         \* the things that are containers
  Rock          \* an object that a new level brings

Null == 0
Nothing == "nothing"  \* in a free record
Things == {Start[i] : i \in DOMAIN Start}
Pack == <<"pack", 0>>  \* the link word of the player's record (g_player_object + 6)
Local == <<"local", 0>>  \* a link word on the stack of discard_misplaced_object
Off == <<"off", 0>>    \* no tile: tilemap_lookup returns NULL
Slots == MobileSlots \cup StaticSlots

NextOf(o) == <<"next", o>>
LinkOf(o) == <<"link", o>>
Heads == Tiles \cup {Pack, Local}
Fields == Heads \cup {NextOf(o) : o \in Slots} \cup {LinkOf(o) : o \in Slots}

VARIABLES
  world,  \* word: the link words; what: the things in the records; free: the
          \* records of the free stacks; broken: the first write through a null
          \* pointer or second free, after which nothing is known; swept: the
          \* collector has run in this handler; doomed: what was destroyed or
          \* left behind on purpose
  held,   \* the object on the cursor (g_selected_object)
  there   \* the tile the player stands on

vars == <<world, held, there>>

----------------------------------------------------------------------------
(* Chains (objects.c).                                                     *)

\* The words that a walk along the chain from field f reads.
ChainFields(w, f) ==
  LET walk[n \in 0 .. Cardinality(Slots)] ==
        IF n = 0 THEN {f}
        ELSE LET seen == walk[n - 1]
             IN  seen \cup {NextOf(w.word[g]) : g \in {h \in seen : w.word[h] # Null}}
  IN  walk[Cardinality(Slots)]

Chain(w, f) == {w.word[g] : g \in ChainFields(w, f)} \ {Null}

\* The objects that free_linked_object_recursive reaches from field f.
Tree(w, f) ==
  LET grow[n \in 0 .. Cardinality(Slots)] ==
        IF n = 0 THEN {w.word[f]} \ {Null}
        ELSE LET seen == grow[n - 1]
             IN  seen \cup (UNION {{w.word[NextOf(o)], w.word[LinkOf(o)]} : o \in seen} \ {Null})
  IN  grow[Cardinality(Slots)]

TileOf(w, o) == IF \E t \in Tiles : o \in Chain(w, t)
                THEN CHOOSE t \in Tiles : o \in Chain(w, t) ELSE Off

\* Words are written; the first of two values for one word counts.
Write(w, words) == [w EXCEPT !.word = words @@ w.word]

InsertHead(w, f, o) == Write(w, f :> o @@ NextOf(o) :> w.word[f])

AppendTail(w, f, o) ==
  LET tail == CHOOSE g \in ChainFields(w, f) : w.word[g] = Null
  IN  Write(w, tail :> o @@ NextOf(o) :> Null)

\* Mutant: the object's next word is written to the head of the chain.
UnlinkCutsHead(w, f, o) ==
  IF o \notin Chain(w, f) THEN w
  ELSE Write(w, NextOf(o) :> Null @@ f :> w.word[NextOf(o)])

\* object_list_unlink: an object that is not in the chain is left as it is.
Unlink(w, f, o) ==
  IF o \notin Chain(w, f) THEN w
  ELSE LET g == CHOOSE h \in ChainFields(w, f) : w.word[h] = o
       IN  Write(w, NextOf(o) :> Null @@ g :> w.word[NextOf(o)])

Break(w, how) == IF w.broken = "no" THEN [w EXCEPT !.broken = how] ELSE w

\* free_object_slot.  A freed record keeps its bytes, which nobody reads before it
\* is granted again: they are cleared here to have fewer states.
FreeSlot(w, o) ==
  IF o \in w.free THEN Break(w, "freed twice")
  ELSE Write([w EXCEPT !.free = @ \cup {o}, !.what[o] = Nothing],
             NextOf(o) :> Null @@ LinkOf(o) :> Null)

Doom(w, objects) == [w EXCEPT !.doomed = @ \cup {w.what[o] : o \in objects}]

\* free_linked_object_recursive: the object at f, those behind it, all contents.
FreeChain(w, f) ==
  LET dead == Tree(w, f)
      cut == {f} \cup {NextOf(o) : o \in dead} \cup {LinkOf(o) : o \in dead}
  IN  FoldSet(LAMBDA o, acc : FreeSlot(acc, o), Write(w, [g \in cut |-> Null]), dead)

\* unlink_and_free_object
UnlinkAndFree(w, f, o) == FreeSlot(Unlink(FreeChain(w, LinkOf(o)), f, o), o)

Destroy(w, f, o) == UnlinkAndFree(Doom(w, {o} \cup Tree(w, LinkOf(o))), f, o)

----------------------------------------------------------------------------
(* The allocator and its collector (objects.c).                            *)

Pool(region) == IF region = "mobile" THEN MobileSlots ELSE StaticSlots

\* despawn_objects_outside_radius: any of the objects on far tiles.
Sweep(w, near) ==
  LET swept == [w EXCEPT !.swept = TRUE]
      roots == UNION {Chain(w, t) : t \in Tiles \ {near}}
  IN  {FoldSet(LAMBDA o, acc : Destroy(acc, TileOf(w, o), o), swept, dead) : dead \in SUBSET roots}

Grant(w, region) ==
  LET ready == w.free \cap Pool(region)
  IN  IF ready = {} THEN [slot |-> Null, world |-> w]
      ELSE [slot |-> Min(ready), world |-> [w EXCEPT !.free = @ \ {Min(ready)}]]

\* alloc_object_slot: the outcomes, each a record and a world.
Alloc(w, near, region) ==
  IF w.free \cap Pool(region) # {} THEN {Grant(w, region)}
  ELSE {Grant(swept, region) : swept \in Sweep(w, near)}

\* The header words of a record are copied to another.
CopyHeader(w, from, to) ==
  Write([w EXCEPT !.what[to] = w.what[from]],
        NextOf(to) :> w.word[NextOf(from)] @@ LinkOf(to) :> w.word[LinkOf(from)])

----------------------------------------------------------------------------
(* Coming to rest and starting to move (objects.c, ai.c).                  *)

\* Mutant: the old record is freed with what the new one now contains.
ReallocateFreesContents(w, near, o, t, canBeNull) ==
  {IF got.slot = Null THEN IF canBeNull THEN got.world ELSE Break(got.world, "null write")
   ELSE InsertHead(UnlinkAndFree(CopyHeader(got.world, o, got.slot), t, o), t, got.slot)
     : got \in Alloc(w, near, "mobile")}

\* reallocate_object_to_arena; most callers write to the result unseen.
Reallocate(w, near, o, t, canBeNull) ==
  {IF got.slot = Null THEN IF canBeNull THEN got.world ELSE Break(got.world, "null write")
   ELSE InsertHead(FreeSlot(Unlink(CopyHeader(got.world, o, got.slot), t, o), o), t, got.slot)
     : got \in Alloc(w, near, "mobile")}

\* settle_dropped_object: the object lies still, is lost (water, lava, a place it
\* does not fit) if chance has it, or falls.  DAT_002046d4 and force decide
\* whether the new record is written to.
SettleDropped(w, near, o, t, forced) ==
  {w, Destroy(w, t, o)}
    \cup UNION {Reallocate(w, near, o, t, canBeNull) : canBeNull \in {FALSE, ~forced}}

\* The rest of settle_mobile_to_immobile once it has a static record: contents
\* move (header->link = 0), the mobile record is discarded, the copy is put in the tile.
MoveToStatic(w, o, t, s) ==
  LET copied == CopyHeader(w, o, s)
      emptied == Write(copied, LinkOf(o) :> Null)
  IN  InsertHead(UnlinkAndFree(emptied, t, o), t, s)

\* settle_mobile_to_immobile: the outcomes, each the static object (or none) and a
\* world.  Chance, or a full pool, destroys the object; so does a place off the
\* map.  What explodes on landing (activate_area_hazard_object) may go as well.
SettleMobile(w, near, o, t) ==
  IF t = Off
  THEN LET loose == Doom(Write(w, Local :> o), {o} \cup Tree(w, LinkOf(o)))
       IN  {[slot |-> Null, world |-> FreeChain(loose, Local)]}
  ELSE LET landed == {IF got.slot = Null
                      THEN [slot |-> Null, world |-> Destroy(got.world, t, o)]
                      ELSE [slot |-> got.slot, world |-> MoveToStatic(got.world, o, t, got.slot)]
                        : got \in Alloc(w, near, "static")}
           exploded == {[slot |-> Null, world |-> Destroy(r.world, t, r.slot)]
                          : r \in {l \in landed : l.slot # Null /\ l.world.broken = "no"}}
       IN  {[slot |-> Null, world |-> Destroy(w, t, o)]} \cup landed \cup exploded

\* sync_object_tile_position: the object crosses into another tile.
Cross(w, o, t) ==
  LET from == TileOf(w, o)
      out == IF from = Off THEN w ELSE Unlink(w, from, o)
  IN  IF t = from THEN w ELSE IF t = Off THEN out ELSE InsertHead(out, t, o)

\* find_object_placement, and what its callers do when it finds no place.
\* destructible: the caller may destroy the object instead (place_object_in_world).
Place(w, near, o, t, destructible) ==
  UNION {SettleDropped(AppendTail(w, found, o), near, o, found, TRUE) : found \in Tiles}
    \cup {InsertHead(w, t, o)}
    \cup (IF destructible THEN {Destroy(w, Local, o)} ELSE {})

----------------------------------------------------------------------------
(* A carried chain through the save record (inventory.c, player.c).        *)

RECURSIVE Serialize(_, _)
\* serialize_inventory_link_chain
Serialize(w, f) ==
  LET o == w.word[f]
  IN  IF o = Null THEN <<>>
      ELSE <<[what |-> w.what[o], inside |-> Serialize(w, LinkOf(o))]>>
             \o Serialize(w, NextOf(o))

RECURSIVE Deserialize(_, _, _, _)
\* Mutant: the call for what is inside has lost an argument.
DeserializeFlat(w, near, f, records) ==
  IF records = <<>> THEN {w}
  ELSE UNION {
         IF got.slot = Null THEN {Break(got.world, "null write")}
         ELSE LET s == got.slot
                  here == Write([got.world EXCEPT !.what[s] = Head(records).what],
                                f :> s @@ NextOf(s) :> Null @@ LinkOf(s) :> Null)
              IN  Deserialize(here, near, NextOf(s), Tail(records))
           : got \in Alloc(w, near, "static")}

\* deserialize_inventory_link_chain: the result of the allocator is not checked.
Deserialize(w, near, f, records) ==
  IF records = <<>> THEN {w}
  ELSE UNION {
         IF got.slot = Null THEN {Break(got.world, "null write")}
         ELSE LET s == got.slot
                  here == Write([got.world EXCEPT !.what[s] = Head(records).what],
                                f :> s @@ NextOf(s) :> Null @@ LinkOf(s) :> Null)
              IN  UNION {IF within.broken # "no" THEN {within}
                         ELSE Deserialize(within, near, NextOf(s), Tail(records))
                           : within \in Deserialize(here, near, LinkOf(s), Head(records).inside)}
           : got \in Alloc(w, near, "static")}

\* What he carries and what is on the cursor, as the save record keeps it.
SaveRecord(w, h) ==
  [pack |-> Serialize(w, Pack),
   hand |-> IF h = Null THEN <<>>
            ELSE <<[what |-> w.what[h], inside |-> Serialize(w, LinkOf(h))]>>]

\* build_player_save_record frees the object on the cursor, its successors and
\* its contents; free_player_inventory_chain frees the rest.
Strip(w, h) ==
  FreeChain(FreeChain(Write(w, Local :> h), Local), Pack)

\* restore_player_save_record: the worlds, with the object on the cursor in Local.
Restore(w, near, record) ==
  UNION {IF packed.broken # "no" THEN {packed} ELSE Deserialize(packed, near, Local, record.hand)
           : packed \in Deserialize(w, near, Pack, record.pack)}

\* load_level: the arena of a level nobody has seen, with an object on tile t.
NewLevel(w, t) ==
  LET s == Max(StaticSlots)
      left == {w.what[o] : o \in Slots \ w.free}
  IN  [w EXCEPT !.word = [f \in Fields |-> IF f = t THEN s ELSE Null],
                !.what = [o \in Slots |-> IF o = s THEN Rock ELSE Nothing],
                !.free = Slots \ {s},
                !.doomed = @ \cup left]

----------------------------------------------------------------------------
(* What happens to objects.                                                *)

Live == Slots \ world.free
OnTiles == UNION {Chain(world, t) : t \in Tiles}
IsBag(o) == world.what[o] \in Bags
Fresh(w) == [w EXCEPT !.swept = FALSE]
Running == world.broken = "no"

\* A level just loaded: its things lie in one chain on some tile, in the last
\* records; those for which there is no static record fly.
Init ==
  LET last == Max(Slots)
      used == {last + 1 - i : i \in DOMAIN Start}
  IN  /\ there \in Tiles
      /\ held = Null
      /\ \E t \in Tiles :
           world = [word |-> [f \in Fields |->
                      IF f = t THEN last
                      ELSE IF \E o \in used : f = NextOf(o) /\ o - 1 \in used THEN f[2] - 1 ELSE Null],
                    what |-> [o \in Slots |-> IF o \in used THEN Start[last + 1 - o] ELSE Nothing],
                    free |-> Slots \ used,
                    broken |-> "no", swept |-> FALSE, doomed |-> {}]

PlayerWalks ==
  /\ there' \in Tiles \ {there}
  /\ UNCHANGED <<world, held>>

\* interact_default, finalize_object_pickup: only a static object can be taken.
PickUp(o) ==
  /\ held = Null /\ o \in StaticSlots \cap Chain(world, there)
  /\ held' = o
  /\ world' = Unlink(Fresh(world), there, o)
  /\ UNCHANGED there

\* place_object_in_backpack_slot, auto_place_in_container: into his pack or into a
\* container he carries.
Stow(f) ==
  /\ held # Null
  /\ \/ f = Pack
     \/ \E b \in Chain(world, Pack) : IsBag(b) /\ f = LinkOf(b)
  /\ world' = AppendTail(Fresh(world), f, held)
  /\ held' = Null
  /\ UNCHANGED there

\* extract_matching_object_from_slot
TakeOut(f, o) ==
  /\ held = Null /\ o \in Chain(world, f)
  /\ f = Pack \/ \E b \in Chain(world, Pack) : IsBag(b) /\ f = LinkOf(b)
  /\ world' = Unlink(Fresh(world), f, o)
  /\ held' = o
  /\ UNCHANGED there

\* drop_held_object_near_player with a place aimed at: spawn_object_near_player makes
\* a mobile record, the object's words are copied into it and its record is freed.
Throw ==
  /\ held # Null
  /\ \E got \in Alloc(Fresh(world), there, "mobile") :
       /\ got.slot # Null
       /\ world' = FreeSlot(InsertHead(CopyHeader(got.world, held, got.slot), there, got.slot), held)
  /\ held' = Null
  /\ UNCHANGED there

\* Mutant: the object stays on the cursor.
DropKeepsHeld ==
  /\ held # Null
  /\ \E w \in {Fresh(world)} \cup {got.world : got \in {g \in Alloc(Fresh(world), there, "mobile") : g.slot = Null}} :
       world' \in SettleDropped(AppendTail(w, there, held), there, held, there, TRUE)
  /\ UNCHANGED <<held, there>>

\* The same without one, or when no mobile record was found: the object is laid down.
Drop ==
  /\ held # Null
  /\ \E w \in {Fresh(world)} \cup {got.world : got \in {g \in Alloc(Fresh(world), there, "mobile") : g.slot = Null}} :
       world' \in SettleDropped(AppendTail(w, there, held), there, held, there, TRUE)
  /\ held' = Null
  /\ UNCHANGED there

\* mobile_object_tick: spent objects go, the others cross to where the sweep took
\* them (sync_object_tile_position) and fly on or come to rest.
Fly(o, t) ==
  /\ o \in Live \cap MobileSlots
  /\ LET w == Cross(Fresh(world), o, t)
     IN  \/ TileOf(world, o) # Off /\ world' = Destroy(Fresh(world), TileOf(world, o), o)
         \/ world' = w
         \/ \E r \in SettleMobile(w, there, o, t) :
              IF r.slot = Null \/ r.world.broken # "no" THEN world' = r.world
              ELSE world' \in SettleDropped(r.world, there, r.slot, t, FALSE)
  /\ UNCHANGED <<held, there>>

\* apply_object_collision_scatter: a static object that is struck starts to move;
\* sync_object_tile_position writes to its mobile record unseen.
Scatter(o, t) ==
  /\ o \in StaticSlots \cap OnTiles
  /\ LET w == Cross(Fresh(world), o, t)
     IN  world' \in Reallocate(w, there, o, t, FALSE)
  /\ UNCHANGED <<held, there>>

\* settle_misplaced_mobile_object, for each flying object before a level is left; one
\* that has left the map is looked up where its six bits of coordinate point.
SettleMisplaced(o, t) ==
  /\ o \in Live \cap MobileSlots /\ TileOf(world, o) \in {t, Off}
  /\ \/ world' = Destroy(Fresh(world), t, o)
     \/ \E r \in SettleMobile(Fresh(world), there, o, t) :
          IF r.slot = Null \/ r.world.broken # "no" THEN world' = r.world
          ELSE world' \in Place(Unlink(r.world, t, r.slot), there, r.slot, t, FALSE)
  /\ UNCHANGED <<held, there>>

RECURSIVE PlaceAll(_, _, _, _)
\* The loop of empty_container_into_world; the successor is read before the object
\* is placed.
PlaceAll(w, near, o, t) ==
  IF o = Null \/ w.broken # "no" THEN {w}
  ELSE UNION {PlaceAll(placed, near, w.word[NextOf(o)], t) : placed \in Place(w, near, o, t, TRUE)}

\* try_empty_container, empty_container_into_world
EmptyContainer(o, t) ==
  /\ t \in Tiles /\ o \in Chain(world, t) /\ world.word[LinkOf(o)] # Null
  /\ LET w == Fresh(world)
         emptied == Write(w, LinkOf(o) :> Null)
     IN  world' \in PlaceAll(emptied, there, w.word[LinkOf(o)], t)
  /\ UNCHANGED <<held, there>>

\* The record is in place; the object on the cursor leaves the local word.
Land(w) ==
  /\ held' = w.word[Local]
  /\ world' = Write(w, Local :> Null)
  /\ UNCHANGED there

\* commit_level_to_save_slot, as a level is left and as the game is saved.
Commit ==
  LET w == Fresh(world) IN \E r \in Restore(Strip(w, held), there, SaveRecord(w, held)) : Land(r)

\* load_level, with the record that commit_level_to_save_slot has put back.
LeaveLevel(t) ==
  LET w == Fresh(world)
  IN  \E r \in Restore(NewLevel(Strip(w, held), t), there, SaveRecord(w, held)) : Land(r)

Next ==
  /\ Running
  /\ \/ PlayerWalks \/ Throw \/ Drop \/ Commit
     \/ \E o \in Slots : PickUp(o)
     \/ \E f \in Fields : Stow(f)
     \/ \E f \in Fields, o \in Slots : TakeOut(f, o)
     \/ \E o \in Slots, t \in Tiles \cup {Off} : Fly(o, t)
     \/ \E o \in Slots, t \in Tiles : Scatter(o, t) \/ SettleMisplaced(o, t) \/ EmptyContainer(o, t)
     \/ \E t \in Tiles : LeaveLevel(t)

Spec == Init /\ [][Next]_vars

----------------------------------------------------------------------------
(* Properties, as long as nothing is broken.                               *)

\* Where a live object hangs: a head, the next or link word of a live object, or
\* the cursor.
Mentions(o) ==
  {f \in Heads \ {Local} : world.word[f] = o}
    \cup {f \in {NextOf(p) : p \in Live} \cup {LinkOf(p) : p \in Live} : world.word[f] = o}
    \cup (IF held = o THEN {<<"cursor", 0>>} ELSE {})

Reachable ==
  LET hung == UNION {Tree(world, f) : f \in Heads \ {Local}}
  IN  IF held = Null THEN hung ELSE hung \cup {held} \cup Tree(world, LinkOf(held))

\* Through every copy, sweep and return from a save record an object hangs in one
\* place only and can be reached from a tile, the pack or the cursor; only a flying
\* object may hang nowhere, off the map, and it can no longer be found
\* (object_list_unlink gives up silently when it is not in the chain).
WorldIsForest ==
  Running =>
    /\ \A o \in Live : Cardinality(Mentions(o)) = (IF o \in MobileSlots /\ o \notin Reachable THEN 0 ELSE 1)
    /\ Live \cap StaticSlots \subseteq Reachable \cup UNION {Tree(world, LinkOf(o)) : o \in Live \ Reachable}
    /\ Reachable \subseteq Live

\* Nothing vanishes unless a destroy roll, the collector or a change of level took
\* it (unlink_and_free_object, discard_misplaced_object), and nothing is doubled.
NothingVanishes ==
  Running =>
    \A x \in Things : Cardinality({o \in Live : world.what[o] = x})
                       = (IF x \in world.doomed THEN 0 ELSE 1)

\* A record is freed twice or written through a null pointer only in a handler
\* whose allocation had to sweep (settle_mobile_to_immobile and
\* reallocate_object_to_arena, whose objects the sweep may take, and the callers
\* of alloc_object_slot that do not look at the result).
BreaksOnlyAfterSweep == Running \/ world.swept

\* commit_level_to_save_slot and load_level bring back what is carried in the same
\* order and with the same contents, whatever records it gets.
TravelsWhole ==
  (Commit \/ \E t \in Tiles : LeaveLevel(t)) /\ world'.broken = "no"
    => SaveRecord(world', held') = SaveRecord(world, held)

\* Across every step that saves a level or leaves it (transition_to_level), the tree
\* of carried objects stays the same.
InventoryTravelsWhole == [][TravelsWhole]_vars
=============================================================================
