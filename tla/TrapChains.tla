----------------------------- MODULE TrapChains -----------------------------
(***************************************************************************)
(* Triggers and traps (traps.c, interact.c, objects.c).  A trigger lies in *)
(* a tile or in an object and its link names the trap it fires, without    *)
(* owning it; a trap counts the triggers that name it, and goes with the   *)
(* last of them.  What a trap does may fire, copy or delete others.        *)
(*                                                                         *)
(* Operators take a world and return one.  What chance decides (does the   *)
(* dice let the trap work, is there room for the copy, are the variables   *)
(* as the trap asks) is c, once for a handler.                             *)
(***************************************************************************)
EXTENDS Integers, Sequences, FiniteSets, FiniteSetsExt, SequencesExt

CONSTANTS
  Slots,   \* records
  Tiles,   \* numbers; Tiles, Slots, Me and Local are disjoint
  Me,      \* the player's record, which lies on a tile and heads his things
  Local,   \* a link word on the stack
  Worlds,  \* the levels to begin with
  None

Heads == Slots \cup Tiles \cup {Me, Local}

VARIABLE
  d  \* what: "free", "box" (any object with contents), "trap" or "trigger"; kind, of
     \* traps; aims: the link of a record with is_quant, which owns nothing; chain: a
     \* head's objects, for a record without is_quant; at: the tile in a record's quality
     \* and owner; once: triggers without flag 0x400; count, of traps; left:
     \* DAT_0024cfd8.  History: drift, how many more triggers a trap has than it was told
     \* of; passed, triggers that a purge passed over, or that a trap had beyond its
     \* count when it went; lost, records left behind in no chain; broken: how the
     \* chains were corrupted

vars == <<d>>

----------------------------------------------------------------------------
(* Reading.                                                                *)

RECURSIVE Under(_, _)
Under(v, heads) ==
  LET inside == UNION {ToSet(v.chain[h]) : h \in heads}
  IN  IF inside \subseteq heads THEN heads ELSE Under(v, heads \cup inside)

Objects(v, heads) == UNION {ToSet(v.chain[h]) : h \in Under(v, heads)}
InTheWorld(v) == Objects(v, Tiles) \ {Me}
TrapClass(v, r) == r # Me /\ v.what[r] \in {"trap", "trigger"}
TriggersOf(v, records, t) == {g \in records \ {Me} : v.what[g] = "trigger" /\ v.aims[g] = t}

Link(v, t) == IF v.chain[t] # <<>> THEN Head(v.chain[t]) ELSE v.aims[t]

\* The next word of a record, which leaving a chain clears.
Behind(v, r) ==
  LET places == {<<h, i>> \in Heads \X (1 .. Cardinality(Slots)) :
                   i < Len(v.chain[h]) /\ v.chain[h][i] = r}
  IN  IF places = {} THEN None
      ELSE LET p == CHOOSE q \in places : TRUE IN v.chain[p[1]][p[2] + 1]

----------------------------------------------------------------------------
(* Records.                                                                *)

Break(v, how) == IF v.broken = "no" THEN [v EXCEPT !.broken = how] ELSE v

Unlink(v, h, r) == [v EXCEPT !.chain[h] = SelectSeq(@, LAMBDA q : q # r)]

\* Triggers that come (n = 1) or go (n = -1) without their trap's being told.
Untold(v, triggers, n) ==
  [v EXCEPT !.drift = [t \in Slots |-> @[t] + n * Cardinality(TriggersOf(v, triggers, t))]]

\* What a trap leaves behind when it goes: no more than it was not told of.
Orphans(v, t) ==
  LET left == TriggersOf(v, Slots \ (v.lost \cup v.passed), t)
  IN  IF Cardinality(left) <= v.drift[t] THEN left ELSE {}

\* free_object_slot: the record keeps its bytes.
FreeSlot(v, r) ==
  IF v.what[r] = "free" THEN Break(v, "freed twice")
  ELSE IF \E h \in Heads : r \in ToSet(v.chain[h]) THEN Break(v, "freed in a chain")
  ELSE [v EXCEPT !.what[r] = "free", !.chain[r] = <<>>,
                 !.lost = (@ \cup Objects(v, {r})) \ {r},
                 !.passed = (@ \cup Orphans(v, r)) \ {r},
                 !.drift[r] = 0]

Grant(v) ==
  LET ready == {r \in Slots : v.what[r] = "free"}
  IN  IF ready = {} THEN None ELSE Min(ready)

\* A record that a stale link still names is given out again.
Named(v, r) == \E q \in Slots : v.what[q] # "free" /\ v.aims[q] = r
Reuse(v, records) == IF \E r \in records : Named(v, r) THEN Break(v, "stale link") ELSE v

\* Between handlers the bytes of free records do not matter.
Tidy(v) ==
  LET idle == {r \in Slots : v.what[r] = "free"}
  IN  [v EXCEPT
        !.kind = [r \in Slots |-> IF r \in idle THEN "none" ELSE @[r]],
        !.aims = [r \in Slots |-> IF r \in idle THEN None ELSE @[r]],
        !.at = [r \in Slots |-> IF r \in idle THEN Min(Tiles) ELSE @[r]],
        !.count = [r \in Slots |-> IF r \in idle THEN 0 ELSE @[r]],
        !.drift = [r \in Slots |-> IF r \in idle THEN 0 ELSE @[r]],
        !.once = @ \ idle, !.left = 0]

----------------------------------------------------------------------------
(* Removal (interact.c, traps.c, objects.c).                               *)

\* purge_tagged_objects_from_chain: taking a record out clears its next word, which
\* ends the walk; its link word is cleared by hand.
RECURSIVE Purge(_, _, _, _)
Purge(v, h, i, t) ==
  IF i > Len(v.chain[h]) THEN v
  ELSE LET r == v.chain[h][i]
           rest == SubSeq(v.chain[h], i + 1, Len(v.chain[h]))
           behind == ToSet(rest) \cup Objects(v, ToSet(rest))
       IN  IF r # Me /\ v.what[r] = "trigger" /\ v.aims[r] = t
           THEN [FreeSlot(Unlink(v, h, r), r) EXCEPT
                   !.aims[r] = None, !.left = @ - 1,
                   !.passed = @ \cup TriggersOf(v, behind, t)]
           ELSE Purge(Purge(v, r, 1, t), h, i + 1, t)

PurgeTiles(v, t) ==
  FoldLeft(LAMBDA acc, tile : IF acc.left > 0 THEN Purge(acc, tile, 1, t) ELSE acc,
           [v EXCEPT !.left = v.count[t]], SetToSortSeq(Tiles, <))

RECURSIVE FreeLinked(_, _, _)
RECURSIVE UnlinkAndFree(_, _, _)

\* Mutant: the triggers stay.
RefreshAlone(v, h, t) ==
  LET holders == {g \in Under(v, {h}) : t \in ToSet(v.chain[g])}
  IN  IF holders = {} THEN v ELSE UnlinkAndFree(v, CHOOSE g \in holders : TRUE, t)

\* refresh_object_link_chain: the trap goes, and its triggers before it.
Refresh(v, h, t) ==
  LET purged == IF v.count[t] = 0 THEN v ELSE PurgeTiles(v, t)
      holders == {g \in Under(purged, {h}) : t \in ToSet(purged.chain[g])}
  IN  IF holders = {} THEN purged ELSE UnlinkAndFree(purged, CHOOSE g \in holders : TRUE, t)

\* Mutant: the trap is not told.
RemoveMarkerSilently(v, h, r) ==
  IF v.aims[r] # None /\ v.what[v.aims[r]] = "trap" /\ v.count[v.aims[r]] = 1
  THEN Refresh(v, v.at[r], v.aims[r])
  ELSE FreeSlot(Unlink(v, h, r), r)

\* remove_trap_chain_marker
RemoveMarker(v, h, r) ==
  LET t == v.aims[r]
  IN  IF t = None THEN Break(v, "null link")
      ELSE IF v.what[t] # "trap" THEN Break(v, "stale link")
      ELSE IF v.count[t] = 1 THEN Refresh(v, v.at[r], t)
      ELSE FreeSlot(Unlink([v EXCEPT !.count[t] = (@ - 1) % 16], h, r), r)

\* free_linked_object_recursive: the object at place i of a chain and what is behind it,
\* but behind a trap or trigger nothing.
FreeLinked(v, h, i) ==
  IF i > Len(v.chain[h]) THEN v
  ELSE LET r == v.chain[h][i]
       IN  IF v.what[r] = "trap" THEN Refresh(v, h, r)
           ELSE IF v.what[r] = "trigger" THEN RemoveMarker(v, h, r)
           ELSE LET tailFreed == FreeLinked(v, h, i + 1)
                IN  UnlinkAndFree(tailFreed, h, r)

\* unlink_and_free_object
UnlinkAndFree(v, h, r) == FreeSlot(Unlink(FreeLinked(v, r, 1), h, r), r)

----------------------------------------------------------------------------
(* Firing.                                                                 *)

\* The header of a record is copied; one without is_quant then shares the contents.
CopyHeader(v, from, to) ==
  [Untold(v, {from}, 1) EXCEPT
     !.what[to] = v.what[from], !.kind[to] = v.kind[from], !.aims[to] = v.aims[from],
     !.at[to] = v.at[from], !.count[to] = v.count[from],
     !.once = IF from \in @ THEN @ \cup {to} ELSE @ \ {to},
     !.drift[to] = IF v.what[from] = "trap" THEN 0 - v.count[from] ELSE 0]

\* Case 7: a copy of the trap's template, with a copy of the first thing in it; a copy
\* that finds no room is freed, and the contents with it.
CreateObject(v, t, tile, c) ==
  LET src == Link(v, t)
      n == Grant(v)
      copied == CopyHeader(v, src, n)
      placed == [copied EXCEPT !.chain[tile] = <<n>> \o @]
      m == Grant(copied)
  IN  IF c = "no" \/ v.chain[t] = <<>> \/ n = None THEN v
      ELSE IF c = "no room" THEN IF v.chain[src] = <<>> THEN v ELSE Break(v, "template emptied")
      ELSE IF v.chain[src] = <<>> THEN Reuse(placed, {n})
      ELSE IF m = None THEN Break(v, "template shared")
      ELSE Reuse([CopyHeader(placed, Head(v.chain[src]), m) EXCEPT !.chain[n] = <<m>>], {n, m})

\* Case 0xb: the linked object goes from the tile in the trap's quality and owner.
DeleteObject(v, t) ==
  LET r == Link(v, t)
  IN  IF r = None THEN Break(v, "null link")
      ELSE IF v.what[r] = "free" THEN Break(v, "stale link")
      ELSE UnlinkAndFree(Untold(v, {r}, -1), v.at[t], r)

RECURSIVE Dispatch(_, _, _, _)

\* resolve_skill_gated_unlock_or_use and apply_trap_or_link_effect, for a trigger whose
\* kind suits the occasion.
Fire(v, g, c) ==
  LET t == v.aims[g]
      fired == Dispatch(v, t, v.at[g], c)
  IN  IF t = None THEN v
      ELSE IF v.what[t] # "trap" THEN Break(v, "stale link")
      ELSE IF g \in fired.once /\ fired.aims[g] # None THEN Refresh(fired, v.at[g], t)
      ELSE fired

FollowLink(v, t, tile, c) ==
  LET l == Link(v, t)
  IN  CASE l = None -> v
        [] l # None /\ v.what[l] = "free" -> Break(v, "stale link")
        [] l # None /\ v.what[l] = "trap" -> Dispatch(v, l, tile, c)
        [] l # None /\ v.what[l] = "trigger" -> Fire(v, l, c)
        [] OTHER -> v

\* dispatch_trap_type_effect: most cases end here or go on to the link.
Dispatch(v, t, tile, c) ==
  CASE v.broken # "no" -> v
    [] v.kind[t] = "create" -> CreateObject(v, t, tile, c)
    [] v.kind[t] = "delete" -> DeleteObject(v, t)
    [] v.kind[t] = "check" /\ c = "no" /\ Link(v, t) # None ->
         LET next == Behind(v, Link(v, t))
         IN  IF next # None /\ next # Me /\ v.what[next] = "trigger" THEN Fire(v, next, c) ELSE v
    [] v.kind[t] = "end" -> v
    [] OTHER -> FollowLink(v, t, tile, c)

----------------------------------------------------------------------------
(* Handlers.                                                               *)

InReach == Objects(d, {Me} \cup Tiles) \ ({Me} \cup Objects(d, {r \in Slots : d.what[r] = "trap"}))
Boxes == {r \in InReach : d.what[r] = "box"}

\* find_object_in_chain for class 6, in an object.
Marker(v, b) ==
  LET found == {i \in DOMAIN v.chain[b] : TrapClass(v, v.chain[b][i])}
  IN  IF found = {} THEN None ELSE v.chain[b][Min(found)]

Set(v) == d' = Tidy(v)

Chances == {"yes", "no", "no room"}

\* A trigger on a tile is run into, or hit.
StepOn(g) ==
  /\ d.what[g] = "trigger" /\ \E tile \in Tiles : g \in ToSet(d.chain[tile])
  /\ \E c \in Chances : Set(Fire(d, g, c))

\* trigger_object_trap_or_use_action: an object is used, looked at, opened or taken.
UseObject(b) ==
  LET r == Marker(d, b)
  IN  /\ r # None
      /\ \/ /\ d.what[r] = "trigger"
            /\ \E c \in Chances : Set(Fire(d, r, c))
         \/ /\ d.what[r] = "trap" /\ d.count[r] = 0
            /\ \E c \in Chances, tile \in Tiles : Set(Refresh(Dispatch(d, r, tile, c), b, r))

\* roll_container_trap_disarm_check, for traps that hurt or send away: success frees the
\* head of the chain, and a bad failure sets the trap off.
Disarm(b, success) ==
  LET r == Marker(d, b)
      t == IF d.what[r] = "trap" THEN r ELSE d.aims[r]
  IN  /\ r # None /\ t # None
      /\ d.what[t] = "trap" => d.kind[t] = "follow"
      /\ \/ success /\ Set(FreeLinked(d, b, 1))
         \/ /\ ~success /\ d.what[r] = "trigger"
            /\ \E c \in Chances : Set(Fire(d, r, c))
         \/ /\ ~success /\ d.what[r] = "trap"
            /\ \E c \in Chances, tile \in Tiles : Set(Refresh(Dispatch(d, r, tile, c), b, r))

\* unlink_and_free_object on a tile, and discard_misplaced_object with no tile, for what
\* the player let go.
DestroyObject(b) ==
  \/ \E tile \in Tiles : b \in ToSet(d.chain[tile]) /\ Set(UnlinkAndFree(d, tile, b))
  \/ /\ b \in ToSet(d.chain[Me])
     /\ Set(FreeLinked([Unlink(d, Me, b) EXCEPT !.chain[Local] = <<b>>], Local, 1))

\* The player's moves, which bring boxes from one tile to another.
TakeObject(b) ==
  \E tile \in Tiles :
    /\ {b, Me} \subseteq ToSet(d.chain[tile])
    /\ d' = [Unlink(d, tile, b) EXCEPT !.chain[Me] = Append(@, b)]

DropObject(b) ==
  \E tile \in Tiles :
    /\ b \in ToSet(d.chain[Me]) /\ Me \in ToSet(d.chain[tile])
    /\ d' = [Unlink(d, Me, b) EXCEPT !.chain[tile] = <<b>> \o @]

Walk(to) ==
  \E from \in Tiles \ {to} :
    /\ Me \in ToSet(d.chain[from])
    /\ d' = [Unlink(d, from, Me) EXCEPT !.chain[to] = <<Me>> \o @]

\* create_scripted_trap_pair_at_tile: a rune of warding.
CreateScriptedTrapPair(tile) ==
  LET g == Grant(d)
      first == [d EXCEPT !.what[g] = "trigger"]
      t == Grant(first)
  IN  /\ g # None /\ t # None
      /\ d' = [Reuse(d, {g, t}) EXCEPT
                 !.what[g] = "trigger", !.aims[g] = t, !.at[g] = tile, !.once = @ \cup {g},
                 !.what[t] = "trap", !.kind[t] = "end", !.count[t] = 1,
                 !.chain[tile] = <<t, g>> \o @]

\* trigger_quest_milestone_cleanup_event, for the triggers of one tile.
CleanUp(tile) ==
  LET gone == {g \in ToSet(d.chain[tile]) \ {Me} : d.what[g] = "trigger"}
  IN  /\ gone # {}
      /\ Set(FoldSet(LAMBDA g, acc : FreeSlot(Unlink(acc, tile, g), g), Untold(d, gone, -1), gone))

Init == d \in Worlds

Next ==
  /\ d.broken = "no"
  /\ \/ \E g \in Slots : StepOn(g)
     \/ \E b \in Boxes : UseObject(b) \/ DestroyObject(b) \/ TakeObject(b) \/ DropObject(b)
     \/ \E b \in Boxes, success \in BOOLEAN : Disarm(b, success)
     \/ \E tile \in Tiles : Walk(tile) \/ CreateScriptedTrapPair(tile) \/ CleanUp(tile)

Spec == Init /\ [][Next]_vars

----------------------------------------------------------------------------
(* Properties.                                                             *)

\* However traps fire, copy, delete and outlive each other, a trigger in the world names
\* a trap, with two exceptions: one that a purge passed over when it took another of the
\* same chain (purge_tagged_objects_from_chain, whose walk ends at the first record it
\* takes out), and, when a trap goes, as many triggers as were copied without its being
\* told (case 7 of dispatch_trap_type_effect) and not one more.
TriggersLeadToTraps ==
  d.broken = "no" =>
    \A g \in InTheWorld(d) \ d.passed :
      d.what[g] = "trigger" => d.aims[g] \in Slots /\ d.what[d.aims[g]] = "trap"

\* A trap counts the triggers that name it, so that it goes with the last of them
\* (remove_trap_chain_marker), wrong by exactly the triggers copied and deleted by those
\* who do not tell it: traps that copy and delete, and the clean-up of a milestone.
CountsAreTriggers ==
  d.broken = "no" =>
    \A t \in InTheWorld(d) :
      d.what[t] = "trap" => d.count[t] + d.drift[t] = Cardinality(TriggersOf(d, Slots, t))
=============================================================================
