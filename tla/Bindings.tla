------------------------------ MODULE Bindings ------------------------------
(***************************************************************************)
(* The table of click regions (input.c) and the screens that put regions   *)
(* into it and take them out again: the dungeon view, the automap and the  *)
(* conversation.                                                           *)
(*                                                                         *)
(* A region is a record in one table and a handler at the same index of a  *)
(* second one.  The second table has a fixed length, the first grows.      *)
(* Removing a region moves the last one into its place, in both tables.    *)
(* A rectangle is known by who registered it.                              *)
(***************************************************************************)
EXTENDS Integers, Sequences

CONSTANTS
  TableLength,  \* entries of g_click_region_handler
  Fixed,        \* regions registered once, when the game starts
  Nobody,       \* an entry of the handler table nobody has written
  MaxReturns, MaxToggles, MaxRedraws  \* bounds on what the player does

VARIABLES
  table,         \* [regions, handlers, nextId]
  viewId,        \* DAT_0023be8c
  notesId,       \* DAT_000b99c0
  hasInventory,  \* DAT_002029a4
  screen,        \* the game mode
  pending,       \* bit 1 of the update flags: on the map, enter_automap_screen is due
  returns, toggles, redraws

vars == <<table, viewId, notesId, hasInventory, screen, pending, returns, toggles, redraws>>

Stats == 6  \* regions of the stats panel

\* The screens on which a region takes clicks (its mode mask).
Screens(owner) ==
  CASE owner = "view" -> {"dungeon", "map"}
    [] owner = "notes" -> {"map"}
    [] OTHER -> {"dungeon", "talk"}

\* n calls of register_click_region in a row.
Times(t, owner, n) ==
  LET m == Len(t.regions)
  IN [regions |-> t.regions \o [k \in 1 .. n |-> [id |-> t.nextId + k - 1, owner |-> owner]],
      handlers |-> [i \in DOMAIN t.handlers |->
                      IF i \in m + 1 .. m + n THEN owner ELSE t.handlers[i]],
      nextId |-> t.nextId + n]
Register(t, owner) == Times(t, owner, 1)

\* Mutant: the last record is moved and its handler is not.
UnregisterRecordOnly(t, id) ==
  LET n == Len(t.regions)
      found == {p \in 1 .. n : t.regions[p].id = id}
  IN IF found = {} THEN t
     ELSE LET p == CHOOSE p \in found : TRUE
          IN [t EXCEPT !.regions = SubSeq([t.regions EXCEPT ![p] = t.regions[n]], 1, n - 1)]

Unregister(t, id) ==
  LET n == Len(t.regions)
      found == {p \in 1 .. n : t.regions[p].id = id}
  IN IF found = {} THEN t
     ELSE LET p == CHOOSE p \in found : TRUE
          IN [t EXCEPT
               !.regions = SubSeq([t.regions EXCEPT ![p] = t.regions[n]], 1, n - 1),
               !.handlers = IF p < n /\ n \in DOMAIN t.handlers
                              THEN [t.handlers EXCEPT ![p] = t.handlers[n]]
                              ELSE t.handlers]

\* register_game_view_interact_zones, after unregister_game_view_interact_zones
ViewAgain(t) == Register(Unregister(t, viewId), "view")

\* enter_dungeon_view and enter_dungeon_view_hud_init
EnterDungeon(t) ==
  LET shown == ViewAgain(t)
      panel == IF hasInventory THEN shown ELSE Register(shown, "inventory")
  IN /\ table' = Times(panel, "stats", Stats)
     /\ viewId' = t.nextId
     /\ hasInventory' = TRUE
     /\ screen' = "dungeon"
     /\ pending' = FALSE

Init ==
  /\ table = Times([regions |-> <<>>, handlers |-> [i \in 1 .. TableLength |-> Nobody],
                    nextId |-> 1], "fixed", Fixed)
  /\ viewId = 0 /\ notesId = 0 /\ hasInventory = FALSE
  /\ screen = "menu" /\ pending = FALSE
  /\ returns = 0 /\ toggles = 0 /\ redraws = 0

StartGame ==
  /\ screen = "menu"
  /\ EnterDungeon(table)
  /\ UNCHANGED <<notesId, returns, toggles, redraws>>

\* change_game_mode, away from the dungeon: its exit handler does nothing.
GoTo(s) ==
  /\ screen = "dungeon" /\ returns < MaxReturns
  /\ screen' = s /\ pending' = (s = "map")
  /\ UNCHANGED <<table, viewId, notesId, hasInventory, returns, toggles, redraws>>

\* enter_automap_screen; without its background picture it first leaves again.
ShowMap ==
  /\ screen = "map" /\ pending
  /\ \E readable \in BOOLEAN :
       LET t == IF readable THEN table ELSE Unregister(table, notesId)
       IN table' = Register(t, "notes") /\ notesId' = t.nextId
  /\ pending' = FALSE
  /\ UNCHANGED <<viewId, hasInventory, screen, returns, toggles, redraws>>

\* Something asks for a picture of the dungeon while the map is shown.
RedrawMap ==
  /\ screen = "map" /\ ~pending /\ redraws < MaxRedraws
  /\ pending' = TRUE /\ redraws' = redraws + 1
  /\ UNCHANGED <<table, viewId, notesId, hasInventory, screen, returns, toggles>>

\* exit_automap_screen, then the dungeon's entry handler
LeaveMap ==
  /\ screen = "map"
  /\ EnterDungeon(Unregister(table, notesId))
  /\ returns' = returns + 1
  /\ UNCHANGED <<notesId, toggles, redraws>>

LeaveTalk ==
  /\ screen = "talk"
  /\ EnterDungeon(table)
  /\ returns' = returns + 1
  /\ UNCHANGED <<notesId, toggles, redraws>>

\* uw_toggle_fullscreen_view
ToggleFullscreen ==
  /\ screen = "dungeon" /\ toggles < MaxToggles
  /\ table' = ViewAgain(table) /\ viewId' = table.nextId
  /\ toggles' = toggles + 1
  /\ UNCHANGED <<notesId, hasInventory, screen, pending, returns, redraws>>

Next ==
  \/ StartGame \/ GoTo("map") \/ GoTo("talk") \/ ShowMap \/ RedrawMap
  \/ LeaveMap \/ LeaveTalk \/ ToggleFullscreen

Spec == Init /\ [][Next]_vars

-----------------------------------------------------------------------------
\* poll_input_bindings: the last matching region is clicked, and what is
\* called is the entry of the handler table at its index.
Called(i) == IF i \in DOMAIN table.handlers THEN table.handlers[i] ELSE Nobody

OwnedBy(owner) == {i \in DOMAIN table.regions : table.regions[i].owner = owner}

\* A click calls the handler that was registered with the region it matches,
\* however often regions were moved into the places of removed ones
\* (input.c:470 moves a record and its handler separately).
ClicksCallTheMatch ==
  \A i \in DOMAIN table.regions : Called(i) = table.regions[i].owner

\* While the table has room, clicks call the region they match, the dungeon
\* view has one region and its saved id finds it, and a click on the map is
\* taken by the notes, not by the view whose mode mask includes the map
\* (input.c:980, automap.c:90).
BindingsExact ==
  /\ ClicksCallTheMatch
  /\ screen # "menu" => \E i \in OwnedBy("view") :
       OwnedBy("view") = {i} /\ table.regions[i].id = viewId
  /\ screen = "map" /\ ~pending =>
       LET matching == {i \in DOMAIN table.regions :
                          screen \in Screens(table.regions[i].owner)}
           top == CHOOSE i \in matching : \A j \in matching : j <= i
       IN Called(top) = "notes"
=============================================================================
