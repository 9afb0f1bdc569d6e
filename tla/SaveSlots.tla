------------------------------ MODULE SaveSlots ------------------------------
(***************************************************************************)
(* Saved games (saveload.c, level.c, player.c): the directory \SAVE0 holds *)
(* the game being played, \SAVE1 and on the saved ones, each four files    *)
(* that are copied one after the other.  A copy can fail, the program can  *)
(* die between two copies, and the player can load over a running game.    *)
(*                                                                         *)
(* A file's content is the playthrough it comes from; a level's also names *)
(* the level, and player.dat the level the player is on.                   *)
(***************************************************************************)
EXTENDS Integers, Sequences

CONSTANTS
  Games,     \* playthroughs
  LastSlot,  \* the saved games are \SAVE1 .. \SAVE<LastSlot>
  Levels,    \* 1 .. the number of levels
  None       \* no file, or one that cannot be used

VARIABLES
  lev, bglobals, player, desc,  \* the files of each directory
  mode,      \* "title", "playing", "saving" or "loading"
  target,    \* the slot that is saved or loaded
  parts,     \* files still to copy
  ok,        \* copy_save_slot_files' ok
  fromTitle, \* the load was chosen at the title screen
  game,      \* the playthrough in memory
  level,     \* DAT_00201b68
  live,      \* the level in memory
  fresh,     \* playthroughs not begun yet
  saved,     \* history: for each slot the game whose save was reported done
  spoiled    \* history: \SAVE0 was overwritten by a load that was no whole save

disk == <<lev, bglobals, player, desc>>
work == <<mode, target, parts, ok, fromTitle>>
memory == <<game, level, live>>
history == <<fresh, saved, spoiled>>
vars == <<disk, work, memory, history>>

Slots == 1 .. LastSlot
Dirs == 0 .. LastSlot

\* Mutant: one of the files is not in the list.
PartsWithoutGlobals == <<"lev", "player", "desc">>

\* copy_save_slot_files' file_suffixes.
Parts == <<"lev", "bglobals", "player", "desc">>
Home(g) == [l \in Levels |-> [game |-> g, level |-> l]]

Init ==
  /\ lev = [d \in Dirs |-> None] /\ bglobals = [d \in Dirs |-> None]
  /\ player = [d \in Dirs |-> None] /\ desc = [d \in Dirs |-> None]
  /\ mode = "title" /\ target = 0 /\ parts = <<>> /\ ok = TRUE /\ fromTitle = TRUE
  /\ game = None /\ level = 1 /\ live = None
  /\ fresh = Games /\ saved = [s \in Slots |-> None] /\ spoiled = FALSE

\* start_game_with_current_character: player.dat, the shipped archive, the
\* conversation globals, level 1.
NewGame(g) ==
  /\ mode = "title" /\ g \in fresh
  /\ player' = [player EXCEPT ![0] = [game |-> g, level |-> 1]]
  /\ lev' = [lev EXCEPT ![0] = Home(g)]
  /\ bglobals' = [bglobals EXCEPT ![0] = g]
  /\ game' = g /\ level' = 1 /\ live' = lev'[0][1]
  /\ mode' = "playing" /\ fresh' = fresh \ {g} /\ spoiled' = FALSE
  /\ UNCHANGED <<desc, target, parts, ok, fromTitle, saved>>

\* A conversation ends: its variables go to \SAVE0\bglobals.dat.
SaveConversationGlobals ==
  /\ mode = "playing"
  /\ bglobals' = [bglobals EXCEPT ![0] = game]
  /\ UNCHANGED <<lev, player, desc, work, memory, history>>

\* commit_level_to_save_slot needs an archive it can open.
Commit == lev[0] # None /\ lev' = [lev EXCEPT ![0][level] = live]

\* transition_to_level: the level is committed, the next one loaded; a failure
\* ends the program (report_fatal_error_and_exit).
TransitionToLevel(l) ==
  /\ mode = "playing" /\ l # level
  /\ Commit
  /\ live' = lev'[0][l] /\ level' = l
  /\ UNCHANGED <<bglobals, player, desc, work, game, history>>

\* save_game_to_slot up to the copying: the description, player.dat and the level
\* are written to \SAVE0 in this order; any of them can fail.
SaveGameToSlot(s) ==
  /\ mode = "playing"
  /\ \E done \in 0 .. 3 :
       /\ desc' = (IF done >= 1 THEN [desc EXCEPT ![0] = game] ELSE desc)
       /\ player' = (IF done >= 2 THEN [player EXCEPT ![0] = [game |-> game, level |-> level]]
                                 ELSE player)
       /\ IF done = 3
          THEN /\ Commit
               /\ mode' = "saving" /\ target' = s /\ parts' = Parts /\ ok' = TRUE
               /\ saved' = [saved EXCEPT ![s] = None]
          ELSE UNCHANGED <<lev, mode, target, parts, ok, saved>>
  /\ UNCHANGED <<bglobals, fromTitle, memory, fresh, spoiled>>

\* load_game_from_slot in a running game offers every slot; at the title screen
\* journey_onward_load_slot_menu offers those with a description.
LoadGameFromSlot(s) ==
  /\ \/ mode = "playing"
     \/ mode = "title" /\ desc[s] # None
  /\ mode' = "loading" /\ target' = s /\ parts' = Parts /\ ok' = TRUE
  /\ fromTitle' = (mode = "title")
  /\ UNCHANGED <<disk, memory, history>>

\* Mutant: the running game is copied over the slot to be loaded, and the other
\* way round.
SourceSwapped == IF mode = "saving" THEN target ELSE 0

\* copy_save_slot_files(dest, source): the slot from \SAVE0, or \SAVE0 from it.
Source == IF mode = "saving" THEN 0 ELSE target
Dest == target - Source

\* uw_file_copy of one file: copied; or there is none; or it breaks off and leaves
\* a destination that cannot be used.
Copied(file, outcome) ==
  CASE outcome = "copied" -> file[Source] # None /\ file' = [file EXCEPT ![Dest] = file[Source]]
    [] outcome = "missing" -> file[Source] = None /\ UNCHANGED file
    [] outcome = "broken" -> file[Source] # None /\ file' = [file EXCEPT ![Dest] = None]

CopySaveSlotFile(outcome) ==
  /\ mode \in {"saving", "loading"} /\ parts # <<>>
  /\ LET part == Head(parts)
     IN /\ IF part = "lev" THEN Copied(lev, outcome) ELSE UNCHANGED lev
        /\ IF part = "bglobals" THEN Copied(bglobals, outcome) ELSE UNCHANGED bglobals
        /\ IF part = "player" THEN Copied(player, outcome) ELSE UNCHANGED player
        /\ IF part = "desc" THEN Copied(desc, outcome) ELSE UNCHANGED desc
        /\ ok' = (ok /\ (outcome = "copied" \/ part = "desc"))
  /\ parts' = Tail(parts)
  /\ spoiled' = (spoiled \/ mode = "loading")
  /\ UNCHANGED <<mode, target, fromTitle, memory, fresh, saved>>

\* save_game_to_slot returns.
EndSave ==
  /\ mode = "saving" /\ parts = <<>>
  /\ mode' = "playing"
  /\ saved' = (IF ok /\ ~spoiled THEN [saved EXCEPT ![target] = game] ELSE saved)
  /\ target' = 0 /\ ok' = TRUE
  /\ UNCHANGED <<disk, parts, fromTitle, memory, fresh, spoiled>>

\* The level loaded after a load: DAT_00201b68, but level 1 at the title screen.
LevelLoaded == IF fromTitle THEN 1 ELSE level'

\* The record of the player is read and the level loaded.
LoadTaken ==
  /\ mode = "loading" /\ parts = <<>> /\ ok
  /\ game' = player[0].game /\ level' = player[0].level
  /\ live' = lev[0][LevelLoaded]
  /\ mode' = "playing"
  /\ spoiled' = (saved[target] = None)
  /\ target' = 0 /\ ok' = TRUE /\ fromTitle' = TRUE
  /\ UNCHANGED <<disk, parts, fresh, saved>>

\* The load is given up: the running game goes on.
LoadRefused ==
  /\ mode = "loading" /\ parts = <<>> /\ ~ok
  /\ mode' = (IF fromTitle THEN "title" ELSE "playing")
  /\ target' = 0 /\ ok' = TRUE /\ fromTitle' = TRUE
  /\ UNCHANGED <<disk, parts, memory, history>>

\* The program dies, or is left.
Crash ==
  /\ mode # "title" /\ mode' = "title"
  /\ target' = 0 /\ parts' = <<>> /\ ok' = TRUE /\ fromTitle' = TRUE
  /\ game' = None /\ level' = 1 /\ live' = None /\ spoiled' = FALSE
  /\ UNCHANGED <<disk, fresh, saved>>

Next ==
  \/ \E g \in Games : NewGame(g)
  \/ SaveConversationGlobals
  \/ \E l \in Levels : TransitionToLevel(l)
  \/ \E s \in Slots : SaveGameToSlot(s) \/ LoadGameFromSlot(s)
  \/ \E outcome \in {"copied", "missing", "broken"} : CopySaveSlotFile(outcome)
  \/ EndSave \/ LoadTaken \/ LoadRefused
  \/ Crash

Spec == Init /\ [][Next]_vars

------------------------------------------------------------------------------
OneGame(d, g) == bglobals[d] = g /\ \A l \in Levels : lev[d][l].game = g

\* A slot whose save was reported done holds one playthrough in all its files, and
\* keeps it whatever is played, loaded, broken off or crashes afterwards, until it
\* is saved over (save_game_to_slot, load_game_from_slot, copy_save_slot_files).
SavedSlotIsOneGame ==
  \A s \in Slots : saved[s] # None =>
    OneGame(s, saved[s]) /\ player[s].game = saved[s]

\* A running game and \SAVE0 belong together, unless a load broke off before or the
\* slot loaded had been left half written.
SessionIsOneGame ==
  mode \in {"playing", "saving"} /\ ~spoiled => OneGame(0, game) /\ live.game = game

\* The level in memory is the level the game says it is on (load_game_from_slot
\* loads DAT_00201b68; journey_onward_load_slot_menu loads level 1, for the comment
\* in saveload.c that DAT_00201b68 is not set yet).
LiveLevelIsCurrent ==
  mode = "playing" /\ ~spoiled => live.level = level
=============================================================================
