---------------------------- MODULE MusicPlayer ----------------------------
(***************************************************************************)
(* Background music: platform_music.c (with the track functions of         *)
(* platform_dosmidi.c) under the track selection of audio.c.               *)
(*                                                                         *)
(* Two threads share the player.  SDL calls uwmod_audio_callback on its    *)
(* own thread and holds the device lock meanwhile; the game thread takes   *)
(* the lock for its short sections, each of which is one step here, taken  *)
(* when the callback does not hold it.  dos tells the two backends apart:  *)
(* the .MOD player reads the file's buffer for as long as it plays, the    *)
(* DOS sequencer the .XMI's.                                               *)
(*                                                                         *)
(* The real-time clock is the environment's: what the code asks of it are  *)
(* the arguments elapsed, dangerOver and throttleOver.                     *)
(***************************************************************************)
EXTENDS Integers

CONSTANTS
  Tracks,     \* track numbers used, a subset of 1..15
  Buffers,    \* file buffers malloc can return
  Null        \* the null pointer

VARIABLES
  dos,        \* g_dos_mode
  open,       \* the device is open
  lock,       \* does the callback hold the device lock
  reading,    \* the buffer the running callback plays from
  heap,       \* buffers allocated and not freed
  filedata,   \* g_uwmod_filedata, or the .XMI's buffer
  loaded,     \* g_uwmod_loaded, or g.seq >= 0
  playing,    \* g_uwmod_playing
  sequence,   \* DOS: the sequence runs
  enabled,    \* DAT_00087448
  current,    \* DAT_0023c3a8
  pending,    \* DAT_0023c384
  step,       \* where the game thread is in play_music_track
  asked,      \* its track, and whether to start it
  data,       \* platform_music_load_track's data
  old,        \* its old_filedata
  loadedTrack,\* history: the track whose file is loaded
  missed      \* history: the current track's file could not be loaded

device == <<dos, open, lock, reading>>
player == <<heap, filedata, loaded, playing, sequence>>
choice == <<enabled, current, pending>>
thread == <<step, asked, data, old>>
history == <<loadedTrack, missed>>
vars == <<device, player, choice, thread, history>>

Idle == step = "idle"
NothingAsked == [track |-> 0, start |-> FALSE]

\* What the callback plays: the sequencer, or the .MOD while it is playing.
Sounding == IF dos THEN loaded /\ sequence ELSE loaded /\ playing

\* platform_music_init and the decision for a backend.
Init ==
  /\ dos \in BOOLEAN /\ open = TRUE /\ lock = FALSE /\ reading = Null
  /\ heap = {} /\ filedata = Null /\ loaded = FALSE
  /\ playing = FALSE /\ sequence = FALSE
  /\ enabled = TRUE /\ current = 0 /\ pending = 0
  /\ step = "idle" /\ asked = NothingAsked /\ data = Null /\ old = Null
  /\ loadedTrack = 0 /\ missed = FALSE

\* The callback gets the lock and looks what to play ...
BeginCallback ==
  /\ open /\ ~lock
  /\ lock' = TRUE
  /\ reading' = IF Sounding THEN filedata ELSE Null
  /\ UNCHANGED <<dos, open, player, choice, thread, history>>

\* ... and is done with the buffer.
EndCallback ==
  /\ lock
  /\ lock' = FALSE /\ reading' = Null
  /\ UNCHANGED <<dos, open, player, choice, thread, history>>

\* Mutant: what is loaded already is looked up among the requests.
AskForUnlessPending(t, start) ==
  /\ asked' = [track |-> t, start |-> start]
  /\ step' = IF t # pending THEN "load" ELSE "commit"
  /\ UNCHANGED <<data, old>>

\* play_music_track: the file is read only for a change of track.
AskFor(t, start) ==
  /\ asked' = [track |-> t, start |-> start]
  /\ step' = IF t # current THEN "load" ELSE "commit"
  /\ UNCHANGED <<data, old>>

PlayMusicTrack(t, start) ==
  /\ Idle /\ open /\ enabled
  /\ AskFor(t, start)
  /\ UNCHANGED <<device, player, choice, history>>

\* platform_music_load_track returns early: no file, an empty one, no memory, a
\* short read (whose buffer it frees), or in DOS mode no sequence of that name.  The
\* track that was loaded stays.
LoadTrackGivesUp ==
  /\ step = "load"
  /\ step' = "commit" /\ missed' = TRUE
  /\ UNCHANGED <<device, player, choice, asked, data, old, loadedTrack>>

\* The whole file is in memory; the player knows nothing of it yet.
LoadTrackReads ==
  /\ step = "load" /\ ~dos
  /\ \E b \in Buffers \ heap : heap' = heap \cup {b} /\ data' = b
  /\ step' = "swap"
  /\ UNCHANGED <<device, filedata, loaded, playing, sequence, choice, asked, old, history>>

\* Mutant: the module is replaced while the callback may be in it.
LoadTrackSwapsUnlocked(ok) ==
  /\ step = "swap"
  /\ playing' = FALSE /\ loaded' = ok /\ old' = filedata
  /\ filedata' = IF ok THEN data ELSE Null
  /\ step' = "free"
  /\ loadedTrack' = (IF ok THEN asked.track ELSE 0) /\ missed' = ~ok
  /\ UNCHANGED <<device, heap, sequence, choice, asked, data>>

\* Under the lock: the old module is unloaded, the new one installed, or refused.
LoadTrackSwaps(ok) ==
  /\ step = "swap" /\ ~lock
  /\ playing' = FALSE
  /\ loaded' = ok
  /\ old' = filedata
  /\ filedata' = IF ok THEN data ELSE Null
  /\ step' = "free"
  /\ loadedTrack' = (IF ok THEN asked.track ELSE 0)
  /\ missed' = ~ok
  /\ UNCHANGED <<device, heap, sequence, choice, asked, data>>

\* After the lock: the old file goes, and the new one if it was refused.
LoadTrackFrees ==
  /\ step = "free"
  /\ heap' = heap \ ({old} \cup IF loaded THEN {} ELSE {data})
  /\ step' = "commit" /\ data' = Null /\ old' = Null
  /\ UNCHANGED <<device, filedata, loaded, playing, sequence, choice, asked, history>>

\* platform_dosmidi_load_file, all of it under the lock: the old sequence is
\* stopped and released, its file freed, the new one read and registered.
LoadSequence(ok) ==
  /\ step = "load" /\ dos /\ ~lock
  /\ playing' = FALSE /\ sequence' = FALSE /\ loaded' = ok
  /\ IF ok THEN \E b \in Buffers \ (heap \ {filedata}) :
                   filedata' = b /\ heap' = (heap \ {filedata}) \cup {b}
           ELSE filedata' = Null /\ heap' = heap \ {filedata}
  /\ step' = "commit"
  /\ loadedTrack' = (IF ok THEN asked.track ELSE 0)
  /\ missed' = ~ok
  /\ UNCHANGED <<device, choice, asked, data, old>>

\* The rest of play_music_track: whether the file was there is not known here.
CommitTrack ==
  /\ step = "commit"
  /\ pending' = 0 /\ current' = asked.track
  /\ step' = (IF asked.start THEN "start" ELSE "idle")
  /\ asked' = NothingAsked
  /\ UNCHANGED <<device, player, enabled, data, old, history>>

\* platform_music_start, with platform_dosmidi_start.
MusicStart ==
  /\ step = "start" /\ ~lock
  /\ playing' = (playing \/ dos \/ loaded)
  /\ sequence' = (sequence \/ (dos /\ loaded))
  /\ enabled' = TRUE /\ step' = "idle"
  /\ UNCHANGED <<device, heap, filedata, loaded, current, pending, asked, data, old, history>>

Silence ==
  /\ playing' = FALSE /\ sequence' = FALSE
  /\ UNCHANGED <<heap, filedata, loaded>>

\* set_music_enabled: off stops the player, on starts one of tracks 2 to 4.
SwitchMusicOff ==
  /\ Idle /\ open /\ enabled /\ ~lock
  /\ enabled' = FALSE /\ Silence
  /\ UNCHANGED <<device, current, pending, thread, history>>

AmbientTracks == Tracks \cap 2 .. 4

SwitchMusicOn ==
  /\ Idle /\ open /\ ~enabled
  /\ enabled' = TRUE
  /\ \E r \in AmbientTracks : pending' = r /\ AskFor(r, TRUE)
  /\ UNCHANGED <<device, player, current, history>>

\* set_pending_music_track, from combat, doors, panels and conversations.
SetPendingMusicTrack(t) ==
  /\ Idle /\ open /\ pending' = t
  /\ UNCHANGED <<device, player, enabled, current, thread, history>>

\* advance_menu_music_track, when the current track has run its time.
AdvanceMenuMusicTrack ==
  PlayMusicTrack(IF current = 1 THEN 4 ELSE current, TRUE)

Combat(t) == t \in 5 .. 7
Jingle(t) == t \in {9, 11}

\* DAT_000873e0: the tracks after which another one is drawn.
OneShot(t) == t \in {0, 1, 9, 10, 11}

\* update_ingame_music_track.  wish is pending as the function leaves it before
\* it decides; fighting is the player's flag, roaming the mode DAT_00201b60 = 1.
Wish(dangerOver, fighting, r) ==
  IF Combat(current) /\ dangerOver THEN (IF fighting THEN 8 ELSE r) ELSE pending

AfterItsTime(wish, fighting, roaming, r) ==
  IF fighting THEN 8
  ELSE IF wish = 0 \/ (roaming /\ (OneShot(current) \/ current \in 2 .. 4))
       THEN r ELSE wish

UpdateIngameMusicTrack(elapsed, dangerOver, throttleOver, fighting, roaming, r) ==
  LET wish == Wish(dangerOver, fighting, r)
      next == AfterItsTime(wish, fighting, roaming, r)
      same == wish \in {0, current}
      held == ~same /\ Combat(current) /\ Combat(wish) /\ ~throttleOver
  IN /\ Idle /\ open /\ enabled
     /\ Jingle(current) => elapsed
     /\ \/ /\ same /\ ~elapsed
           /\ pending' = wish /\ UNCHANGED thread
        \/ /\ same /\ elapsed
           /\ pending' = wish /\ AskFor(next, TRUE)
        \/ /\ ~same /\ ~held
           /\ pending' = wish /\ AskFor(wish, TRUE)
        \/ /\ held
           /\ pending' = current /\ UNCHANGED thread
     /\ UNCHANGED <<device, player, enabled, current, history>>

\* platform_music_shutdown: closing the device waits for the callback.
MusicShutdown ==
  /\ Idle /\ open /\ ~lock
  /\ open' = FALSE
  /\ heap' = heap \ {filedata} /\ filedata' = Null
  /\ loaded' = FALSE /\ playing' = FALSE /\ sequence' = FALSE
  /\ UNCHANGED <<dos, lock, reading, choice, thread, history>>

UpdateIngameMusic ==
  \E elapsed, dangerOver, throttleOver, fighting, roaming \in BOOLEAN, r \in AmbientTracks :
    UpdateIngameMusicTrack(elapsed, dangerOver, throttleOver, fighting, roaming, r)

Next ==
  \/ BeginCallback \/ EndCallback
  \/ \E t \in Tracks, start \in BOOLEAN : PlayMusicTrack(t, start)
  \/ LoadTrackGivesUp \/ LoadTrackReads \/ LoadTrackFrees
  \/ \E ok \in BOOLEAN : LoadTrackSwaps(ok) \/ LoadSequence(ok)
  \/ CommitTrack \/ MusicStart
  \/ SwitchMusicOff \/ SwitchMusicOn
  \/ \E t \in Tracks : SetPendingMusicTrack(t)
  \/ AdvanceMenuMusicTrack \/ UpdateIngameMusic
  \/ MusicShutdown

Spec == Init /\ [][Next]_vars

------------------------------------------------------------------------------
\* The callback plays only from a buffer that has not been freed, and between
\* calls of the game thread the one buffer allocated is the one that is loaded
\* (platform_music_load_track frees outside the lock; platform_music_shutdown
\* frees after the device is closed).
BuffersLive ==
  /\ reading # Null => reading \in heap
  /\ Idle => heap = {filedata} \ {Null}

\* What is heard is the track the game believes is current, unless that track's
\* file could not be read (play_music_track records the number all the same); with
\* the music switched off nothing is heard, in either backend (set_music_enabled:
\* the DOS callback runs on, for the effects).
HeardIsCurrent == Idle /\ Sounding => enabled /\ (missed \/ loadedTrack = current)
=============================================================================
