---------------------------- MODULE DosEffects -----------------------------
(***************************************************************************)
(* Sound effects in DOS audio mode (platform_dosmidi.c): four slots, each  *)
(* holding a channel of the driver (uw_ail.c) for as many timer ticks as   *)
(* its note lasts.  The ticks come from the music device's callback, on    *)
(* SDL's thread, which takes the device lock; the game thread starts and   *)
(* stops effects from audio.c, which does not.  A step is one access to    *)
(* the shared slots or to the driver's channels.                           *)
(***************************************************************************)
EXTENDS Integers

CONSTANTS
  Slots,     \* 1 .. 4
  Channels,  \* the driver's channels that can be locked, numbers above 0
  Effects,   \* effect numbers; 0 is the movement sound
  MaxTicks   \* the longest effect

VARIABLES
  channel, effect, ticks,  \* g.sfx, field by field
  locked,    \* channels with the driver's lock flag
  game,      \* what the game thread is doing, with its local variables
  audio      \* what the callback is doing, with its local variables

slots == <<channel, effect, ticks>>
vars == <<slots, locked, game, audio>>

Rest == [do |-> "rest", slot |-> 1, ch |-> 0, id |-> 0]

Init ==
  /\ channel = [i \in Slots |-> 0] /\ effect = [i \in Slots |-> 0]
  /\ ticks = [i \in Slots |-> 0]
  /\ locked = {}
  /\ game = Rest /\ audio = Rest

\* platform_dosmidi_play_effect, from allocate_and_play_sound_channel: nothing
\* free, no channel, or the first free slot and a channel locked for it ...
FirstFree(i) == channel[i] = 0 /\ \A j \in 1 .. i - 1 : channel[j] # 0

PlayEffect(id) ==
  /\ game.do = "rest"
  /\ \E i \in Slots, ch \in Channels \ locked :
       /\ FirstFree(i)
       /\ locked' = locked \cup {ch}
       /\ game' = [do |-> "fill", slot |-> i, ch |-> ch, id |-> id]
  /\ UNCHANGED <<slots, audio>>

\* ... and the slot filled when the note has been sent.
FillSlot ==
  /\ game.do = "fill"
  /\ channel' = [channel EXCEPT ![game.slot] = game.ch]
  /\ effect' = [effect EXCEPT ![game.slot] = game.id]
  /\ \E n \in 1 .. MaxTicks : ticks' = [ticks EXCEPT ![game.slot] = n]
  /\ game' = Rest
  /\ UNCHANGED <<locked, audio>>

\* platform_dosmidi_stop_effect(0), from stop_movement_sound_handle: slot after
\* slot; release_sfx_slot reads the channel of a slot that sounds effect 0.
BeginStopEffect ==
  /\ game.do = "rest" /\ game' = [Rest EXCEPT !.do = "stop"]
  /\ UNCHANGED <<slots, locked, audio>>

\* Mutant: the loop stops one slot too early.
AdvanceStopsShort(t) ==
  IF t.slot + 2 \in Slots THEN [Rest EXCEPT !.do = "stop", !.slot = t.slot + 1] ELSE Rest

Advance(t) ==
  IF t.slot + 1 \in Slots THEN [Rest EXCEPT !.do = "stop", !.slot = t.slot + 1] ELSE Rest

StopEffect ==
  /\ game.do = "stop"
  /\ game' = IF channel[game.slot] # 0 /\ effect[game.slot] = 0
             THEN [game EXCEPT !.do = "release", !.ch = channel[game.slot]]
             ELSE Advance(game)
  /\ UNCHANGED <<slots, locked, audio>>

\* The rest of release_sfx_slot: the driver takes the channel back if it is
\* locked, and the slot is marked free.
ReleaseSlot(t) ==
  /\ locked' = locked \ {t.ch}
  /\ channel' = [channel EXCEPT ![t.slot] = 0]
  /\ UNCHANGED <<effect, ticks>>

GameReleases ==
  /\ game.do = "release" /\ ReleaseSlot(game)
  /\ game' = Advance(game)
  /\ UNCHANGED audio

\* driver_tick, in the callback: every slot in turn loses a tick and is released
\* at the last.
BeginDriverTick ==
  /\ audio.do = "rest" /\ audio' = [Rest EXCEPT !.do = "stop"]
  /\ UNCHANGED <<slots, locked, game>>

Expired(i) == ticks[i] - 1 <= 0

TickSlot ==
  /\ audio.do = "stop"
  /\ LET i == audio.slot
     IN IF channel[i] = 0 THEN audio' = Advance(audio) /\ UNCHANGED ticks
        ELSE /\ ticks' = [ticks EXCEPT ![i] = ticks[i] - 1]
             /\ audio' = IF Expired(i) THEN [audio EXCEPT !.do = "release", !.ch = channel[i]]
                                       ELSE Advance(audio)
  /\ UNCHANGED <<channel, effect, locked, game>>

AudioReleases ==
  /\ audio.do = "release" /\ ReleaseSlot(audio)
  /\ audio' = Advance(audio)
  /\ UNCHANGED game

DriverTick == BeginDriverTick \/ TickSlot \/ AudioReleases

Next ==
  \/ \E id \in Effects : PlayEffect(id)
  \/ FillSlot \/ BeginStopEffect \/ StopEffect \/ GameReleases
  \/ DriverTick

\* The device keeps asking for samples; a call of the game thread returns.
Fairness == WF_vars(DriverTick) /\ WF_vars(FillSlot \/ StopEffect \/ GameReleases)

Spec == Init /\ [][Next]_vars /\ Fairness

------------------------------------------------------------------------------
\* An effect's slot is free again some time after it was taken, if only the
\* driver ticks (driver_tick counts every slot down and releases it).
SlotsComeBack == \A i \in Slots : channel[i] # 0 ~> channel[i] = 0

\* When neither thread is at work, the channels locked in the driver are those of
\* the slots, one each: none is lost and none is sounding for two slots
\* (platform_music.h: the lock is for callers that change what the callback
\* touches too; audio.c calls the driver without it).
ChannelsAccountedFor ==
  game = Rest /\ audio = Rest =>
    /\ locked = {channel[i] : i \in Slots} \ {0}
    /\ \A i, j \in Slots : i # j /\ channel[i] # 0 => channel[i] # channel[j]
=============================================================================
