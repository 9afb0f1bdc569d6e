-------------------------------- MODULE Audio --------------------------------
(***************************************************************************)
(* The audio backends together (audio.c, platform_*.c): music, sampled     *)
(* effects, spoken lines and the DOS driver's effects, each on a device    *)
(* with a callback thread and a lock of its own.  They share only malloc,  *)
(* of which each has buffers of its own here.                              *)
(***************************************************************************)
EXTENDS Integers

CONSTANTS
  Tracks, Buffers,     \* MusicPlayer, VoiceLine
  Null,                \* the null pointer
  Voices, Sounds, Length,  \* EffectMixer
  Lines, MaxLength,    \* VoiceLine
  Slots, Channels, Effects, MaxTicks  \* DosEffects

VARIABLES
  dos, open, lock, reading, heap, filedata, loaded, playing, sequence,
  enabled, track, pending, step, trackAsked, data, old, loadedTrack, fileMissed,
  mixLock, mixPcm, mixPos, mixLen, nextSteal, cache, mixStep, want, slot,
  vOpen, vLock, vReading, vHeap, pcm, pos, len, vStep, fresh, vOld,
  line, spoken, holding,
  channel, effect, ticks, locked, game, audio

Music == INSTANCE MusicPlayer WITH current <- track, asked <- trackAsked,
           missed <- fileMissed
Mixer == INSTANCE EffectMixer WITH NoSound <- Null, lock <- mixLock,
           pcm <- mixPcm, pos <- mixPos, len <- mixLen, step <- mixStep
Voice == INSTANCE VoiceLine WITH open <- vOpen, lock <- vLock,
           reading <- vReading, heap <- vHeap, step <- vStep, old <- vOld
Dos == INSTANCE DosEffects

musicVars == <<dos, open, lock, reading, heap, filedata, loaded, playing, sequence,
  enabled, track, pending, step, trackAsked, data, old, loadedTrack, fileMissed>>
mixerVars == <<mixLock, mixPcm, mixPos, mixLen, nextSteal, cache, mixStep, want, slot>>
voiceVars == <<vOpen, vLock, vReading, vHeap, pcm, pos, len, vStep, fresh, vOld,
  line, spoken, holding>>
dosVars == <<channel, effect, ticks, locked, game, audio>>
audioVars == <<musicVars, mixerVars, voiceVars, dosVars>>

AudioInit == Music!Init /\ Mixer!Init /\ Voice!Init /\ Dos!Init

\* A step of either thread on one device.
MusicRuns == Music!Next /\ UNCHANGED <<mixerVars, voiceVars, dosVars>>
MixerRuns == Mixer!Next /\ UNCHANGED <<musicVars, voiceVars, dosVars>>
VoiceRuns == Voice!Next /\ UNCHANGED <<musicVars, mixerVars, dosVars>>
DosRuns == Dos!Next /\ UNCHANGED <<musicVars, mixerVars, voiceVars>>

AudioNext == MusicRuns \/ MixerRuns \/ VoiceRuns \/ DosRuns
AudioSpec == AudioInit /\ [][AudioNext]_audioVars

------------------------------------------------------------------------------
\* No callback plays from a buffer that has been freed or is half written, whatever
\* the game thread loads, steals, swaps and frees meanwhile (platform_music.c,
\* platform_sfx.c, platform_voice.c).
BuffersLive == Music!BuffersLive /\ Voice!BuffersLive /\ Mixer!BuffersLive

\* What is heard is the track the game believes is current, unless its file could not
\* be read, and nothing is heard with the music switched off (play_music_track,
\* set_music_enabled).
HeardIsCurrent == Music!HeardIsCurrent
==============================================================================
