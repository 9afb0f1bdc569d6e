---------------------------- MODULE AudioProofs ----------------------------
(***************************************************************************)
(* Proofs about the audio backends: for any set of tracks, lines, samples, *)
(* voices and buffers, and either backend of the music.  The assumptions   *)
(* are that malloc does not return the null pointer where it succeeds, and *)
(* that SFX_MAX_VOICES is positive.                                        *)
(***************************************************************************)
EXTENDS Audio, TLAPS

----------------------------------------------------------------------------
(* The music player.                                                       *)

Types ==
  /\ dos \in BOOLEAN /\ lock \in BOOLEAN /\ loaded \in BOOLEAN /\ enabled \in BOOLEAN
  /\ heap \subseteq Buffers
  /\ step \in {"idle", "load", "swap", "free", "commit", "start"}

\* The callback never holds an older buffer than the one that is loaded: what is
\* loaded changes only while the callback does not hold the lock.
ReadsLoaded == reading # Null => lock /\ reading = filedata

\* Which buffers are allocated while a new file is read, installed and the old one
\* is freed (platform_music_load_track).
HeapByStep ==
  /\ step \in {"idle", "load", "commit", "start"} => heap = {filedata} \ {Null}
  /\ step = "swap" =>
       /\ data \in Buffers /\ data # filedata
       /\ heap = ({filedata} \ {Null}) \cup {data}
  /\ step = "free" =>
       /\ data \in Buffers /\ data # old
       /\ heap = ({old} \ {Null}) \cup {data}
       /\ filedata = IF loaded THEN data ELSE Null

\* The inductive invariant of the buffers.
BufferInv == Types /\ ReadsLoaded /\ HeapByStep

device_player == <<lock, reading, heap, filedata, loaded>>

\* Whatever update_ingame_music_track decides, it asks for one track or for none.
LEMMA UpdateIngameMusicAsks ==
  ASSUME Music!UpdateIngameMusic
  PROVE  /\ Music!Idle /\ enabled /\ UNCHANGED <<Music!device, Music!player, enabled, track, Music!history>>
         /\ UNCHANGED Music!thread \/ \E t : Music!AskFor(t, TRUE)
<1>1. PICK elapsed, dangerOver, throttleOver, fighting, roaming \in BOOLEAN,
           r \in Music!AmbientTracks :
        Music!UpdateIngameMusicTrack(elapsed, dangerOver, throttleOver, fighting, roaming, r)
  BY DEF Music!UpdateIngameMusic
<1>2. QED
  BY <1>1, Zenon DEF Music!UpdateIngameMusicTrack

\* The steps that concern neither buffers nor the lock: between calls, and on the
\* way into and out of the loading of a track.
LEMMA OtherStepsKeepBuffers ==
  ASSUME BufferInv, UNCHANGED <<dos, device_player, data, old>>, enabled' \in BOOLEAN,
         \/ step' = step
         \/ /\ step \in {"idle", "load", "commit", "start"}
            /\ step' \in {"idle", "load", "commit", "start"}
  PROVE  BufferInv'
BY DEF BufferInv, Types, ReadsLoaded, HeapByStep, device_player

\* Every step keeps the invariant.
LEMMA NextBufferInv ==
  ASSUME Null \notin Buffers, BufferInv, [Music!Next]_(Music!vars)
  PROVE  BufferInv'
<1> USE DEF Music!device, Music!player, Music!choice, Music!thread, Music!history
<1>1. CASE Music!BeginCallback
  <2>1. UNCHANGED <<heap, filedata, loaded, step, data, old, dos, enabled>>
    BY <1>1 DEF Music!BeginCallback
  <2>2. lock' = TRUE /\ (reading' # Null => reading' = filedata)
    BY <1>1 DEF Music!BeginCallback
  <2>3. QED
    BY <2>1, <2>2 DEF BufferInv, Types, ReadsLoaded, HeapByStep
<1>2. CASE Music!EndCallback
  <2>1. UNCHANGED <<heap, filedata, loaded, step, data, old, dos, enabled>>
    BY <1>2 DEF Music!EndCallback
  <2>2. lock' = FALSE /\ reading' = Null
    BY <1>2 DEF Music!EndCallback
  <2>3. QED
    BY <2>1, <2>2 DEF BufferInv, Types, ReadsLoaded, HeapByStep
<1>3. ASSUME NEW t, NEW start \in BOOLEAN, Music!PlayMusicTrack(t, start) PROVE BufferInv'
  BY <1>3, OtherStepsKeepBuffers
     DEF Music!PlayMusicTrack, Music!AskFor, Music!Idle, device_player, BufferInv, Types
<1>4. CASE Music!LoadTrackGivesUp
  BY <1>4, OtherStepsKeepBuffers DEF Music!LoadTrackGivesUp, device_player, BufferInv, Types
<1>5. CASE Music!LoadTrackReads
  <2>1. PICK b \in Buffers \ heap : heap' = heap \cup {b} /\ data' = b
    BY <1>5 DEF Music!LoadTrackReads
  <2>2. /\ step = "load" /\ step' = "swap"
        /\ UNCHANGED <<dos, lock, reading, filedata, loaded, enabled, old>>
    BY <1>5 DEF Music!LoadTrackReads
  <2>3. heap = {filedata} \ {Null}
    BY <2>2 DEF BufferInv, HeapByStep
  <2>4. QED
    BY <2>1, <2>2, <2>3 DEF BufferInv, Types, ReadsLoaded, HeapByStep
<1>6. ASSUME NEW ok \in BOOLEAN, Music!LoadTrackSwaps(ok) PROVE BufferInv'
  <2>1. /\ step = "swap" /\ step' = "free" /\ lock = FALSE
        /\ loaded' = ok /\ old' = filedata /\ filedata' = IF ok THEN data ELSE Null
        /\ UNCHANGED <<dos, lock, reading, heap, enabled, data>>
    BY <1>6 DEF Music!LoadTrackSwaps, BufferInv, Types
  <2>2. reading = Null
    BY <2>1 DEF BufferInv, ReadsLoaded
  <2>3. QED
    BY <2>1, <2>2 DEF BufferInv, Types, ReadsLoaded, HeapByStep
<1>7. CASE Music!LoadTrackFrees
  <2>1. /\ step = "free" /\ step' = "commit"
        /\ heap' = heap \ ({old} \cup IF loaded THEN {} ELSE {data})
        /\ UNCHANGED <<dos, lock, reading, filedata, loaded, enabled>>
    BY <1>7 DEF Music!LoadTrackFrees
  <2>2. /\ data \in Buffers /\ data # old /\ heap = ({old} \ {Null}) \cup {data}
        /\ filedata = IF loaded THEN data ELSE Null
    BY <2>1 DEF BufferInv, HeapByStep
  <2>3. heap' = {filedata} \ {Null}
    BY <2>1, <2>2
  <2>4. QED
    BY <2>1, <2>3 DEF BufferInv, Types, ReadsLoaded, HeapByStep
<1>8. ASSUME NEW ok \in BOOLEAN, Music!LoadSequence(ok) PROVE BufferInv'
  <2>1. /\ step = "load" /\ step' = "commit" /\ lock = FALSE /\ loaded' = ok
        /\ UNCHANGED <<dos, lock, reading, enabled, data, old>>
    BY <1>8 DEF Music!LoadSequence, BufferInv, Types
  <2>2. reading = Null /\ heap = {filedata} \ {Null}
    BY <2>1 DEF BufferInv, ReadsLoaded, HeapByStep
  <2>3. heap' = {filedata'} \ {Null} /\ heap' \subseteq Buffers
    <3>1. CASE ok
      BY <1>8, <2>2, <3>1 DEF Music!LoadSequence
    <3>2. CASE ~ok
      BY <1>8, <2>2, <3>2 DEF Music!LoadSequence
    <3>3. QED
      BY <3>1, <3>2
  <2>4. QED
    BY <2>1, <2>2, <2>3 DEF BufferInv, Types, ReadsLoaded, HeapByStep
<1>9. CASE Music!CommitTrack
  BY <1>9, OtherStepsKeepBuffers DEF Music!CommitTrack, device_player, BufferInv, Types
<1>10. CASE Music!MusicStart
  BY <1>10, OtherStepsKeepBuffers DEF Music!MusicStart, device_player, BufferInv, Types
<1>11. CASE Music!SwitchMusicOff
  BY <1>11, OtherStepsKeepBuffers
     DEF Music!SwitchMusicOff, Music!Silence, device_player, BufferInv, Types
<1>12. CASE Music!SwitchMusicOn
  BY <1>12, OtherStepsKeepBuffers
     DEF Music!SwitchMusicOn, Music!AskFor, Music!Idle, device_player, BufferInv, Types
<1>13. ASSUME NEW t, Music!SetPendingMusicTrack(t) PROVE BufferInv'
  BY <1>13, OtherStepsKeepBuffers DEF Music!SetPendingMusicTrack, device_player, BufferInv, Types
<1>14. CASE Music!AdvanceMenuMusicTrack
  BY <1>3, <1>14 DEF Music!AdvanceMenuMusicTrack
<1>15. CASE Music!UpdateIngameMusic
  <2>1. /\ UNCHANGED <<dos, device_player, enabled>> /\ Music!Idle
        /\ UNCHANGED Music!thread \/ \E t : Music!AskFor(t, TRUE)
    BY <1>15, UpdateIngameMusicAsks DEF device_player
  <2>2. QED
    BY <2>1, OtherStepsKeepBuffers DEF Music!AskFor, Music!Idle, BufferInv, Types
<1>16. CASE Music!MusicShutdown
  <2>1. /\ step = "idle" /\ step' = step /\ lock = FALSE /\ loaded' = FALSE
        /\ heap' = heap \ {filedata} /\ filedata' = Null
        /\ UNCHANGED <<dos, lock, reading, enabled, data, old>>
    BY <1>16 DEF Music!MusicShutdown, Music!Idle, BufferInv, Types
  <2>2. reading = Null /\ heap = {filedata} \ {Null}
    BY <2>1 DEF BufferInv, ReadsLoaded, HeapByStep
  <2>3. QED
    BY <2>1, <2>2 DEF BufferInv, Types, ReadsLoaded, HeapByStep
<1>17. CASE UNCHANGED Music!vars
  BY <1>17, OtherStepsKeepBuffers DEF Music!vars, device_player, BufferInv, Types
<1>18. QED
  BY <1>1, <1>2, <1>3, <1>4, <1>5, <1>6, <1>7, <1>8, <1>9, <1>10, <1>11, <1>12, <1>13,
     <1>14, <1>15, <1>16, <1>17 DEF Music!Next

\* The invariant says what the player promises.
LEMMA MusicBuffers ==
  ASSUME Null \notin Buffers
  PROVE  (Music!Init => BufferInv) /\ (BufferInv => Music!BuffersLive)
<1>1. Music!Init => BufferInv
  BY DEF Music!Init, BufferInv, Types, ReadsLoaded, HeapByStep
<1>2. BufferInv => Music!BuffersLive
  BY DEF BufferInv, Types, ReadsLoaded, HeapByStep, Music!BuffersLive, Music!Idle
<1>3. QED
  BY <1>1, <1>2

----------------------------------------------------------------------------
(* What is heard.                                                          *)

\* Once the game thread is past loading, the file that is loaded is the one it asked
\* for, unless that could not be read; and it has become the current track when the
\* number is recorded.
LoadedIsAsked ==
  /\ step \in {"idle", "start"} => fileMissed \/ loadedTrack = track
  /\ step \in {"free", "commit"} => fileMissed \/ loadedTrack = trackAsked.track

\* While the music is off no track is being loaded and nothing plays.
OffIsSilent == ~enabled => Music!Idle /\ ~playing /\ ~sequence

\* The inductive invariant of what is heard.
TrackInv == LoadedIsAsked /\ OffIsSilent

\* A change of track is a way into the loading, or past it when it is the same track.
LEMMA AskForKeepsTrack ==
  ASSUME TrackInv, Music!Idle, NEW t, NEW start, Music!AskFor(t, start),
         UNCHANGED <<track, fileMissed, loadedTrack>>, enabled'
  PROVE  TrackInv'
<1>1. step' \in {"load", "commit"} /\ (step' = "commit" => t = track) /\ trackAsked'.track = t
  BY DEF Music!AskFor
<1>2. fileMissed \/ loadedTrack = track
  BY DEF TrackInv, LoadedIsAsked, Music!Idle
<1>3. QED
  BY <1>1, <1>2 DEF TrackInv, LoadedIsAsked, OffIsSilent

\* Every step keeps the invariant.
LEMMA NextTrackInv ==
  ASSUME TrackInv, [Music!Next]_(Music!vars)
  PROVE  TrackInv'
<1> USE DEF Music!device, Music!player, Music!choice, Music!thread, Music!history
<1>1. CASE Music!BeginCallback \/ Music!EndCallback
  BY <1>1 DEF Music!BeginCallback, Music!EndCallback, TrackInv, LoadedIsAsked, OffIsSilent, Music!Idle
<1>2. ASSUME NEW t, NEW start, Music!PlayMusicTrack(t, start) PROVE TrackInv'
  BY <1>2, AskForKeepsTrack DEF Music!PlayMusicTrack
<1>3. CASE Music!LoadTrackGivesUp \/ Music!LoadTrackReads
  BY <1>3 DEF Music!LoadTrackGivesUp, Music!LoadTrackReads, TrackInv, LoadedIsAsked, OffIsSilent, Music!Idle
<1>4. ASSUME NEW ok \in BOOLEAN, Music!LoadTrackSwaps(ok) PROVE TrackInv'
  BY <1>4 DEF Music!LoadTrackSwaps, TrackInv, LoadedIsAsked, OffIsSilent, Music!Idle
<1>5. CASE Music!LoadTrackFrees
  BY <1>5 DEF Music!LoadTrackFrees, TrackInv, LoadedIsAsked, OffIsSilent, Music!Idle
<1>6. ASSUME NEW ok \in BOOLEAN, Music!LoadSequence(ok) PROVE TrackInv'
  <2>1. /\ step' = "commit" /\ (fileMissed' \/ loadedTrack' = trackAsked'.track)
        /\ step # "idle" /\ enabled' = enabled
    BY <1>6 DEF Music!LoadSequence
  <2>2. QED
    BY <2>1 DEF TrackInv, LoadedIsAsked, OffIsSilent, Music!Idle
<1>7. CASE Music!CommitTrack
  BY <1>7 DEF Music!CommitTrack, TrackInv, LoadedIsAsked, OffIsSilent, Music!Idle
<1>8. CASE Music!MusicStart
  BY <1>8 DEF Music!MusicStart, TrackInv, LoadedIsAsked, OffIsSilent
<1>9. CASE Music!SwitchMusicOff
  BY <1>9 DEF Music!SwitchMusicOff, Music!Silence, TrackInv, LoadedIsAsked, OffIsSilent, Music!Idle
<1>10. CASE Music!SwitchMusicOn
  <2>1. PICK r : Music!AskFor(r, TRUE)
    BY <1>10 DEF Music!SwitchMusicOn
  <2>2. Music!Idle /\ enabled' /\ UNCHANGED <<track, fileMissed, loadedTrack>>
    BY <1>10 DEF Music!SwitchMusicOn
  <2>3. QED
    BY <2>1, <2>2, AskForKeepsTrack
<1>11. ASSUME NEW t, Music!SetPendingMusicTrack(t) PROVE TrackInv'
  BY <1>11 DEF Music!SetPendingMusicTrack, TrackInv, LoadedIsAsked, OffIsSilent, Music!Idle
<1>12. CASE Music!AdvanceMenuMusicTrack
  BY <1>2, <1>12 DEF Music!AdvanceMenuMusicTrack
<1>13. CASE Music!UpdateIngameMusic
  <2>1. /\ Music!Idle /\ enabled /\ UNCHANGED <<Music!player, enabled, track, Music!history>>
        /\ UNCHANGED Music!thread \/ \E t : Music!AskFor(t, TRUE)
    BY <1>13, UpdateIngameMusicAsks
  <2>2. CASE UNCHANGED Music!thread
    BY <2>1, <2>2 DEF TrackInv, LoadedIsAsked, OffIsSilent, Music!Idle
  <2>3. CASE \E t : Music!AskFor(t, TRUE)
    BY <2>1, <2>3, AskForKeepsTrack
  <2>4. QED
    BY <2>1, <2>2, <2>3
<1>14. CASE Music!MusicShutdown
  BY <1>14 DEF Music!MusicShutdown, TrackInv, LoadedIsAsked, OffIsSilent, Music!Idle
<1>15. CASE UNCHANGED Music!vars
  BY <1>15 DEF Music!vars, TrackInv, LoadedIsAsked, OffIsSilent, Music!Idle
<1>16. QED
  BY <1>1, <1>2, <1>3, <1>4, <1>5, <1>6, <1>7, <1>8, <1>9, <1>10, <1>11, <1>12, <1>13,
     <1>14, <1>15 DEF Music!Next

----------------------------------------------------------------------------
(* The sampled effects.                                                    *)

\* What the constants are.
MixerHypothesis ==
  /\ \E k \in Nat : Voices = 0 .. k
  /\ Length \in [Sounds -> Nat]
  /\ Null \notin Sounds

MixTypes ==
  /\ mixLock \in {"none", "game", "audio"}
  /\ mixPcm \in [Voices -> Sounds \cup {Null}]
  /\ mixPos \in [Voices -> Nat] /\ mixLen \in [Voices -> Nat]
  /\ nextSteal \in Voices /\ slot \in Voices
  /\ mixStep \in {"idle", "lock", "pick", "pcm", "len", "pos"}
  /\ mixStep # "idle" => want \in Sounds

\* The game thread holds the device lock from the choice of a voice to its last field.
Locked == mixLock = "game" <=> mixStep \in {"pick", "pcm", "len", "pos"}

\* The position of a voice lies within the sample its pointer names.
Sound(v) == mixPcm[v] # Null => mixLen[v] = Length[mixPcm[v]] /\ mixPos[v] <= mixLen[v]

\* Every voice is so, the one excepted that is half written, of which the fields
\* already written are the new sample's.
VoicesSound ==
  /\ \A v \in Voices : (v = slot /\ mixStep \in {"len", "pos"}) \/ Sound(v)
  /\ mixStep \in {"len", "pos"} => mixPcm[slot] = want
  /\ mixStep = "pos" => mixLen[slot] = Length[want]

MixInv == MixTypes /\ Locked /\ VoicesSound

\* sfx_pick_voice takes a voice there is, and turns to one there is.
LEMMA PickVoiceTypes ==
  ASSUME MixerHypothesis, MixInv, Mixer!PickVoice
  PROVE  slot' \in Voices /\ nextSteal' \in Voices
<1>1. PICK k \in Nat : Voices = 0 .. k
  BY DEF MixerHypothesis
<1>2. nextSteal \in Voices
  BY DEF MixInv, MixTypes
<1>3. CASE \E v \in Voices : slot' = v /\ UNCHANGED nextSteal
  BY <1>2, <1>3
<1>4. CASE slot' = nextSteal /\ nextSteal' = (nextSteal + 1) % Mixer!N
  <2>1. Mixer!N \in Nat /\ Mixer!N = k + 1
    <3>1. \E m \in Voices : \A v \in Voices : v <= m
      <4>1. k \in Voices /\ \A v \in Voices : v <= k
        BY <1>1
      <4>2. QED
        BY <4>1
    <3>2. PICK m \in Voices : Mixer!N = 1 + m /\ \A v \in Voices : v <= m
      BY <3>1 DEF Mixer!N
    <3>3. k \in Voices /\ m <= k /\ m \in Nat
      BY <1>1, <3>2
    <3>4. QED
      BY <3>2, <3>3
  <2>2. nextSteal \in Nat
    BY <1>1, <1>2
  <2>3. nextSteal' \in 0 .. k
    BY <1>4, <2>1, <2>2
  <2>4. QED
    BY <1>1, <1>2, <1>4, <2>3
<1>5. QED
  BY <1>3, <1>4 DEF Mixer!PickVoice

\* Every step keeps the invariant.
LEMMA NextMixInv ==
  ASSUME MixerHypothesis, MixInv, [Mixer!Next]_(Mixer!vars)
  PROVE  MixInv'
<1> USE DEF Mixer!voices
<1>1. ASSUME NEW s \in Sounds, Mixer!SfxPlay(s) PROVE MixInv'
  BY <1>1 DEF Mixer!SfxPlay, MixInv, MixTypes, Locked, VoicesSound, Sound
<1>2. CASE Mixer!LockDevice
  BY <1>2 DEF Mixer!LockDevice, MixInv, MixTypes, Locked, VoicesSound, Sound
<1>3. CASE Mixer!TakeVoice
  <2>1. slot' \in Voices /\ nextSteal' \in Voices
    BY <1>3, PickVoiceTypes DEF Mixer!TakeVoice
  <2>2. \A v \in Voices : Sound(v)
    BY <1>3 DEF Mixer!TakeVoice, MixInv, VoicesSound
  <2>3. QED
    BY <1>3, <2>1, <2>2 DEF Mixer!TakeVoice, MixInv, MixTypes, Locked, VoicesSound, Sound
<1>4. CASE Mixer!SetPcm
  <2>1. mixStep = "pcm" /\ mixStep' = "len" /\ slot \in Voices /\ want \in Sounds
    BY <1>4 DEF Mixer!SetPcm, MixInv, MixTypes
  <2>2. /\ mixPcm' \in [Voices -> Sounds \cup {Null}] /\ mixPcm'[slot] = want
        /\ \A v \in Voices \ {slot} : mixPcm'[v] = mixPcm[v]
    BY <1>4, <2>1 DEF Mixer!SetPcm, MixInv, MixTypes
  <2>3. /\ UNCHANGED <<mixLock, mixPos, mixLen, nextSteal, want, slot>>
        /\ \A v \in Voices : Sound(v)
    BY <1>4, <2>1 DEF Mixer!SetPcm, MixInv, VoicesSound
  <2>4. QED
    BY <2>1, <2>2, <2>3 DEF MixInv, MixTypes, Locked, VoicesSound, Sound
<1>5. CASE Mixer!SetLen
  <2>1. mixStep = "len" /\ mixStep' = "pos" /\ slot \in Voices /\ want \in Sounds
    BY <1>5 DEF Mixer!SetLen, MixInv, MixTypes
  <2>2. /\ mixLen' \in [Voices -> Nat] /\ mixLen'[slot] = Length[want]
        /\ \A v \in Voices \ {slot} : mixLen'[v] = mixLen[v]
    BY <1>5, <2>1 DEF Mixer!SetLen, MixInv, MixTypes, MixerHypothesis
  <2>3. /\ UNCHANGED <<mixLock, mixPcm, mixPos, nextSteal, want, slot>> /\ mixPcm[slot] = want
        /\ \A v \in Voices \ {slot} : Sound(v)
    BY <1>5, <2>1 DEF Mixer!SetLen, MixInv, VoicesSound
  <2>4. QED
    BY <2>1, <2>2, <2>3 DEF MixInv, MixTypes, Locked, VoicesSound, Sound
<1>6. CASE Mixer!SetPos
  <2>1. mixStep = "pos" /\ mixStep' = "idle" /\ mixLock' = "none" /\ slot \in Voices /\ want \in Sounds
    BY <1>6 DEF Mixer!SetPos, MixInv, MixTypes
  <2>2. /\ mixPos' \in [Voices -> Nat] /\ mixPos'[slot] = 0
        /\ \A v \in Voices \ {slot} : mixPos'[v] = mixPos[v]
    BY <1>6, <2>1 DEF Mixer!SetPos, MixInv, MixTypes
  <2>3. /\ UNCHANGED <<mixPcm, mixLen, nextSteal, want, slot>>
        /\ mixPcm[slot] = want /\ mixLen[slot] = Length[want] /\ Length[want] \in Nat
        /\ \A v \in Voices \ {slot} : Sound(v)
    BY <1>6, <2>1 DEF Mixer!SetPos, MixInv, VoicesSound, MixerHypothesis
  <2>4. \A v \in Voices : Sound(v)'
    BY <2>2, <2>3 DEF Sound
  <2>5. QED
    BY <2>1, <2>2, <2>3, <2>4 DEF MixInv, MixTypes, Locked, VoicesSound
<1>7. CASE Mixer!BeginMix
  BY <1>7 DEF Mixer!BeginMix, MixInv, MixTypes, Locked, VoicesSound, Sound
<1>8. CASE Mixer!EndMix
  <2>1. /\ mixLock = "audio" /\ mixLock' = "none"
        /\ UNCHANGED <<mixPcm, mixLen, nextSteal, mixStep, want, slot>>
    BY <1>8 DEF Mixer!EndMix
  <2>2. mixStep \in {"idle", "lock"} /\ \A v \in Voices : Sound(v)
    BY <2>1 DEF MixInv, MixTypes, Locked, VoicesSound
  <2>3. ASSUME NEW v \in Voices
        PROVE  mixPos'[v] \in Nat /\ (Sound(v) => Sound(v)')
    <3>1. mixPos'[v] = Mixer!Mixed(v) /\ mixPos[v] \in Nat /\ mixLen[v] \in Nat
      BY <1>8 DEF Mixer!EndMix, MixInv, MixTypes
    <3>2. CASE Mixer!Done(v)
      BY <2>1, <3>1, <3>2 DEF Mixer!Mixed, Sound
    <3>3. CASE ~Mixer!Done(v)
      BY <2>1, <3>1, <3>3 DEF Mixer!Mixed, Sound, Mixer!Done
    <3>4. QED
      BY <3>2, <3>3
  <2>4. mixPos' \in [Voices -> Nat]
    BY <1>8, <2>3 DEF Mixer!EndMix
  <2>5. QED
    BY <2>1, <2>2, <2>3, <2>4 DEF MixInv, MixTypes, Locked, VoicesSound
<1>9. CASE UNCHANGED Mixer!vars
  BY <1>9 DEF Mixer!vars, MixInv, MixTypes, Locked, VoicesSound, Sound
<1>10. QED
  BY <1>1, <1>2, <1>3, <1>4, <1>5, <1>6, <1>7, <1>8, <1>9 DEF Mixer!Next

\* The invariant says what the mixer promises.
LEMMA MixerBuffers ==
  ASSUME MixerHypothesis
  PROVE  (Mixer!Init => MixInv) /\ (MixInv => Mixer!BuffersLive)
<1>1. Mixer!Init => MixInv
  <2>1. 0 \in Voices
    BY DEF MixerHypothesis
  <2>2. QED
    BY <2>1 DEF Mixer!Init, MixInv, MixTypes, Locked, VoicesSound, Sound
<1>2. MixInv => Mixer!BuffersLive
  BY DEF MixInv, MixTypes, Locked, VoicesSound, Sound, Mixer!BuffersLive
<1>3. QED
  BY <1>1, <1>2

----------------------------------------------------------------------------
(* The spoken line.                                                        *)

VoiceTypes ==
  /\ vLock \in BOOLEAN /\ vOpen \in BOOLEAN
  /\ vHeap \subseteq Buffers
  /\ vStep \in {"idle", "load", "swap", "free"}

\* The callback never holds an older buffer than the voice's: the voice changes
\* hands only while the callback does not hold the lock.
ReadsVoice == vReading # Null => vLock /\ vReading = pcm

\* Which buffers are allocated while platform_voice_play reads a line, installs it
\* and frees the one before.
VoiceHeapByStep ==
  /\ vStep \in {"idle", "load"} => vHeap = {pcm} \ {Null}
  /\ vStep = "swap" =>
       /\ fresh.buf \in Buffers /\ fresh.buf # pcm
       /\ vHeap = ({pcm} \ {Null}) \cup {fresh.buf}
  /\ vStep = "free" =>
       /\ pcm \in Buffers /\ pcm # vOld
       /\ vHeap = ({vOld} \ {Null}) \cup {pcm}

VoiceInv == VoiceTypes /\ ReadsVoice /\ VoiceHeapByStep

\* The steps that touch neither buffers nor the lock.
LEMMA OtherStepsKeepVoice ==
  ASSUME VoiceInv, UNCHANGED <<vLock, vReading, vHeap, pcm, fresh, vOld>>,
         vOpen' \in BOOLEAN,
         vStep' = vStep \/ (vStep \in {"idle", "load"} /\ vStep' \in {"idle", "load"})
  PROVE  VoiceInv'
BY DEF VoiceInv, VoiceTypes, ReadsVoice, VoiceHeapByStep

\* Every step keeps the invariant.
LEMMA NextVoiceInv ==
  ASSUME Null \notin Buffers, VoiceInv, [Voice!Next]_(Voice!vars)
  PROVE  VoiceInv'
<1> USE DEF Voice!device, Voice!voice, Voice!thread, Voice!window
<1>1. CASE Voice!BeginCallback
  <2>1. /\ UNCHANGED <<vOpen, vHeap, pcm, vStep, fresh, vOld>>
        /\ vLock' = TRUE /\ (vReading' # Null => vReading' = pcm)
    BY <1>1 DEF Voice!BeginCallback
  <2>2. QED
    BY <2>1 DEF VoiceInv, VoiceTypes, ReadsVoice, VoiceHeapByStep
<1>2. CASE Voice!EndCallback
  <2>1. /\ UNCHANGED <<vOpen, vHeap, pcm, vStep, fresh, vOld>>
        /\ vLock' = FALSE /\ vReading' = Null
    BY <1>2 DEF Voice!EndCallback
  <2>2. QED
    BY <2>1 DEF VoiceInv, VoiceTypes, ReadsVoice, VoiceHeapByStep
<1>3. ASSUME NEW n \in Lines, Voice!SayLine(n) PROVE VoiceInv'
  BY <1>3, OtherStepsKeepVoice DEF Voice!SayLine, VoiceInv, VoiceTypes
<1>4. CASE Voice!HoldPicture
  BY <1>4, OtherStepsKeepVoice DEF Voice!HoldPicture, VoiceInv, VoiceTypes
<1>5. CASE Voice!StartLine
  BY <1>5, OtherStepsKeepVoice DEF Voice!StartLine, Voice!Idle, VoiceInv, VoiceTypes
<1>6. CASE Voice!LoadGivesUp
  BY <1>6, OtherStepsKeepVoice DEF Voice!LoadGivesUp, VoiceInv, VoiceTypes
<1>7. CASE Voice!LoadVoice
  <2>1. PICK b \in Buffers \ vHeap, n \in 1 .. MaxLength :
          fresh' = [buf |-> b, len |-> n] /\ vHeap' = vHeap \cup {b}
    BY <1>7 DEF Voice!LoadVoice
  <2>2. /\ vStep = "load" /\ vStep' = "swap" /\ fresh'.buf = b
        /\ UNCHANGED <<vOpen, vLock, vReading, pcm, vOld>>
    BY <1>7, <2>1 DEF Voice!LoadVoice
  <2>3. vHeap = {pcm} \ {Null}
    BY <2>2 DEF VoiceInv, VoiceHeapByStep
  <2>4. QED
    BY <2>1, <2>2, <2>3 DEF VoiceInv, VoiceTypes, ReadsVoice, VoiceHeapByStep
<1>8. CASE Voice!SwapVoice
  <2>1. /\ vStep = "swap" /\ vStep' = "free" /\ vLock = FALSE
        /\ vOld' = pcm /\ pcm' = fresh.buf
        /\ UNCHANGED <<vOpen, vLock, vReading, vHeap, fresh>>
    BY <1>8 DEF Voice!SwapVoice, VoiceInv, VoiceTypes
  <2>2. vReading = Null
    BY <2>1 DEF VoiceInv, ReadsVoice
  <2>3. QED
    BY <2>1, <2>2 DEF VoiceInv, VoiceTypes, ReadsVoice, VoiceHeapByStep
<1>9. CASE Voice!FreeOldVoice
  <2>1. /\ vStep = "free" /\ vStep' = "idle" /\ vHeap' = vHeap \ {vOld}
        /\ UNCHANGED <<vOpen, vLock, vReading, pcm>>
    BY <1>9 DEF Voice!FreeOldVoice
  <2>2. pcm \in Buffers /\ pcm # vOld /\ vHeap = ({vOld} \ {Null}) \cup {pcm}
    BY <2>1 DEF VoiceInv, VoiceHeapByStep
  <2>3. vHeap' = {pcm} \ {Null}
    BY <2>1, <2>2
  <2>4. QED
    BY <2>1, <2>3 DEF VoiceInv, VoiceTypes, ReadsVoice, VoiceHeapByStep
<1>10. CASE Voice!BablRenderTick
  BY <1>10, OtherStepsKeepVoice DEF Voice!BablRenderTick, VoiceInv, VoiceTypes
<1>11. CASE Voice!ReleasePicture
  BY <1>11, OtherStepsKeepVoice DEF Voice!ReleasePicture, VoiceInv, VoiceTypes
<1>12. CASE Voice!LeavePage
  BY <1>12, OtherStepsKeepVoice DEF Voice!LeavePage, VoiceInv, VoiceTypes
<1>13. CASE Voice!VoiceShutdown
  <2>1. /\ vStep = "idle" /\ vStep' = vStep /\ vLock = FALSE /\ vOpen' = FALSE
        /\ vHeap' = vHeap \ {pcm} /\ pcm' = Null
        /\ UNCHANGED <<vLock, vReading, fresh, vOld>>
    BY <1>13 DEF Voice!VoiceShutdown, Voice!Idle, VoiceInv, VoiceTypes
  <2>2. vReading = Null /\ vHeap = {pcm} \ {Null}
    BY <2>1 DEF VoiceInv, ReadsVoice, VoiceHeapByStep
  <2>3. QED
    BY <2>1, <2>2 DEF VoiceInv, VoiceTypes, ReadsVoice, VoiceHeapByStep
<1>14. CASE UNCHANGED Voice!vars
  BY <1>14, OtherStepsKeepVoice DEF Voice!vars, VoiceInv, VoiceTypes
<1>15. QED
  BY <1>1, <1>2, <1>3, <1>4, <1>5, <1>6, <1>7, <1>8, <1>9, <1>10, <1>11, <1>12, <1>13,
     <1>14 DEF Voice!Next, Voice!Play

\* The invariant says what the voice promises.
LEMMA VoiceBuffers ==
  ASSUME Null \notin Buffers
  PROVE  (Voice!Init => VoiceInv) /\ (VoiceInv => Voice!BuffersLive)
<1>1. Voice!Init => VoiceInv
  BY DEF Voice!Init, VoiceInv, VoiceTypes, ReadsVoice, VoiceHeapByStep
<1>2. VoiceInv => Voice!BuffersLive
  <2>1. ASSUME VoiceInv, vReading # Null PROVE vReading \in vHeap
    BY <2>1 DEF VoiceInv, VoiceTypes, ReadsVoice, VoiceHeapByStep
  <2>2. QED
    BY <2>1 DEF VoiceInv, VoiceHeapByStep, Voice!BuffersLive, Voice!Idle
<1>3. QED
  BY <1>1, <1>2

----------------------------------------------------------------------------
(* The backends together.                                                  *)

\* A step of one device is none of the others.
LEMMA StepOfOneDevice ==
  ASSUME [AudioNext]_audioVars
  PROVE  /\ [Music!Next]_(Music!vars)
         /\ [Mixer!Next]_(Mixer!vars)
         /\ [Voice!Next]_(Voice!vars)
<1>1. UNCHANGED musicVars => UNCHANGED Music!vars
  BY DEF musicVars, Music!vars, Music!device, Music!player, Music!choice, Music!thread,
         Music!history
<1>2. UNCHANGED mixerVars => UNCHANGED Mixer!vars
  BY DEF mixerVars, Mixer!vars, Mixer!voices
<1>3. UNCHANGED voiceVars => UNCHANGED Voice!vars
  BY DEF voiceVars, Voice!vars, Voice!device, Voice!voice, Voice!thread, Voice!window
<1>4. QED
  BY <1>1, <1>2, <1>3 DEF AudioNext, MusicRuns, MixerRuns, VoiceRuns, DosRuns, audioVars

\* No callback reads a buffer that is freed or half written, and no file is left behind
\* in memory between calls, for every interleaving of the game thread, which frees old
\* buffers outside the locks and writes a voice field by field, with the callbacks
\* (platform_music_load_track, platform_dosmidi_load_file, platform_sfx_play,
\* platform_voice_play and the shutdowns).
THEOREM AudioBuffersAreLive ==
  ASSUME Null \notin Buffers, MixerHypothesis
  PROVE  AudioSpec => []BuffersLive
<1> DEFINE AudioInv == BufferInv /\ MixInv /\ VoiceInv
<1>1. AudioInit => AudioInv
  BY MusicBuffers, MixerBuffers, VoiceBuffers DEF AudioInit
<1>2. AudioInv /\ [AudioNext]_audioVars => AudioInv'
  BY StepOfOneDevice, NextBufferInv, NextMixInv, NextVoiceInv
<1>3. AudioInv => BuffersLive
  BY MusicBuffers, MixerBuffers, VoiceBuffers DEF BuffersLive
<1>4. QED
  BY <1>1, <1>2, <1>3, PTL DEF AudioSpec

\* What plays between calls is the track the game believes is current, unless its
\* file could not be read, and nothing plays while the music is off, in both backends
\* (play_music_track, update_ingame_music_track, set_music_enabled).
THEOREM CurrentIsHeard == AudioSpec => []HeardIsCurrent
<1>1. AudioInit => TrackInv
  BY DEF AudioInit, Music!Init, TrackInv, LoadedIsAsked, OffIsSilent, Music!Idle
<1>2. TrackInv /\ [AudioNext]_audioVars => TrackInv'
  BY StepOfOneDevice, NextTrackInv
<1>3. TrackInv => HeardIsCurrent
  BY DEF TrackInv, LoadedIsAsked, OffIsSilent, HeardIsCurrent, Music!HeardIsCurrent,
         Music!Sounding, Music!Idle
<1>4. QED
  BY <1>1, <1>2, <1>3, PTL DEF AudioSpec
=============================================================================
