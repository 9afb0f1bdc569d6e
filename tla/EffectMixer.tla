---------------------------- MODULE EffectMixer ----------------------------
(***************************************************************************)
(* Sampled sound effects (platform_sfx.c): a cache of samples and a fixed  *)
(* set of voices mixed by sfx_audio_callback on SDL's thread.  The game    *)
(* thread writes a voice in three assignments under the device lock, one   *)
(* step each here, so that what the lock excludes can be seen.             *)
(***************************************************************************)
EXTENDS Integers

CONSTANTS
  Voices,    \* the voices, 0 .. SFX_MAX_VOICES - 1
  Sounds,    \* the samples there are
  Length,    \* the length of each, in callback buffers
  NoSound    \* a null pcm pointer

VARIABLES
  lock,      \* who holds the device lock: "none", "game", "audio"
  pcm, pos, len,  \* the fields of each voice
  nextSteal, \* g_sfx_next_steal_voice, modulo the number of voices
  cache,     \* what is known of each sample: "untried", "loaded", "missing"
  step,      \* where the game thread is in platform_sfx_play
  want,      \* the sample it plays
  slot       \* the voice it took

voices == <<pcm, pos, len>>
vars == <<lock, voices, nextSteal, cache, step, want, slot>>

N == 1 + CHOOSE m \in Voices : \A v \in Voices : v <= m
Done(v) == pcm[v] = NoSound \/ pos[v] >= len[v]

Init ==
  /\ lock = "none"
  /\ pcm = [v \in Voices |-> NoSound]
  /\ pos = [v \in Voices |-> 0] /\ len = [v \in Voices |-> 0]
  /\ nextSteal = 0
  /\ cache = [s \in Sounds |-> "untried"]
  /\ step = "idle" /\ want = NoSound /\ slot = 0

\* platform_sfx_play: a sample is looked for once, and remembered as missing.
SfxPlay(s) ==
  /\ step = "idle"
  /\ \/ /\ cache[s] = "untried"
        /\ \E found \in {"loaded", "missing"} : cache' = [cache EXCEPT ![s] = found]
     \/ cache[s] # "untried" /\ UNCHANGED cache
  /\ IF cache'[s] = "loaded" THEN step' = "lock" /\ want' = s
                             ELSE UNCHANGED <<step, want>>
  /\ UNCHANGED <<lock, voices, nextSteal, slot>>

\* SDL_LockAudioDevice waits for the callback.
LockDevice ==
  /\ step = "lock" /\ lock = "none"
  /\ lock' = "game" /\ step' = "pick"
  /\ UNCHANGED <<voices, nextSteal, cache, want, slot>>

\* sfx_pick_voice: the first finished voice, else the next in turn is stolen.
PickVoice ==
  \/ /\ \E v \in Voices : Done(v) /\ (\A u \in 0 .. v - 1 : ~Done(u)) /\ slot' = v
     /\ UNCHANGED nextSteal
  \/ /\ \A v \in Voices : ~Done(v)
     /\ slot' = nextSteal /\ nextSteal' = (nextSteal + 1) % N

TakeVoice ==
  /\ step = "pick" /\ PickVoice /\ step' = "pcm"
  /\ UNCHANGED <<lock, voices, cache, want>>

SetPcm ==
  /\ step = "pcm"
  /\ pcm' = [pcm EXCEPT ![slot] = want] /\ step' = "len"
  /\ UNCHANGED <<lock, pos, len, nextSteal, cache, want, slot>>

SetLen ==
  /\ step = "len"
  /\ len' = [len EXCEPT ![slot] = Length[want]] /\ step' = "pos"
  /\ UNCHANGED <<lock, pcm, pos, nextSteal, cache, want, slot>>

SetPos ==
  /\ step = "pos"
  /\ pos' = [pos EXCEPT ![slot] = 0] /\ step' = "idle"
  /\ lock' = "none"
  /\ UNCHANGED <<pcm, len, nextSteal, cache, want, slot>>

BeginMix ==
  /\ lock = "none" /\ lock' = "audio"
  /\ UNCHANGED <<voices, nextSteal, cache, step, want, slot>>

\* One buffer of the callback, for every voice.
Mixed(v) == IF Done(v) THEN pos[v] ELSE pos[v] + 1

EndMix ==
  /\ lock = "audio"
  /\ pos' = [v \in Voices |-> Mixed(v)]
  /\ lock' = "none"
  /\ UNCHANGED <<pcm, len, nextSteal, cache, step, want, slot>>

Next ==
  \/ \E s \in Sounds : SfxPlay(s)
  \/ LockDevice \/ TakeVoice \/ SetPcm \/ SetLen \/ SetPos
  \/ BeginMix \/ EndMix

Spec == Init /\ [][Next]_vars

------------------------------------------------------------------------------
\* While the callback mixes, no voice is half written: its position lies within
\* the sample its pointer names.
BuffersLive ==
  lock = "audio" =>
    \A v \in Voices : pcm[v] # NoSound => len[v] = Length[pcm[v]] /\ pos[v] <= len[v]
=============================================================================
