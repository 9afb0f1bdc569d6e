----------------------------- MODULE VoiceLine -----------------------------
(***************************************************************************)
(* Spoken lines: the one-voice device of platform_voice.c, played by the   *)
(* window that shows a picture page with speech (babl.c), which holds the  *)
(* picture until the line is over or the player skips it.                  *)
(***************************************************************************)
EXTENDS Integers

CONSTANTS
  Buffers,   \* sample buffers the allocator can return
  Lines,     \* numbers of spoken lines
  MaxLength, \* the longest line, in callback buffers
  Null       \* no buffer, no line

VARIABLES
  open,      \* the voice device is open
  lock,      \* the callback holds its lock
  reading,   \* the buffer the running callback copies from
  heap,      \* allocated buffers
  pcm, pos, len,    \* g_voice_pcm, g_voice_pos, g_voice_len
  step,      \* where the game thread is in platform_voice_play
  fresh,     \* its new_pcm and new_len
  old,       \* its old_pcm
  line,      \* the window's line (local_91), or Null
  spoken,    \* the window's flag 0x40: the line has been started
  holding    \* the window's flag 0x80: the picture waits for the line

device == <<open, lock, reading>>
voice == <<pcm, pos, len>>
thread == <<step, fresh, old>>
window == <<line, spoken, holding>>
vars == <<device, heap, voice, thread, window>>

NoData == [buf |-> Null, len |-> 0]
Idle == step = "idle"

Init ==
  /\ open = TRUE /\ lock = FALSE /\ reading = Null
  /\ heap = {} /\ pcm = Null /\ pos = 0 /\ len = 0
  /\ step = "idle" /\ fresh = NoData /\ old = Null
  /\ line = Null /\ spoken = FALSE /\ holding = FALSE

BeginCallback ==
  /\ open /\ ~lock /\ lock' = TRUE
  /\ reading' = IF pcm = Null \/ pos >= len THEN Null ELSE pcm
  /\ UNCHANGED <<open, heap, voice, thread, window>>

EndCallback ==
  /\ lock /\ lock' = FALSE /\ reading' = Null
  /\ pos' = (IF pcm = Null \/ pos >= len THEN pos ELSE pos + 1)
  /\ UNCHANGED <<open, heap, pcm, len, thread, window>>

\* The stream of the page names a line, also while another one is spoken ...
SayLine(n) ==
  /\ Idle /\ line' = n
  /\ UNCHANGED <<device, heap, voice, thread, spoken, holding>>

\* ... and asks for the picture to stay until it is over.
HoldPicture ==
  /\ Idle /\ holding' = TRUE
  /\ UNCHANGED <<device, heap, voice, thread, line, spoken>>

\* The window starts a line when none is being spoken.
StartLine ==
  /\ Idle /\ line # Null /\ ~spoken
  /\ spoken' = TRUE
  /\ step' = (IF open THEN "load" ELSE "idle")
  /\ UNCHANGED <<device, heap, voice, fresh, old, line, holding>>

\* platform_voice_play: no such file, a bad one, no memory: nothing changes.
LoadGivesUp ==
  /\ step = "load" /\ step' = "idle"
  /\ UNCHANGED <<device, heap, voice, fresh, old, window>>

LoadVoice ==
  /\ step = "load" /\ step' = "swap"
  /\ \E b \in Buffers \ heap, n \in 1 .. MaxLength :
       fresh' = [buf |-> b, len |-> n] /\ heap' = heap \cup {b}
  /\ UNCHANGED <<device, voice, old, window>>

SwapVoice ==
  /\ step = "swap" /\ ~lock /\ step' = "free"
  /\ old' = pcm /\ pcm' = fresh.buf /\ len' = fresh.len /\ pos' = 0
  /\ UNCHANGED <<device, heap, fresh, window>>

FreeOldVoice ==
  /\ step = "free" /\ step' = "idle"
  /\ heap' = heap \ {old} /\ old' = Null /\ fresh' = NoData
  /\ UNCHANGED <<device, voice, window>>

\* Mutant: only a stopped voice is finished.
FinishedLate == ~open \/ pcm = Null \/ pos > len

\* platform_voice_is_finished, under the lock when there is a voice.
Finished == ~open \/ pcm = Null \/ pos >= len

\* The waiting loop: babl_render_tick forgets a line that is over (a line named
\* meanwhile goes with it) ...
BablRenderTick ==
  /\ Idle /\ line # Null /\ spoken /\ ~lock /\ Finished
  /\ line' = Null /\ spoken' = FALSE
  /\ UNCHANGED <<device, heap, voice, thread, holding>>

\* ... and the picture is let go.
ReleasePicture ==
  /\ Idle /\ holding /\ (line # Null => spoken) /\ ~lock /\ Finished
  /\ holding' = FALSE
  /\ UNCHANGED <<device, heap, voice, thread, line, spoken>>

\* The player leaves the page: stop_voice_sample moves the position to the end.
LeavePage ==
  /\ Idle /\ ~lock
  /\ line' = Null /\ spoken' = FALSE /\ holding' = FALSE
  /\ pos' = (IF line # Null /\ open /\ pcm # Null THEN len ELSE pos)
  /\ UNCHANGED <<device, heap, pcm, len, thread>>

\* platform_voice_shutdown: closing the device waits for the callback.
VoiceShutdown ==
  /\ Idle /\ open /\ ~lock /\ line = Null /\ ~holding
  /\ open' = FALSE
  /\ heap' = heap \ {pcm} /\ pcm' = Null /\ pos' = 0 /\ len' = 0
  /\ UNCHANGED <<lock, reading, thread, window>>

Play == StartLine \/ LoadGivesUp \/ LoadVoice \/ SwapVoice \/ FreeOldVoice

Next ==
  \/ BeginCallback \/ EndCallback
  \/ \E n \in Lines : SayLine(n)
  \/ HoldPicture \/ Play \/ BablRenderTick \/ ReleasePicture
  \/ LeavePage \/ VoiceShutdown

\* The device asks for a buffer again and again; the game thread runs, and gets
\* the lock when it asks often enough: the callback lets go of it every time.
Fairness ==
  /\ WF_vars(BeginCallback) /\ WF_vars(EndCallback)
  /\ WF_vars(StartLine) /\ WF_vars(LoadGivesUp \/ LoadVoice) /\ WF_vars(FreeOldVoice)
  /\ SF_vars(SwapVoice)
  /\ SF_vars(BablRenderTick) /\ SF_vars(ReleasePicture)

Spec == Init /\ [][Next]_vars /\ Fairness

------------------------------------------------------------------------------
\* The callback copies only from an allocated buffer; between calls the one
\* buffer allocated is the voice's.
BuffersLive ==
  /\ reading # Null => reading \in heap
  /\ Idle => heap = {pcm} \ {Null}

\* A picture that waits for its line is released, though the player does nothing
\* and though the line's file may be missing.
PicturesAreReleased == holding ~> ~holding
=============================================================================
