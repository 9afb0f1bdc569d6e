------------------------------ MODULE MCOutput ------------------------------
(* What the player hears and reads: the four players that a callback on      *)
(* another thread shares with the game thread, and the message scroll with   *)
(* the answers it offers.  They share no state, so one of them runs in a     *)
(* behaviour while the others rest.                                          *)
EXTENDS Audio, ResponseMenu

CONSTANTS b1, b2, s1, s2

MCBuffers == {b1, b2}
MCTracks == {3, 5, 6, 9}
MCVoices == 0 .. 1
MCSounds == {s1, s2}
MCLength == [s \in {s1, s2} |-> IF s = s1 THEN 1 ELSE 2]
MCLines == {1, 2}
MCSlots == 1 .. 2
MCChannels == 1 .. 2
MCEffects == {0, 1}

\* Three rows; texts that fit, that do not, and that ask for [MORE] themselves.
TextRow(more, follows, ends) ==
  [shows |-> Prose, more |-> more, follows |-> follows, ends |-> ends]
PlainText(n, ends) ==
  [i \in 1 .. n |-> TextRow(FALSE, i < n, i < n \/ ends)]
MCTexts ==
  {PlainText(1, TRUE), PlainText(2, FALSE), PlainText(7, TRUE), PlainText(7, FALSE),
   <<TextRow(FALSE, TRUE, TRUE), TextRow(TRUE, TRUE, TRUE), TextRow(FALSE, FALSE, TRUE)>>}
MCMenus == {<<1, 2>>, <<2, 1>>, <<2, 1, 1>>}

VARIABLE which

MCInit ==
  /\ which \in {"music", "mixer", "voice", "dos", "text"}
  /\ AudioInit /\ Init
  /\ which # "music" => ~dos

AudioRuns ==
  /\ \/ which = "music" /\ MusicRuns
     \/ which = "mixer" /\ MixerRuns
     \/ which = "voice" /\ VoiceRuns
     \/ which = "dos" /\ DosRuns
  /\ UNCHANGED <<which, vars>>
TextRuns == which = "text" /\ Next /\ UNCHANGED <<which, audioVars>>

MCSpec ==
  /\ MCInit /\ [][AudioRuns \/ TextRuns]_<<which, audioVars, vars>>
  /\ which = "voice" => Voice!Fairness
  /\ which = "dos" => Dos!Fairness

PicturesAreReleased == Voice!PicturesAreReleased
SlotsComeBack == Dos!SlotsComeBack
=============================================================================
