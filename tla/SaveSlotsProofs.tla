-------------------------- MODULE SaveSlotsProofs --------------------------
(***************************************************************************)
(* Proofs about saved games, for any number of slots, any set of levels    *)
(* that has level 1 (which a new game and a load at the title screen take) *)
(* and any number of playthroughs; and, in the second half, about the file *)
(* of the levels within a directory (LevelArchive), for any set of entries,*)
(* any lengths and any sound archives to start from and to load.           *)
(***************************************************************************)
EXTENDS SaveSlots, LevelArchive, WellFoundedInduction, SequenceTheorems, TLAPS

SlotsHypothesis == LastSlot \in Nat /\ 1 \in Levels

Pages == [game : Games, level : Levels]

\* What is left of the four files at each point of a copy.
Suffixes ==
  {Parts, <<"bglobals", "player", "desc">>, <<"player", "desc">>, <<"desc">>, <<>>}

Copying == mode \in {"saving", "loading"}

\* A playthrough is in memory, also while another one is being loaded over it.
InMemory == mode \in {"playing", "saving"} \/ (mode = "loading" /\ ~fromTitle)

DiskTypes ==
  /\ lev \in [Dirs -> [Levels -> Pages] \cup {None}]
  /\ bglobals \in [Dirs -> Games \cup {None}]
  /\ player \in [Dirs -> Pages \cup {None}]

WorkTypes ==
  /\ mode \in {"title", "playing", "saving", "loading"}
  /\ ok \in BOOLEAN /\ fromTitle \in BOOLEAN /\ spoiled \in BOOLEAN
  /\ parts \in Suffixes
  /\ Copying => target \in Slots
  /\ InMemory => live \in Pages /\ game \in Games /\ level \in Levels

\* As long as every copy succeeded, the files already copied are the source's.
FilesCopied ==
  Copying /\ ok =>
    /\ parts # Parts => lev[Dest] = lev[Source] /\ lev[Source] # None
    /\ parts \in {<<"player", "desc">>, <<"desc">>, <<>>} => bglobals[Dest] = bglobals[Source]
    /\ parts \in {<<"desc">>, <<>>} => player[Dest] = player[Source] /\ player[Source] # None

\* While a slot is written it is no saved game, and \SAVE0 has the player of the
\* running one; once a load has begun to copy, \SAVE0 no longer belongs to it.
SlotWritten ==
  /\ mode = "saving" => saved[target] = None /\ player[0] = [game |-> game, level |-> level]
  /\ mode = "loading" => parts = Parts \/ spoiled

\* The two safety properties, a saved game's files also such as can be loaded and the
\* session's also while a load has copied nothing yet.
SlotsWhole ==
  /\ saved \in [Slots -> Games \cup {None}]
  /\ \A s \in Slots : saved[s] # None =>
       /\ OneGame(s, saved[s]) /\ player[s] # None /\ player[s].game = saved[s]
SessionWhole == InMemory /\ ~spoiled => OneGame(0, game) /\ live.game = game

SaveInv ==
  DiskTypes /\ WorkTypes /\ FilesCopied /\ SlotWritten /\ SlotsWhole /\ SessionWhole

\* The directories, and where copy_save_slot_files copies from and to.
LEMMA Directories ==
  ASSUME SlotsHypothesis
  PROVE  /\ 0 \in Dirs /\ 0 \notin Slots /\ Slots \subseteq Dirs
         /\ target \in Slots /\ mode = "saving" => Source = 0 /\ Dest = target
         /\ target \in Slots /\ mode = "loading" => Source = target /\ Dest = 0
BY DEF SlotsHypothesis, Dirs, Slots, Source, Dest

\* A level is committed to an archive that is there.
LEMMA CommitTypes ==
  ASSUME SlotsHypothesis, DiskTypes, live \in Pages, level \in Levels, Commit
  PROVE  /\ lev' \in [Dirs -> [Levels -> Pages] \cup {None}]
         /\ lev'[0] \in [Levels -> Pages]
         /\ \A l \in Levels : lev'[0][l] = IF l = level THEN live ELSE lev[0][l]
         /\ \A s \in Slots : lev'[s] = lev[s]
<1>1. lev[0] \in [Levels -> Pages]
  BY Directories DEF DiskTypes, Commit
<1>2. lev' = [lev EXCEPT ![0] = [lev[0] EXCEPT ![level] = live]]
  BY DEF Commit
<1>3. [lev[0] EXCEPT ![level] = live] \in [Levels -> Pages]
  BY <1>1
<1>4. lev'[0] = [lev[0] EXCEPT ![level] = live]
  BY <1>2, Directories DEF DiskTypes
<1>5. QED
  BY <1>1, <1>2, <1>3, <1>4, Directories DEF DiskTypes

\* A level committed to a whole session leaves it whole.
LEMMA CommitKeepsSession ==
  ASSUME SlotsHypothesis, SaveInv, mode = "playing", Commit, UNCHANGED <<bglobals, game>>
  PROVE  /\ lev' \in [Dirs -> [Levels -> Pages] \cup {None}]
         /\ lev'[0] \in [Levels -> Pages]
         /\ \A s \in Slots : lev'[s] = lev[s]
         /\ ~spoiled => OneGame(0, game)'
<1>1. live \in Pages /\ level \in Levels /\ DiskTypes
  BY DEF SaveInv, WorkTypes, InMemory
<1>2. ~spoiled => OneGame(0, game) /\ live.game = game
  BY DEF SaveInv, SessionWhole, InMemory
<1>3. \A l \in Levels : lev'[0][l] = IF l = level THEN live ELSE lev[0][l]
  BY <1>1, CommitTypes
<1>4. ~spoiled => OneGame(0, game)'
  BY <1>2, <1>3 DEF OneGame
<1>5. QED
  BY <1>1, <1>4, CommitTypes

\* Whatever leaves the files of the slots alone leaves the saved games whole.
LEMMA SlotsKept ==
  ASSUME SlotsWhole, UNCHANGED saved,
         \A s \in Slots : /\ lev'[s] = lev[s] /\ bglobals'[s] = bglobals[s]
                          /\ player'[s] = player[s]
  PROVE  SlotsWhole'
BY DEF SlotsWhole, OneGame

LEMMA NewGameKeeps ==
  ASSUME SlotsHypothesis, SaveInv, NEW g \in Games, NewGame(g)
  PROVE  SaveInv'
<1>1. /\ mode = "title" /\ mode' = "playing" /\ spoiled' = FALSE
      /\ game' = g /\ level' = 1 /\ live' = lev'[0][1]
      /\ UNCHANGED <<target, parts, ok, fromTitle, saved>>
      /\ lev' = [lev EXCEPT ![0] = Home(g)]
      /\ bglobals' = [bglobals EXCEPT ![0] = g]
      /\ player' = [player EXCEPT ![0] = [game |-> g, level |-> 1]]
  BY DEF NewGame
<1>2. Home(g) \in [Levels -> Pages] /\ \A l \in Levels : Home(g)[l] = [game |-> g, level |-> l]
  BY DEF Home, Pages
<1>3. [game |-> g, level |-> 1] \in Pages
  BY DEF Pages, SlotsHypothesis
<1>4. /\ lev'[0] = Home(g) /\ bglobals'[0] = g
      /\ \A s \in Slots : /\ lev'[s] = lev[s] /\ bglobals'[s] = bglobals[s]
                          /\ player'[s] = player[s]
  BY <1>1, Directories DEF SaveInv, DiskTypes
<1>5. DiskTypes'
  BY <1>1, <1>2, <1>3, Directories DEF SaveInv, DiskTypes
<1>6. live' = [game |-> g, level |-> 1]
  BY <1>1, <1>2, <1>4 DEF SlotsHypothesis
<1>7. WorkTypes' /\ FilesCopied' /\ SlotWritten'
  BY <1>1, <1>3, <1>6 DEF SaveInv, WorkTypes, FilesCopied, SlotWritten, Copying, InMemory,
       SlotsHypothesis
<1>8. SlotsWhole'
  BY <1>1, <1>4, SlotsKept DEF SaveInv
<1>9. SessionWhole'
  BY <1>1, <1>2, <1>4, <1>6 DEF SessionWhole, OneGame
<1>10. QED
  BY <1>5, <1>7, <1>8, <1>9 DEF SaveInv

LEMMA ConversationKeeps ==
  ASSUME SlotsHypothesis, SaveInv, SaveConversationGlobals
  PROVE  SaveInv'
<1>1. /\ mode = "playing" /\ bglobals' = [bglobals EXCEPT ![0] = game]
      /\ UNCHANGED <<lev, player, mode, target, parts, ok, fromTitle, game, level, live,
                     saved, spoiled>>
  BY DEF SaveConversationGlobals, work, memory, history
<1>2. game \in Games
  BY <1>1 DEF SaveInv, WorkTypes, InMemory
<1>3. bglobals'[0] = game /\ \A s \in Slots : bglobals'[s] = bglobals[s]
  BY <1>1, Directories DEF SaveInv, DiskTypes
<1>4. DiskTypes'
  BY <1>1, <1>2, Directories DEF SaveInv, DiskTypes
<1>5. WorkTypes' /\ FilesCopied' /\ SlotWritten'
  BY <1>1 DEF SaveInv, WorkTypes, FilesCopied, SlotWritten, Copying, InMemory
<1>6. SlotsWhole'
  BY <1>1, <1>3, SlotsKept DEF SaveInv
<1>7. SessionWhole'
  BY <1>1, <1>3 DEF SaveInv, SessionWhole, InMemory, OneGame
<1>8. QED
  BY <1>4, <1>5, <1>6, <1>7 DEF SaveInv

LEMMA TransitionKeeps ==
  ASSUME SlotsHypothesis, SaveInv, NEW l \in Levels, TransitionToLevel(l)
  PROVE  SaveInv'
<1>1. /\ mode = "playing" /\ Commit /\ live' = lev'[0][l] /\ level' = l
      /\ UNCHANGED <<bglobals, player, mode, target, parts, ok, fromTitle, game, saved, spoiled>>
  BY DEF TransitionToLevel, work, history
<1>2. /\ lev' \in [Dirs -> [Levels -> Pages] \cup {None}] /\ lev'[0] \in [Levels -> Pages]
      /\ \A s \in Slots : lev'[s] = lev[s]
      /\ ~spoiled => OneGame(0, game)'
  BY <1>1, CommitKeepsSession
<1>3. DiskTypes'
  BY <1>1, <1>2 DEF SaveInv, DiskTypes
<1>4. WorkTypes' /\ FilesCopied' /\ SlotWritten'
  BY <1>1, <1>2 DEF SaveInv, WorkTypes, FilesCopied, SlotWritten, Copying, InMemory
<1>5. SlotsWhole'
  BY <1>1, <1>2, SlotsKept DEF SaveInv
<1>6. SessionWhole'
  BY <1>1, <1>2 DEF SessionWhole, OneGame
<1>7. QED
  BY <1>3, <1>4, <1>5, <1>6 DEF SaveInv

LEMMA SaveGameKeeps ==
  ASSUME SlotsHypothesis, SaveInv, NEW s \in Slots, SaveGameToSlot(s)
  PROVE  SaveInv'
<1>1. PICK done \in 0 .. 3 :
        /\ player' = (IF done >= 2 THEN [player EXCEPT ![0] = [game |-> game, level |-> level]]
                                  ELSE player)
        /\ IF done = 3
           THEN /\ Commit
                /\ mode' = "saving" /\ target' = s /\ parts' = Parts /\ ok' = TRUE
                /\ saved' = [saved EXCEPT ![s] = None]
           ELSE UNCHANGED <<lev, mode, target, parts, ok, saved>>
  BY DEF SaveGameToSlot
<1>2. mode = "playing" /\ UNCHANGED <<bglobals, fromTitle, game, level, live, spoiled>>
  BY DEF SaveGameToSlot, memory
<1>3. game \in Games /\ level \in Levels /\ live \in Pages
  BY <1>2 DEF SaveInv, WorkTypes, InMemory
<1>4. [game |-> game, level |-> level] \in Pages
  BY <1>3 DEF Pages
<1>5. /\ player' \in [Dirs -> Pages \cup {None}]
      /\ \A t \in Slots : player'[t] = player[t]
      /\ done = 3 => player'[0] = [game |-> game, level |-> level]
  BY <1>1, <1>4, Directories DEF SaveInv, DiskTypes
<1>6. CASE done = 3
  <2>1. /\ Commit /\ mode' = "saving" /\ target' = s /\ parts' = Parts /\ ok' = TRUE
        /\ saved' = [saved EXCEPT ![s] = None]
    BY <1>1, <1>6
  <2>2. /\ lev' \in [Dirs -> [Levels -> Pages] \cup {None}]
        /\ \A t \in Slots : lev'[t] = lev[t]
        /\ ~spoiled => OneGame(0, game)'
    BY <1>2, <2>1, CommitKeepsSession
  <2>3. DiskTypes'
    BY <1>2, <1>5, <2>2 DEF SaveInv, DiskTypes
  <2>4. WorkTypes'
    BY <1>2, <1>3, <2>1 DEF SaveInv, WorkTypes, Copying, InMemory, Suffixes
  <2>5. FilesCopied'
    BY <2>1 DEF FilesCopied, Parts
  <2>6. /\ saved' \in [Slots -> Games \cup {None}] /\ saved'[s] = None
        /\ \A t \in Slots : t # s => saved'[t] = saved[t]
    BY <2>1 DEF SaveInv, SlotsWhole
  <2>7. SlotWritten'
    BY <1>2, <1>5, <1>6, <2>1, <2>6 DEF SlotWritten
  <2>8. SlotsWhole'
    BY <1>2, <1>5, <2>2, <2>6 DEF SaveInv, SlotsWhole, OneGame
  <2>9. SessionWhole'
    BY <1>2, <2>2 DEF SaveInv, SessionWhole, InMemory
  <2>10. QED
    BY <2>3, <2>4, <2>5, <2>7, <2>8, <2>9 DEF SaveInv
<1>7. CASE done # 3
  <2>1. UNCHANGED <<lev, mode, target, parts, ok, saved>>
    BY <1>1, <1>7
  <2>2. DiskTypes' /\ SlotsWhole'
    BY <1>2, <1>5, <2>1, SlotsKept DEF SaveInv, DiskTypes
  <2>3. WorkTypes' /\ FilesCopied' /\ SlotWritten' /\ SessionWhole'
    BY <1>2, <2>1 DEF SaveInv, WorkTypes, FilesCopied, SlotWritten, SessionWhole, Copying,
         InMemory, OneGame
  <2>4. QED
    BY <2>2, <2>3 DEF SaveInv
<1>8. QED
  BY <1>6, <1>7

LEMMA LoadGameKeeps ==
  ASSUME SlotsHypothesis, SaveInv, NEW s \in Slots, LoadGameFromSlot(s)
  PROVE  SaveInv'
<1>1. /\ mode \in {"playing", "title"} /\ mode' = "loading" /\ target' = s
      /\ parts' = Parts /\ ok' = TRUE
      /\ UNCHANGED <<lev, bglobals, player, game, level, live, saved, spoiled>>
  BY DEF LoadGameFromSlot, disk, memory, history
<1>2. fromTitle' \in BOOLEAN /\ (InMemory' => InMemory)
  <2>1. CASE mode = "title"
    BY <1>1, <2>1 DEF LoadGameFromSlot, InMemory
  <2>2. CASE mode = "playing"
    BY <1>1, <2>2 DEF LoadGameFromSlot, InMemory
  <2>3. QED
    BY <1>1, <2>1, <2>2
<1>3. DiskTypes' /\ SlotsWhole'
  BY <1>1, SlotsKept DEF SaveInv, DiskTypes
<1>4. WorkTypes'
  BY <1>1, <1>2 DEF SaveInv, WorkTypes, Copying, Suffixes
<1>5. FilesCopied' /\ SlotWritten'
  BY <1>1 DEF FilesCopied, SlotWritten, Parts
<1>6. SessionWhole'
  BY <1>1, <1>2 DEF SaveInv, SessionWhole, OneGame
<1>7. QED
  BY <1>3, <1>4, <1>5, <1>6 DEF SaveInv

\* The five stages of a copy.
LEMMA StagesOfCopy ==
  ASSUME parts \in Suffixes, parts # <<>>
  PROVE  \/ /\ parts = Parts /\ Head(parts) = "lev"
            /\ Tail(parts) = <<"bglobals", "player", "desc">>
         \/ /\ parts = <<"bglobals", "player", "desc">> /\ Head(parts) = "bglobals"
            /\ Tail(parts) = <<"player", "desc">>
         \/ /\ parts = <<"player", "desc">> /\ Head(parts) = "player"
            /\ Tail(parts) = <<"desc">>
         \/ /\ parts = <<"desc">> /\ Head(parts) = "desc"
            /\ Tail(parts) = <<>>
<1>1. CASE parts = Parts
  <2>1. Tail(Parts) = <<"bglobals", "player", "desc">> /\ Head(Parts) = "lev"
    BY DEF Parts
  <2>2. QED
    BY <1>1, <2>1, Zenon
<1>2. CASE parts = <<"bglobals", "player", "desc">>
  <2>1. Tail(<<"bglobals", "player", "desc">>) = <<"player", "desc">>
    OBVIOUS
  <2>2. Head(<<"bglobals", "player", "desc">>) = "bglobals"
    OBVIOUS
  <2>3. QED
    BY <1>2, <2>1, <2>2, Zenon
<1>3. CASE parts = <<"player", "desc">>
  <2>1. Tail(<<"player", "desc">>) = <<"desc">> /\ Head(<<"player", "desc">>) = "player"
    OBVIOUS
  <2>2. QED
    BY <1>3, <2>1, Zenon
<1>4. CASE parts = <<"desc">>
  <2>1. Tail(<<"desc">>) = <<>> /\ Head(<<"desc">>) = "desc"
    OBVIOUS
  <2>2. QED
    BY <1>4, <2>1, Zenon
<1>5. QED
  BY <1>1, <1>2, <1>3, <1>4, Zenon DEF Suffixes

LEMMA StagesDiffer ==
  /\ <<"bglobals", "player", "desc">> # Parts /\ <<"player", "desc">> # Parts
  /\ <<"desc">> # Parts /\ <<>> # Parts
  /\ <<"bglobals", "player", "desc">> \notin {<<"player", "desc">>, <<"desc">>, <<>>}
  /\ <<"player", "desc">> \notin {<<"desc">>, <<>>}
  /\ Parts \notin {<<"player", "desc">>, <<"desc">>, <<>>}
BY DEF Parts

\* What one file becomes: the same everywhere but where it is copied to, and there
\* the source's when it was copied.
FileStep(file, next, outcome) ==
  /\ \A d \in Dirs : d # Dest => next[d] = file[d]
  /\ next[Dest] \in {file[Dest], file[Source], None}
  /\ outcome = "copied" => file[Source] # None /\ next[Dest] = file[Source]

LEMMA CopiedFile ==
  ASSUME NEW S, NEW outcome \in {"copied", "missing", "broken"}, Dest \in Dirs,
         Source \in Dirs
  PROVE  /\ lev \in [Dirs -> S] /\ None \in S /\ Copied(lev, outcome) =>
              lev' \in [Dirs -> S] /\ FileStep(lev, lev', outcome)
         /\ bglobals \in [Dirs -> S] /\ None \in S /\ Copied(bglobals, outcome) =>
              bglobals' \in [Dirs -> S] /\ FileStep(bglobals, bglobals', outcome)
         /\ player \in [Dirs -> S] /\ None \in S /\ Copied(player, outcome) =>
              player' \in [Dirs -> S] /\ FileStep(player, player', outcome)
<1>1. ASSUME NEW file, NEW next, file \in [Dirs -> S], None \in S,
             \/ next = [file EXCEPT ![Dest] = file[Source]] /\ file[Source] # None
             \/ next = file /\ outcome # "copied"
             \/ next = [file EXCEPT ![Dest] = None] /\ outcome # "copied"
      PROVE  next \in [Dirs -> S] /\ FileStep(file, next, outcome)
  BY <1>1 DEF FileStep
<1>2. lev \in [Dirs -> S] /\ None \in S /\ Copied(lev, outcome) =>
              lev' \in [Dirs -> S] /\ FileStep(lev, lev', outcome)
  BY <1>1 DEF Copied
<1>3. bglobals \in [Dirs -> S] /\ None \in S /\ Copied(bglobals, outcome) =>
              bglobals' \in [Dirs -> S] /\ FileStep(bglobals, bglobals', outcome)
  BY <1>1 DEF Copied
<1>4. player \in [Dirs -> S] /\ None \in S /\ Copied(player, outcome) =>
              player' \in [Dirs -> S] /\ FileStep(player, player', outcome)
  BY <1>1 DEF Copied
<1>5. QED
  BY <1>2, <1>3, <1>4

\* One file is copied: the directories copied to and from, and what stays.
LEMMA CopyChanges ==
  ASSUME SlotsHypothesis, SaveInv, NEW outcome \in {"copied", "missing", "broken"},
         CopySaveSlotFile(outcome)
  PROVE  /\ DiskTypes'
         /\ \A d \in Dirs : d # Dest =>
              lev'[d] = lev[d] /\ bglobals'[d] = bglobals[d] /\ player'[d] = player[d]
         /\ Head(parts) = "lev" => FileStep(lev, lev', outcome)
         /\ Head(parts) # "lev" => lev' = lev
         /\ Head(parts) = "bglobals" => FileStep(bglobals, bglobals', outcome)
         /\ Head(parts) # "bglobals" => bglobals' = bglobals
         /\ Head(parts) = "player" => FileStep(player, player', outcome)
         /\ Head(parts) # "player" => player' = player
<1>1. /\ mode \in {"saving", "loading"} /\ target \in Slots
      /\ Dest \in Dirs /\ Source \in Dirs
  BY Directories DEF CopySaveSlotFile, SaveInv, WorkTypes, Copying
<1>2. /\ IF Head(parts) = "lev" THEN Copied(lev, outcome) ELSE UNCHANGED lev
      /\ IF Head(parts) = "bglobals" THEN Copied(bglobals, outcome) ELSE UNCHANGED bglobals
      /\ IF Head(parts) = "player" THEN Copied(player, outcome) ELSE UNCHANGED player
  BY DEF CopySaveSlotFile
<1>3. /\ lev' \in [Dirs -> [Levels -> Pages] \cup {None}]
      /\ Head(parts) = "lev" => FileStep(lev, lev', outcome)
  <2>1. CASE Head(parts) = "lev"
    BY <1>1, <1>2, <2>1, CopiedFile DEF SaveInv, DiskTypes
  <2>2. CASE Head(parts) # "lev"
    BY <1>2, <2>2 DEF SaveInv, DiskTypes
  <2>3. QED
    BY <2>1, <2>2
<1>4. /\ bglobals' \in [Dirs -> Games \cup {None}]
      /\ Head(parts) = "bglobals" => FileStep(bglobals, bglobals', outcome)
  <2>1. CASE Head(parts) = "bglobals"
    BY <1>1, <1>2, <2>1, CopiedFile DEF SaveInv, DiskTypes
  <2>2. CASE Head(parts) # "bglobals"
    BY <1>2, <2>2 DEF SaveInv, DiskTypes
  <2>3. QED
    BY <2>1, <2>2
<1>5. /\ player' \in [Dirs -> Pages \cup {None}]
      /\ Head(parts) = "player" => FileStep(player, player', outcome)
  <2>1. CASE Head(parts) = "player"
    BY <1>1, <1>2, <2>1, CopiedFile DEF SaveInv, DiskTypes
  <2>2. CASE Head(parts) # "player"
    BY <1>2, <2>2 DEF SaveInv, DiskTypes
  <2>3. QED
    BY <2>1, <2>2
<1>6. QED
  BY <1>2, <1>3, <1>4, <1>5 DEF DiskTypes, FileStep

LEMMA CopyKeeps ==
  ASSUME SlotsHypothesis, SaveInv, NEW outcome \in {"copied", "missing", "broken"},
         CopySaveSlotFile(outcome)
  PROVE  SaveInv'
<1>1. /\ Copying /\ parts # <<>> /\ parts' = Tail(parts)
      /\ spoiled' = (spoiled \/ mode = "loading")
      /\ ok' = (ok /\ (outcome = "copied" \/ Head(parts) = "desc"))
      /\ UNCHANGED <<mode, target, fromTitle, game, level, live, saved>>
  BY DEF CopySaveSlotFile, Copying, memory
<1>2. /\ target \in Slots /\ parts \in Suffixes /\ ok \in BOOLEAN /\ spoiled \in BOOLEAN
      /\ Dest' = Dest /\ Source' = Source
  BY <1>1 DEF SaveInv, WorkTypes, Source, Dest
<1>3. /\ Dest \in Dirs /\ Source \in Dirs /\ Source # Dest /\ 0 \in Dirs
      /\ Slots \subseteq Dirs /\ 0 \notin Slots
      /\ mode = "saving" => Source = 0 /\ Dest = target
      /\ mode = "loading" => Source = target /\ Dest = 0
  BY <1>1, <1>2, Directories DEF Copying
<1>4. \A d \in Dirs : d # Dest =>
        lev'[d] = lev[d] /\ bglobals'[d] = bglobals[d] /\ player'[d] = player[d]
  BY CopyChanges
<1>5. DiskTypes'
  BY CopyChanges
<1>6. WorkTypes'
  <2>1. parts' \in Suffixes
    BY <1>1, <1>2, StagesOfCopy DEF Suffixes
  <2>2. ok' \in BOOLEAN /\ spoiled' \in BOOLEAN
    BY <1>1, Zenon
  <2>3. QED
    BY <1>1, <2>1, <2>2 DEF SaveInv, WorkTypes, Copying, InMemory
<1>7. FilesCopied'
  <2> SUFFICES ASSUME ok'
               PROVE  /\ parts' # Parts => lev'[Dest] = lev'[Source] /\ lev'[Source] # None
                      /\ parts' \in {<<"player", "desc">>, <<"desc">>, <<>>} =>
                           bglobals'[Dest] = bglobals'[Source]
                      /\ parts' \in {<<"desc">>, <<>>} =>
                           player'[Dest] = player'[Source] /\ player'[Source] # None
    BY <1>2, Zenon DEF FilesCopied
  <2>1. ok /\ (outcome = "copied" \/ Head(parts) = "desc")
    BY <1>1
  <2>2. /\ parts # Parts => lev[Dest] = lev[Source] /\ lev[Source] # None
        /\ parts \in {<<"player", "desc">>, <<"desc">>, <<>>} => bglobals[Dest] = bglobals[Source]
        /\ parts \in {<<"desc">>, <<>>} => player[Dest] = player[Source] /\ player[Source] # None
    BY <1>1, <2>1 DEF SaveInv, FilesCopied
  <2>3. /\ lev'[Source] = lev[Source] /\ bglobals'[Source] = bglobals[Source]
        /\ player'[Source] = player[Source]
    BY <1>3, <1>4
  <2>4. CASE parts = Parts /\ Head(parts) = "lev" /\ parts' = <<"bglobals", "player", "desc">>
    <3>1. lev'[Dest] = lev[Source] /\ lev[Source] # None
      BY <2>1, <2>4, CopyChanges DEF FileStep
    <3>2. QED
      BY <2>3, <2>4, <3>1, StagesDiffer
  <2>5. CASE /\ parts = <<"bglobals", "player", "desc">> /\ Head(parts) = "bglobals"
             /\ parts' = <<"player", "desc">>
    <3>1. bglobals'[Dest] = bglobals[Source] /\ lev' = lev
      BY <2>1, <2>5, CopyChanges DEF FileStep
    <3>2. QED
      BY <2>2, <2>3, <2>5, <3>1, StagesDiffer
  <2>6. CASE parts = <<"player", "desc">> /\ Head(parts) = "player" /\ parts' = <<"desc">>
    <3>1. /\ player'[Dest] = player[Source] /\ player[Source] # None
          /\ lev' = lev /\ bglobals' = bglobals
      BY <2>1, <2>6, CopyChanges DEF FileStep
    <3>2. QED
      BY <2>2, <2>3, <2>6, <3>1, StagesDiffer
  <2>7. CASE parts = <<"desc">> /\ Head(parts) = "desc" /\ parts' = <<>>
    <3>1. lev' = lev /\ bglobals' = bglobals /\ player' = player
      BY <2>7, CopyChanges
    <3>2. QED
      BY <2>2, <2>7, <3>1, StagesDiffer
  <2>8. QED
    BY <1>1, <1>2, <2>4, <2>5, <2>6, <2>7, StagesOfCopy
<1>8. SlotWritten'
  <2>1. mode = "saving" => player'[0] = player[0]
    BY <1>2, <1>3, <1>4
  <2>2. mode = "loading" => spoiled' = TRUE
    BY <1>1, Zenon
  <2>3. QED
    BY <1>1, <2>1, <2>2 DEF SaveInv, SlotWritten
<1>9. SlotsWhole'
  <2>1. ASSUME NEW s \in Slots, saved[s] # None
        PROVE  /\ lev'[s] = lev[s] /\ bglobals'[s] = bglobals[s] /\ player'[s] = player[s]
    <3>1. s # Dest
      BY <1>1, <1>3, <2>1 DEF SaveInv, SlotWritten, Copying
    <3>2. QED
      BY <1>3, <1>4, <3>1
  <2>2. QED
    BY <1>1, <2>1 DEF SaveInv, SlotsWhole, OneGame
<1>10. SessionWhole'
  <2>1. CASE mode = "saving"
    <3>1. lev'[0] = lev[0] /\ bglobals'[0] = bglobals[0] /\ (spoiled' => spoiled) /\ (spoiled => spoiled')
      BY <1>1, <1>2, <1>3, <1>4, <2>1
    <3>2. QED
      BY <1>1, <2>1, <3>1 DEF SaveInv, SessionWhole, InMemory, OneGame
  <2>2. CASE mode = "loading"
    BY <1>1, <2>2 DEF SessionWhole
  <2>3. QED
    BY <1>1, <2>1, <2>2 DEF Copying
<1>11. QED
  BY <1>5, <1>6, <1>7, <1>8, <1>9, <1>10 DEF SaveInv

LEMMA EndSaveKeeps ==
  ASSUME SlotsHypothesis, SaveInv, EndSave
  PROVE  SaveInv'
<1>1. /\ mode = "saving" /\ parts = <<>> /\ mode' = "playing"
      /\ saved' = (IF ok /\ ~spoiled THEN [saved EXCEPT ![target] = game] ELSE saved)
      /\ ok' = TRUE /\ UNCHANGED <<lev, bglobals, player, parts, fromTitle, game, level, live, spoiled>>
  BY DEF EndSave, disk, memory
<1>2. /\ target \in Slots /\ game \in Games
      /\ Source = 0 /\ Dest = target
  BY <1>1, Directories DEF SaveInv, WorkTypes, Copying, InMemory
<1>3. DiskTypes' /\ WorkTypes' /\ FilesCopied' /\ SlotWritten' /\ SessionWhole'
  BY <1>1 DEF SaveInv, DiskTypes, WorkTypes, FilesCopied, SlotWritten, SessionWhole,
     Copying, InMemory, OneGame
<1>4. CASE ok /\ ~spoiled
  <2>1. saved' = [saved EXCEPT ![target] = game]
    BY <1>1, <1>4
  <2>2. /\ lev[target] = lev[0] /\ bglobals[target] = bglobals[0]
        /\ player[target] = player[0] /\ player[0] # None
    BY <1>1, <1>2, <1>4, StagesDiffer DEF SaveInv, FilesCopied, Copying
  <2>3. OneGame(0, game) /\ player[0] = [game |-> game, level |-> level]
    BY <1>1, <1>4 DEF SaveInv, SessionWhole, SlotWritten, InMemory
  <2>4. OneGame(target, game) /\ player[target] # None /\ player[target].game = game
    BY <2>2, <2>3 DEF OneGame
  <2>5. SlotsWhole'
    BY <1>1, <1>2, <2>1, <2>4 DEF SaveInv, SlotsWhole, OneGame
  <2>6. QED
    BY <1>3, <2>5 DEF SaveInv
<1>5. CASE ~(ok /\ ~spoiled)
  <2>1. SlotsWhole'
    BY <1>1, <1>5, SlotsKept DEF SaveInv
  <2>2. QED
    BY <1>3, <2>1 DEF SaveInv
<1>6. QED
  BY <1>4, <1>5

LEMMA LoadTakenKeeps ==
  ASSUME SlotsHypothesis, SaveInv, LoadTaken
  PROVE  SaveInv'
<1>1. /\ mode = "loading" /\ parts = <<>> /\ ok
      /\ game' = player[0].game /\ level' = player[0].level
      /\ live' = lev[0][LevelLoaded] /\ mode' = "playing"
      /\ spoiled' = (saved[target] = None)
      /\ ok' = TRUE /\ fromTitle' = TRUE
      /\ UNCHANGED <<lev, bglobals, player, parts, saved>>
  BY DEF LoadTaken, disk
<1>2. target \in Slots /\ target \in Dirs /\ 0 \in Dirs /\ Source = target /\ Dest = 0
  BY <1>1, Directories DEF SaveInv, WorkTypes, Copying
<1>3. /\ lev[0] = lev[target] /\ lev[target] # None /\ bglobals[0] = bglobals[target]
      /\ player[0] = player[target] /\ player[target] # None
  BY <1>1, <1>2, StagesDiffer DEF SaveInv, FilesCopied, Copying
<1>4. lev[0] \in [Levels -> Pages] /\ player[0] \in Pages
  BY <1>2, <1>3 DEF SaveInv, DiskTypes
<1>5. game' \in Games /\ level' \in Levels
  BY <1>1, <1>4 DEF Pages
<1>6. LevelLoaded \in Levels /\ live' \in Pages
  BY <1>1, <1>4, <1>5 DEF LevelLoaded, SlotsHypothesis
<1>7. DiskTypes' /\ FilesCopied' /\ SlotWritten'
  BY <1>1 DEF SaveInv, DiskTypes, FilesCopied, SlotWritten, Copying
<1>8. WorkTypes'
  <2>1. spoiled' \in BOOLEAN
    BY <1>1, Zenon
  <2>2. QED
    BY <1>1, <1>5, <1>6, <2>1 DEF SaveInv, WorkTypes, Copying, InMemory
<1>9. SlotsWhole'
  BY <1>1, SlotsKept DEF SaveInv
<1>10. SessionWhole'
  <2> SUFFICES ASSUME ~spoiled' PROVE OneGame(0, game)' /\ live'.game = game'
    BY Zenon DEF SessionWhole
  <2>1. saved[target] # None
    BY <1>1
  <2>2. OneGame(target, saved[target]) /\ player[target].game = saved[target]
    BY <1>2, <2>1 DEF SaveInv, SlotsWhole
  <2>3. game' = saved[target] /\ OneGame(0, saved[target])
    BY <1>1, <1>3, <2>2 DEF OneGame
  <2>4. QED
    BY <1>1, <1>6, <2>3 DEF OneGame
<1>11. QED
  BY <1>7, <1>8, <1>9, <1>10 DEF SaveInv

LEMMA LoadRefusedKeeps ==
  ASSUME SlotsHypothesis, SaveInv, LoadRefused
  PROVE  SaveInv'
<1>1. /\ mode = "loading" /\ parts = <<>>
      /\ mode' = (IF fromTitle THEN "title" ELSE "playing") /\ ok' = TRUE /\ fromTitle' = TRUE
      /\ UNCHANGED <<lev, bglobals, player, parts, game, level, live, saved, spoiled>>
  BY DEF LoadRefused, disk, memory, history
<1>2. spoiled /\ spoiled'
  BY <1>1, StagesDiffer DEF SaveInv, SlotWritten
<1>3. mode' \in {"title", "playing"} /\ (mode' = "playing" => ~fromTitle)
  BY <1>1
<1>4. DiskTypes' /\ SlotsWhole'
  BY <1>1, SlotsKept DEF SaveInv, DiskTypes
<1>5. WorkTypes' /\ FilesCopied' /\ SlotWritten' /\ SessionWhole'
  BY <1>1, <1>2, <1>3 DEF SaveInv, WorkTypes, FilesCopied, SlotWritten, SessionWhole, Copying,
     InMemory
<1>6. QED
  BY <1>4, <1>5 DEF SaveInv

LEMMA CrashKeeps ==
  ASSUME SaveInv, Crash
  PROVE  SaveInv'
<1>1. /\ mode' = "title" /\ parts' = <<>> /\ ok' = TRUE /\ fromTitle' = TRUE
      /\ spoiled' = FALSE /\ UNCHANGED <<lev, bglobals, player, saved>>
  BY DEF Crash, disk
<1>2. DiskTypes' /\ SlotsWhole'
  BY <1>1, SlotsKept DEF SaveInv, DiskTypes
<1>3. WorkTypes' /\ FilesCopied' /\ SlotWritten' /\ SessionWhole'
  BY <1>1 DEF WorkTypes, FilesCopied, SlotWritten, SessionWhole, Copying, InMemory, Suffixes
<1>4. QED
  BY <1>2, <1>3 DEF SaveInv

\* Every step keeps the invariant.
LEMMA NextSaveInv ==
  ASSUME SlotsHypothesis, SaveInv, [Next]_vars
  PROVE  SaveInv'
<1>1. CASE UNCHANGED vars
  <2>1. UNCHANGED <<lev, bglobals, player, mode, target, parts, ok, fromTitle, game, level,
                    live, saved, spoiled>>
    BY <1>1 DEF vars, disk, work, memory, history
  <2>2. DiskTypes' /\ SlotsWhole'
    BY <2>1, SlotsKept DEF SaveInv, DiskTypes
  <2>3. WorkTypes' /\ FilesCopied' /\ SlotWritten' /\ SessionWhole'
    BY <2>1 DEF SaveInv, WorkTypes, FilesCopied, SlotWritten, SessionWhole, Copying, InMemory,
       Source, Dest, OneGame
  <2>4. QED
    BY <2>2, <2>3 DEF SaveInv
<1>2. QED
  BY <1>1, NewGameKeeps, ConversationKeeps, TransitionKeeps, SaveGameKeeps, LoadGameKeeps,
     CopyKeeps, EndSaveKeeps, LoadTakenKeeps, LoadRefusedKeeps, CrashKeeps DEF Next

\* The invariant of saving and loading.
THEOREM SaveInvariant ==
  ASSUME SlotsHypothesis
  PROVE  Spec => []SaveInv
<1>1. Init => SaveInv
  <2>1. Init => DiskTypes /\ SlotsWhole
    BY DEF Init, DiskTypes, SlotsWhole
  <2>2. Init => WorkTypes /\ FilesCopied /\ SlotWritten /\ SessionWhole
    BY DEF Init, WorkTypes, FilesCopied, SlotWritten, SessionWhole, Copying, InMemory, Suffixes
  <2>3. QED
    BY <2>1, <2>2 DEF SaveInv
<1>2. SaveInv /\ [Next]_vars => SaveInv'
  BY NextSaveInv
<1>3. QED
  BY <1>1, <1>2, PTL DEF Spec

\* A slot whose save was reported done is one playthrough in all its files and stays
\* so, whatever copy breaks off and wherever the program dies (save_game_to_slot,
\* copy_save_slot_files, load_game_from_slot), for any number of slots.
THEOREM SavedSlotsAreOneGame ==
  ASSUME SlotsHypothesis
  PROVE  Spec => []SavedSlotIsOneGame
<1>1. SaveInv => SavedSlotIsOneGame
  BY DEF SaveInv, SlotsWhole, SavedSlotIsOneGame
<1>2. QED
  BY <1>1, SaveInvariant, PTL

\* What is in memory and what is in \SAVE0 belong together, unless \SAVE0 came from
\* a load that broke off or a slot that was no whole save.
THEOREM SessionsAreOneGame ==
  ASSUME SlotsHypothesis
  PROVE  Spec => []SessionIsOneGame
<1>1. SaveInv => SessionIsOneGame
  BY DEF SaveInv, SessionWhole, SessionIsOneGame, InMemory
<1>2. QED
  BY <1>1, SaveInvariant, PTL

----------------------------------------------------------------------------
(* The level archive.                                                      *)

\* A write of an entry, and the entries in use with the cells behind their last.
Cell == Entries \X Nat
Used(t) == {e \in Entries : t[e] # 0}
After(t, c, e) == t[e] + Len(c[e])

\* The entries in use lie where the table says, none over another, and behind each
\* follows another or nothing: then the next larger offset is where it ends.
LaidOut(t, data, c) ==
  /\ t \in [Entries -> Nat] /\ data \in Seq(Cell) /\ c \in [Entries -> Seq(Cell)]
  /\ \A e \in Entries : t[e] = 0 <=> c[e] = <<>>
  /\ \A e \in Used(t) :
       /\ After(t, c, e) <= Len(data) + 1
       /\ \A i \in 1 .. Len(c[e]) : data[t[e] + i - 1] = c[e][i]
       /\ After(t, c, e) = Len(data) + 1 \/ \E f \in Used(t) : t[f] = After(t, c, e)
  /\ \A e, f \in Used(t) : e # f => After(t, c, e) <= t[f] \/ After(t, c, f) <= t[e]

File == [table : [Entries -> Nat], data : Seq(Cell)]

\* Offsets of an archive from outside: within the file and distinct.
Sound(a) ==
  /\ a \in File
  /\ \A e \in Used(a.table) : a.table[e] <= Len(a.data)
  /\ \A e, f \in Used(a.table) : a.table[e] = a.table[f] => e = f

\* What the archives from outside are taken to be: sound, and the entries written through
\* a copy of the handle, the tile maps, have one length which they also have there.
ArchiveHypothesis ==
  /\ Lengths \in [Entries -> SUBSET Nat]
  /\ \A a \in Archives : Sound(a)
  /\ \A e \in CopiedHandle \cap Entries : \E n \in Nat \ {0} :
       Lengths[e] = {n} /\ \A a \in Archives : Len(ReadEntry(a.table, a.data, e)) = n

\* So those entries are never empty and never change their length.
Fixed(c) == \A e \in CopiedHandle \cap Entries : c[e] # <<>> /\ Lengths[e] = {Len(c[e])}

\* The file says what the entries contain; the file says it under the table in memory,
\* which differs from its own only if it will be written back; _arc.tmp says it.
OnDisk == arc \in File /\ LaidOut(arc.table, arc.data, last)
InUse == arc \in File /\ LaidOut(table, arc.data, last) /\ (~dirty => table = arc.table)
Rebuilding == dirty /\ tmp \in File /\ LaidOut(table, tmp.data, last)

\* Which of the files is right at which point.  Between a crash and the next load none
\* need be; while the first level is read after a load, _arc.tmp may be left over.
ArchiveInv ==
  /\ phase \in {"closed", "open", "copied", "deleted", "restored"}
  /\ session \in {"title", "loading", "playing"}
  /\ version \in Nat /\ dirty \in BOOLEAN
  /\ session # "playing" => phase \in {"closed", "open"}
  /\ session = "title" => phase = "closed"
  /\ session # "title" =>
       /\ Fixed(last)
       /\ phase = "closed" => OnDisk /\ (session = "playing" => tmp = NoFile)
       /\ phase = "open" => InUse /\ (session = "playing" => tmp = EmptyFile)
       /\ phase \in {"copied", "deleted"} => Rebuilding
       /\ phase = "copied" => arc \in File
       /\ phase = "restored" => dirty /\ arc \in File /\ LaidOut(table, arc.data, last)

----------------------------------------------------------------------------
(* Reading.                                                                *)

\* A set of numbers has a least one.
LEMMA LeastOffset ==
  ASSUME NEW S, S \subseteq Nat, S # {}
  PROVE  Min(S) \in S /\ \A y \in S : Min(S) <= y
<1> DEFINE R == OpToRel(<, Nat)
<1>1. IsWellFoundedOn(R, Nat)
  BY NatLessThanWellFounded
<1>2. PICK x \in S : \A y \in S : ~(<<y, x>> \in R)
  <2> HIDE DEF R
  <2> QED
    BY <1>1, WFMin
<1>3. ASSUME NEW y \in S PROVE x <= y
  <2>1. ~(<<y, x>> \in R)
    BY <1>2
  <2>2. ~(y < x)
    BY <2>1 DEF OpToRel
  <2> QED
    BY <2>2
<1> QED
  BY <1>2, <1>3 DEF Min

\* A piece of a sequence, cell by cell.
LEMMA Piece ==
  ASSUME NEW data \in Seq(Cell), NEW from \in Nat \ {0}, NEW n \in Nat,
         from + n <= Len(data) + 1
  PROVE  LET s == SubSeq(data, from, from + n - 1)
         IN  s \in Seq(Cell) /\ Len(s) = n /\ \A i \in 1 .. n : s[i] = data[from + i - 1]
<1>1. /\ from \in 1 .. Len(data) + 1 /\ from + n - 1 \in from - 1 .. Len(data)
      /\ Len(data) \in Nat /\ from + n - 1 \in Int
  OBVIOUS
<1> DEFINE to == from + n - 1
           s == SubSeq(data, from, to)
<1>2. to - from + 1 = n /\ to \in Int
  BY <1>1
<1>3. /\ s \in Seq(Cell) /\ Len(s) = (IF from <= to THEN to - from + 1 ELSE 0)
      /\ \A i \in 1 .. to - from + 1 : s[i] = data[from + i - 1]
  <2> HIDE DEF to
  <2> QED
    BY <1>1, <1>2, SubSeqProperties DEF to
<1> QED
  BY <1>2, <1>3

\* The distances of which an extent is the least.
Ends(t, data, e) ==
  {t[f] - t[e] : f \in {f \in Entries : t[f] > t[e]}} \cup {Len(data) + 1 - t[e]}

LEMMA ExtentIsLeast ==
  ASSUME NEW t \in [Entries -> Nat], NEW data \in Seq(Cell), NEW e \in Used(t),
         t[e] <= Len(data) + 1
  PROVE  LET n == Extent(t, data, e)
         IN  /\ n \in Nat
             /\ n = Len(data) + 1 - t[e] \/ \E f \in Used(t) : t[f] > t[e] /\ n = t[f] - t[e]
             /\ n <= Len(data) + 1 - t[e]
             /\ \A f \in Used(t) : t[f] > t[e] => n <= t[f] - t[e]
<1> DEFINE S == Ends(t, data, e)
<1>1. Extent(t, data, e) = Min(S)
  BY DEF Extent, Ends
<1>2. /\ Len(data) \in Nat /\ t[e] \in Nat /\ e \in Entries
      /\ \A f \in Entries : t[f] \in Nat /\ (t[f] > t[e] => f \in Used(t))
  BY DEF Used
<1>3. \A y \in S : y \in Nat
  BY <1>2 DEF Ends
<1>4. Len(data) + 1 - t[e] \in S /\ \A f \in Entries : t[f] > t[e] => t[f] - t[e] \in S
  BY DEF Ends
<1>5. \A y \in S : y = Len(data) + 1 - t[e] \/ \E f \in Entries : t[f] > t[e] /\ y = t[f] - t[e]
  BY DEF Ends
<1> HIDE DEF S
<1>6. Min(S) \in S /\ \A y \in S : Min(S) <= y
  <2>1. S \subseteq Nat /\ S # {}
    BY <1>3, <1>4
  <2> QED
    BY <2>1, LeastOffset
<1>7. \A f \in Used(t) : f \in Entries
  BY DEF Used
<1> QED
  BY <1>1, <1>2, <1>3, <1>4, <1>5, <1>6, <1>7

\* An entry ends where the next one begins, so its extent is its length.
LEMMA ExtentIsLength ==
  ASSUME NEW t, NEW data, NEW c, LaidOut(t, data, c), NEW e \in Used(t)
  PROVE  /\ Extent(t, data, e) = Len(c[e]) /\ Len(c[e]) \in Nat \ {0}
         /\ t[e] \in Nat \ {0} /\ e \in Entries /\ c[e] \in Seq(Cell)
<1>1. /\ t \in [Entries -> Nat] /\ data \in Seq(Cell) /\ e \in Entries
      /\ c[e] \in Seq(Cell) /\ c[e] # <<>> /\ t[e] # 0
  BY DEF LaidOut, Used
<1>2. Len(c[e]) \in Nat \ {0} /\ t[e] \in Nat \ {0} /\ Len(data) \in Nat
  BY <1>1
<1>3. /\ t[e] + Len(c[e]) <= Len(data) + 1
      /\ t[e] + Len(c[e]) = Len(data) + 1 \/ \E f \in Used(t) : t[f] = t[e] + Len(c[e])
      /\ \A f \in Used(t) : f # e => t[e] + Len(c[e]) <= t[f] \/ t[f] + Len(c[f]) <= t[e]
  BY DEF LaidOut, After
<1>4. \A f \in Used(t) : t[f] \in Nat /\ Len(c[f]) \in Nat
  BY DEF LaidOut, Used
<1> DEFINE n == Extent(t, data, e)
<1>5. /\ n \in Nat
      /\ n = Len(data) + 1 - t[e] \/ \E f \in Used(t) : t[f] > t[e] /\ n = t[f] - t[e]
      /\ n <= Len(data) + 1 - t[e]
      /\ \A f \in Used(t) : t[f] > t[e] => n <= t[f] - t[e]
  <2>1. t[e] <= Len(data) + 1
    BY <1>2, <1>3
  <2> QED
    BY <1>1, <2>1, ExtentIsLeast
<1> HIDE DEF n
<1>6. n <= Len(c[e])
  <2>1. CASE t[e] + Len(c[e]) = Len(data) + 1
    BY <1>2, <1>5, <2>1
  <2>2. ASSUME NEW f \in Used(t), t[f] = t[e] + Len(c[e]) PROVE n <= Len(c[e])
    BY <1>2, <1>4, <1>5, <2>2
  <2> QED
    BY <1>3, <2>1, <2>2
<1>7. Len(c[e]) <= n
  <2>1. CASE n = Len(data) + 1 - t[e]
    BY <1>2, <1>3, <2>1
  <2>2. ASSUME NEW f \in Used(t), t[f] > t[e], n = t[f] - t[e] PROVE Len(c[e]) <= n
    BY <1>2, <1>3, <1>4, <2>2
  <2> QED
    BY <1>5, <2>1, <2>2
<1> QED
  BY <1>1, <1>2, <1>5, <1>6, <1>7 DEF n

\* So every entry reads as what it contains.
LEMMA LaidOutReadsBack ==
  ASSUME NEW t, NEW data, NEW c, LaidOut(t, data, c), NEW e \in Entries
  PROVE  ReadEntry(t, data, e) = c[e]
<1>1. CASE t[e] = 0
  BY <1>1 DEF ReadEntry, LaidOut
<1>2. CASE t[e] # 0
  <2>1. e \in Used(t)
    BY <1>2 DEF Used
  <2>2. /\ Extent(t, data, e) = Len(c[e]) /\ Len(c[e]) \in Nat \ {0}
        /\ t[e] \in Nat \ {0} /\ c[e] \in Seq(Cell)
    BY <2>1, ExtentIsLength
  <2>3. /\ data \in Seq(Cell) /\ t[e] + Len(c[e]) <= Len(data) + 1
        /\ \A i \in 1 .. Len(c[e]) : data[t[e] + i - 1] = c[e][i]
    BY <2>1 DEF LaidOut, After
  <2> DEFINE s == SubSeq(data, t[e], t[e] + Len(c[e]) - 1)
  <2>4. ReadEntry(t, data, e) = s
    BY <1>2, <2>2 DEF ReadEntry
  <2>5. /\ s \in Seq(Cell) /\ Len(s) = Len(c[e])
        /\ \A i \in 1 .. Len(c[e]) : s[i] = data[t[e] + i - 1]
    BY <2>2, <2>3, Piece
  <2> HIDE DEF s
  <2>6. \A i \in 1 .. Len(c[e]) : s[i] = c[e][i]
    BY <2>3, <2>5
  <2> QED
    BY <2>2, <2>4, <2>5, <2>6, SeqEqual
<1> QED
  BY <1>1, <1>2

\* An archive from outside contains what it says.
LEMMA SoundIsLaidOut ==
  ASSUME NEW a, Sound(a)
  PROVE  LaidOut(a.table, a.data, Contents(a))
<1> DEFINE t == a.table
           d == a.data
           c == Contents(a)
<1>1. t \in [Entries -> Nat] /\ d \in Seq(Cell) /\ Len(d) \in Nat
  BY DEF Sound, File
<1>2. /\ \A e \in Used(t) : t[e] <= Len(d) /\ t[e] \in Nat \ {0} /\ e \in Entries
      /\ \A e, f \in Used(t) : t[e] = t[f] => e = f
  BY <1>1 DEF Sound, Used
<1>3. c = [e \in Entries |-> ReadEntry(t, d, e)]
  BY DEF Contents
<1> HIDE DEF t, d, c
<1>4. ASSUME NEW e \in Used(t)
      PROVE  /\ c[e] \in Seq(Cell) /\ Len(c[e]) = Extent(t, d, e) /\ Len(c[e]) \in Nat \ {0}
             /\ t[e] + Len(c[e]) <= Len(d) + 1
             /\ \A i \in 1 .. Len(c[e]) : d[t[e] + i - 1] = c[e][i]
             /\ t[e] + Len(c[e]) = Len(d) + 1 \/ \E f \in Used(t) : t[f] = t[e] + Len(c[e])
             /\ \A f \in Used(t) : t[f] > t[e] => t[e] + Len(c[e]) <= t[f]
  <2> DEFINE n == Extent(t, d, e)
             s == SubSeq(d, t[e], t[e] + n - 1)
  <2>1. /\ n \in Nat
        /\ n = Len(d) + 1 - t[e] \/ \E f \in Used(t) : t[f] > t[e] /\ n = t[f] - t[e]
        /\ n <= Len(d) + 1 - t[e]
        /\ \A f \in Used(t) : t[f] > t[e] => n <= t[f] - t[e]
    BY <1>1, <1>2, ExtentIsLeast
  <2>2. c[e] = s
    BY <1>2, <1>3 DEF ReadEntry
  <2> HIDE DEF n
  <2>3. n > 0
    BY <1>1, <1>2, <2>1
  <2>4. s \in Seq(Cell) /\ Len(s) = n /\ \A i \in 1 .. n : s[i] = d[t[e] + i - 1]
    <3>1. t[e] \in Nat \ {0} /\ n \in Nat /\ t[e] + n <= Len(d) + 1 /\ d \in Seq(Cell)
      BY <1>1, <1>2, <2>1
    <3> QED
      BY <3>1, Piece
  <2> HIDE DEF s
  <2>5. /\ c[e] \in Seq(Cell) /\ Len(c[e]) = n /\ n \in Nat \ {0}
        /\ \A i \in 1 .. Len(c[e]) : d[t[e] + i - 1] = c[e][i]
    BY <2>1, <2>2, <2>3, <2>4
  <2>6. t[e] + n <= Len(d) + 1 /\ \A f \in Used(t) : t[f] > t[e] => t[e] + n <= t[f]
    BY <1>1, <1>2, <2>1
  <2>7. t[e] + n = Len(d) + 1 \/ \E f \in Used(t) : t[f] = t[e] + n
    <3>1. CASE n = Len(d) + 1 - t[e]
      BY <1>1, <1>2, <3>1
    <3>2. ASSUME NEW f \in Used(t), n = t[f] - t[e] PROVE t[f] = t[e] + n
      BY <1>2, <3>2
    <3> QED
      BY <2>1, <3>1, <3>2
  <2> QED
    BY <2>5, <2>6, <2>7 DEF n
<1>5. \A e \in Entries : t[e] = 0 => c[e] = <<>>
  BY <1>3 DEF ReadEntry
<1>6. \A e \in Entries : c[e] \in Seq(Cell) /\ (t[e] # 0 => c[e] # <<>>)
  <2>1. \A e \in Entries : t[e] # 0 => e \in Used(t)
    BY DEF Used
  <2>2. <<>> \in Seq(Cell)
    OBVIOUS
  <2>3. ASSUME NEW e \in Entries, t[e] # 0 PROVE c[e] \in Seq(Cell) /\ c[e] # <<>>
    BY <1>4, <2>1, <2>3
  <2> QED
    BY <1>5, <2>2, <2>3
<1>7. c \in [Entries -> Seq(Cell)]
  BY <1>3, <1>6
<1>8. \A e, f \in Used(t) : e # f => t[e] + Len(c[e]) <= t[f] \/ t[f] + Len(c[f]) <= t[e]
  BY <1>2, <1>4
<1> QED
  BY <1>1, <1>4, <1>5, <1>6, <1>7, <1>8 DEF LaidOut, After, t, d, c

----------------------------------------------------------------------------
(* Writing.                                                                *)

LEMMA CellsAreCells ==
  ASSUME NEW e \in Entries, NEW v \in Nat, NEW n \in Nat
  PROVE  LET s == Cells(e, v, n)
         IN  /\ s \in Seq(Cell) /\ Len(s) = n /\ (s = <<>> <=> n = 0)
             /\ \A i \in 1 .. n : s[i] = <<e, v>>
<1> DEFINE s == Cells(e, v, n)
<1>1. <<e, v>> \in Cell
  BY DEF Cell
<1>2. s \in [1 .. n -> Cell] /\ \A i \in 1 .. n : s[i] = <<e, v>>
  BY <1>1 DEF Cells
<1> HIDE DEF s
<1>3. s \in Seq(Cell) /\ Len(s) = n
  BY <1>2
<1> QED
  BY <1>2, <1>3 DEF s

\* The layout of an archive, entry by entry.
LEMMA LaidOutFacts ==
  ASSUME NEW t, NEW data, NEW c, LaidOut(t, data, c)
  PROVE  /\ t \in [Entries -> Nat] /\ data \in Seq(Cell) /\ Len(data) \in Nat
         /\ c \in [Entries -> Seq(Cell)]
         /\ \A e \in Entries : c[e] \in Seq(Cell) /\ Len(c[e]) \in Nat
         /\ \A e \in Entries : t[e] = 0 <=> c[e] = <<>>
         /\ \A e \in Used(t) : /\ e \in Entries /\ t[e] \in Nat \ {0} /\ Len(c[e]) \in Nat \ {0}
                               /\ t[e] + Len(c[e]) <= Len(data) + 1
<1>1. /\ t \in [Entries -> Nat] /\ data \in Seq(Cell) /\ Len(data) \in Nat
      /\ c \in [Entries -> Seq(Cell)]
      /\ \A e \in Entries : t[e] = 0 <=> c[e] = <<>>
  BY DEF LaidOut
<1>2. \A e \in Used(t) : t[e] + Len(c[e]) <= Len(data) + 1
  BY DEF LaidOut, After
<1>3. \A e \in Entries : c[e] \in Seq(Cell) /\ Len(c[e]) \in Nat
  BY <1>1
<1> QED
  BY <1>1, <1>2, <1>3, ExtentIsLength

\* An entry that was empty goes to the end.
LEMMA AppendedIsLaidOut ==
  ASSUME NEW t, NEW data, NEW c, LaidOut(t, data, c), NEW e \in Entries, t[e] = 0,
         NEW s \in Seq(Cell), s # <<>>
  PROVE  LaidOut([t EXCEPT ![e] = Len(data) + 1], data \o s, [c EXCEPT ![e] = s])
<1> DEFINE t2 == [t EXCEPT ![e] = Len(data) + 1]
           d2 == data \o s
           c2 == [c EXCEPT ![e] = s]
<1>1. /\ t \in [Entries -> Nat] /\ data \in Seq(Cell) /\ Len(data) \in Nat
      /\ c \in [Entries -> Seq(Cell)] /\ \A f \in Entries : c[f] \in Seq(Cell) /\ Len(c[f]) \in Nat
      /\ \A f \in Entries : t[f] = 0 <=> c[f] = <<>>
      /\ \A f \in Used(t) : /\ f \in Entries /\ t[f] \in Nat \ {0} /\ Len(c[f]) \in Nat \ {0}
                            /\ t[f] + Len(c[f]) <= Len(data) + 1
  BY LaidOutFacts
<1>2. Len(s) \in Nat \ {0}
  BY EmptySeq, LenProperties
<1>3. /\ d2 \in Seq(Cell) /\ Len(d2) = Len(data) + Len(s)
      /\ \A i \in 1 .. Len(data) : d2[i] = data[i]
      /\ \A i \in 1 .. Len(s) : d2[Len(data) + i] = s[i]
  BY <1>1, <1>2
<1>4. /\ t2 \in [Entries -> Nat] /\ c2 \in [Entries -> Seq(Cell)]
      /\ t2[e] = Len(data) + 1 /\ c2[e] = s
      /\ \A f \in Entries \ {e} : t2[f] = t[f] /\ c2[f] = c[f]
  BY <1>1
<1>5. e \notin Used(t) /\ Used(t2) = Used(t) \cup {e}
  BY <1>1, <1>4 DEF Used
<1> HIDE DEF t2, d2, c2
<1>6. \A f \in Used(t) : t2[f] = t[f] /\ c2[f] = c[f]
  BY <1>1, <1>4, <1>5
<1>7. \A f \in Entries : t2[f] = 0 <=> c2[f] = <<>>
  BY <1>1, <1>4
<1>8. \A f \in Used(t2) : t2[f] + Len(c2[f]) <= Len(d2) + 1
  BY <1>1, <1>2, <1>3, <1>4, <1>5, <1>6
<1>9. ASSUME NEW f \in Used(t2), NEW i \in 1 .. Len(c2[f])
      PROVE  d2[t2[f] + i - 1] = c2[f][i]
  <2>1. CASE f = e
    <3>1. i \in 1 .. Len(s) /\ t2[f] + i - 1 = Len(data) + i
      BY <1>1, <1>2, <1>4, <2>1
    <3> QED
      BY <1>3, <1>4, <2>1, <3>1
  <2>2. CASE f \in Used(t)
    <3>1. i \in 1 .. Len(c[f]) /\ t[f] + i - 1 \in 1 .. Len(data)
      BY <1>1, <1>6, <2>2
    <3>2. data[t[f] + i - 1] = c[f][i]
      BY <2>2, <3>1 DEF LaidOut
    <3> QED
      BY <1>3, <1>6, <2>2, <3>1, <3>2
  <2> QED
    BY <1>5, <2>1, <2>2
<1>10. ASSUME NEW f \in Used(t2)
       PROVE  t2[f] + Len(c2[f]) = Len(d2) + 1 \/ \E g \in Used(t2) : t2[g] = t2[f] + Len(c2[f])
  <2>1. CASE f = e
    BY <1>1, <1>2, <1>3, <1>4, <2>1
  <2>2. CASE f \in Used(t)
    <3>1. t[f] + Len(c[f]) = Len(data) + 1 \/ \E g \in Used(t) : t[g] = t[f] + Len(c[f])
      BY <2>2 DEF LaidOut, After
    <3>2. CASE t[f] + Len(c[f]) = Len(data) + 1
      BY <1>4, <1>5, <1>6, <2>2, <3>2
    <3>3. CASE \E g \in Used(t) : t[g] = t[f] + Len(c[f])
      BY <1>5, <1>6, <2>2, <3>3
    <3> QED
      BY <3>1, <3>2, <3>3
  <2> QED
    BY <1>5, <2>1, <2>2
<1>11. ASSUME NEW f \in Used(t2), NEW g \in Used(t2), f # g
       PROVE  t2[f] + Len(c2[f]) <= t2[g] \/ t2[g] + Len(c2[g]) <= t2[f]
  <2>1. CASE f = e
    BY <1>1, <1>4, <1>5, <1>6, <1>11, <2>1
  <2>2. CASE g = e
    BY <1>1, <1>4, <1>5, <1>6, <1>11, <2>2
  <2>3. CASE f \in Used(t) /\ g \in Used(t)
    <3>1. t[f] + Len(c[f]) <= t[g] \/ t[g] + Len(c[g]) <= t[f]
      BY <1>11, <2>3 DEF LaidOut, After
    <3> QED
      BY <1>6, <2>3, <3>1
  <2> QED
    BY <1>5, <2>1, <2>2, <2>3
<1>12. LaidOut(t2, d2, c2)
  BY <1>3, <1>4, <1>7, <1>8, <1>9, <1>10, <1>11 DEF LaidOut, After
<1> QED
  BY <1>12 DEF t2, d2, c2

\* An entry is overwritten in its place.
LEMMA OverwrittenIsLaidOut ==
  ASSUME LaidOut(table, arc.data, last), version' \in Nat, NEW e \in Used(table),
         NEW n, n = Extent(table, arc.data, e)
  PROVE  LaidOut(table,
                 [i \in DOMAIN arc.data |-> IF i \in table[e] .. table[e] + n - 1
                                             THEN <<e, version'>> ELSE arc.data[i]],
                 [last EXCEPT ![e] = Cells(e, version', n)])
<1> DEFINE s == Cells(e, version', n)
           x == <<e, version'>>
           d2 == [i \in DOMAIN arc.data |->
                    IF i \in table[e] .. table[e] + n - 1 THEN x ELSE arc.data[i]]
           c2 == [last EXCEPT ![e] = s]
<1>0. /\ n = Len(last[e]) /\ n \in Nat \ {0} /\ e \in Entries
      /\ s \in Seq(Cell) /\ Len(s) = n /\ x \in Cell /\ \A i \in 1 .. Len(s) : s[i] = x
  <2>1. n = Len(last[e]) /\ n \in Nat \ {0} /\ e \in Entries
    BY ExtentIsLength
  <2>2. x \in Cell
    BY <2>1 DEF Cell
  <2>3. s \in Seq(Cell) /\ Len(s) = n /\ \A i \in 1 .. n : s[i] = x
    BY <2>1, CellsAreCells
  <2> HIDE DEF s, x
  <2> QED
    BY <2>1, <2>2, <2>3
<1> HIDE DEF s, x
<1>1. /\ table \in [Entries -> Nat] /\ arc.data \in Seq(Cell) /\ Len(arc.data) \in Nat
      /\ last \in [Entries -> Seq(Cell)]
      /\ \A f \in Entries : last[f] \in Seq(Cell) /\ Len(last[f]) \in Nat
      /\ \A f \in Entries : table[f] = 0 <=> last[f] = <<>>
      /\ \A f \in Used(table) :
           /\ f \in Entries /\ table[f] \in Nat \ {0} /\ Len(last[f]) \in Nat \ {0}
           /\ table[f] + Len(last[f]) <= Len(arc.data) + 1
  BY LaidOutFacts
<1>2. /\ e \in Entries /\ n \in Nat \ {0} /\ table[e] \in Nat \ {0} /\ table[e] # 0 /\ s # <<>>
      /\ n = Len(last[e])
  BY <1>0, <1>1
<1>3. DOMAIN arc.data = 1 .. Len(arc.data)
  BY <1>1
<1>4. d2 \in [1 .. Len(arc.data) -> Cell]
  BY <1>0, <1>1, <1>3
<1>5. /\ d2 \in Seq(Cell) /\ Len(d2) = Len(arc.data)
      /\ \A i \in 1 .. Len(arc.data) :
           d2[i] = IF table[e] <= i /\ i < table[e] + n THEN x ELSE arc.data[i]
  <2>1. \A i \in 1 .. Len(arc.data) :
          d2[i] = IF i \in table[e] .. table[e] + n - 1 THEN x ELSE arc.data[i]
    BY <1>3
  <2> HIDE DEF d2
  <2>2. d2 \in Seq(Cell) /\ Len(d2) = Len(arc.data)
    <3> DEFINE m == Len(arc.data)
    <3>1. m \in Nat /\ d2 \in [1 .. m -> Cell]
      BY <1>1, <1>4
    <3> HIDE DEF m
    <3>2. d2 \in Seq(Cell) /\ Len(d2) = m
      BY <3>1
    <3> QED
      BY <3>2 DEF m
  <2> QED
    BY <1>1, <1>2, <2>1, <2>2
<1>6. /\ c2 \in [Entries -> Seq(Cell)] /\ c2[e] = s /\ Len(s) = n
      /\ \A f \in Entries \ {e} : c2[f] = last[f]
      /\ \A f \in Entries : Len(c2[f]) = Len(last[f])
  BY <1>0, <1>1, <1>2
<1> HIDE DEF d2, c2
<1>7. \A f \in Entries : table[f] = 0 <=> c2[f] = <<>>
  BY <1>1, <1>2, <1>6
<1>8. \A f \in Used(table) : Len(c2[f]) = Len(last[f])
  BY <1>1, <1>6
<1>9. ASSUME NEW f \in Used(table), NEW i \in 1 .. Len(c2[f])
      PROVE  d2[table[f] + i - 1] = c2[f][i]
  <2>1. table[f] + i - 1 \in 1 .. Len(arc.data) /\ i \in 1 .. Len(last[f])
    <3> DEFINE q == table[f]
               l == Len(last[f])
               m == Len(arc.data)
    <3>1. i \in 1 .. l /\ l \in Nat /\ q \in Nat \ {0} /\ m \in Nat /\ q + l <= m + 1
      BY <1>1, <1>8
    <3> HIDE DEF q, l, m
    <3>2. q + i - 1 \in 1 .. m
      BY <3>1
    <3> QED
      BY <3>1, <3>2 DEF q, l, m
  <2>2. CASE f = e
    <3>1. table[e] <= table[f] + i - 1 /\ table[f] + i - 1 < table[e] + n /\ i \in 1 .. Len(s)
      BY <1>1, <1>2, <1>6, <2>2
    <3> QED
      BY <1>0, <1>5, <1>6, <2>1, <2>2, <3>1
  <2>3. CASE f # e
    <3>1. /\ arc.data[table[f] + i - 1] = last[f][i]
          /\ (table[f] + Len(last[f]) <= table[e] \/ table[e] + Len(last[e]) <= table[f])
      BY <2>1, <2>3 DEF LaidOut, After
    <3>2. ~(table[e] <= table[f] + i - 1 /\ table[f] + i - 1 < table[e] + n)
      BY <1>1, <1>2, <2>1, <3>1
    <3>3. c2[f] = last[f]
      BY <1>1, <1>6, <2>3
    <3> QED
      BY <1>5, <2>1, <3>1, <3>2, <3>3
  <2> QED
    BY <2>2, <2>3
<1>10. LaidOut(table, d2, c2)
  <2>1. \A f \in Used(table) :
          /\ table[f] + Len(last[f]) <= Len(arc.data) + 1
          /\ table[f] + Len(last[f]) = Len(arc.data) + 1
             \/ \E g \in Used(table) : table[g] = table[f] + Len(last[f])
    BY DEF LaidOut, After
  <2>2. \A f, g \in Used(table) : f # g =>
          table[f] + Len(last[f]) <= table[g] \/ table[g] + Len(last[g]) <= table[f]
    BY DEF LaidOut, After
  <2> QED
    BY <1>1, <1>5, <1>6, <1>7, <1>8, <1>9, <2>1, <2>2 DEF LaidOut, After
<1> QED
  BY <1>10 DEF d2, c2, s, x

\* A sequence without n of its cells, from a place on.
LEMMA Spliced ==
  ASSUME NEW data \in Seq(Cell), NEW from \in Nat \ {0}, NEW n \in Nat,
         from + n <= Len(data) + 1
  PROVE  LET d == SubSeq(data, 1, from - 1) \o SubSeq(data, from + n, Len(data))
         IN  /\ d \in Seq(Cell) /\ Len(d) = Len(data) - n
             /\ \A i \in 1 .. Len(data) - n : d[i] = IF i < from THEN data[i] ELSE data[i + n]
<1> DEFINE rest == Len(data) + 1 - (from + n)
           a == SubSeq(data, 1, from - 1)
           b == SubSeq(data, from + n, Len(data))
           d == a \o b
<1>1. Len(data) \in Nat /\ rest \in Nat /\ from - 1 \in Nat /\ from + n \in Nat \ {0}
  OBVIOUS
<1>2. /\ a \in Seq(Cell) /\ Len(a) = from - 1
      /\ \A i \in 1 .. from - 1 : a[i] = data[i]
  <2> DEFINE k == from - 1
             one == 1
  <2>1. one \in Nat \ {0} /\ k \in Nat /\ one + k <= Len(data) + 1 /\ one + k - 1 = k
    BY <1>1
  <2>2. LET s == SubSeq(data, one, one + k - 1)
        IN  s \in Seq(Cell) /\ Len(s) = k /\ \A i \in 1 .. k : s[i] = data[one + i - 1]
    <3> HIDE DEF one, k
    <3> QED
      BY <2>1, Piece
  <2> QED
    BY <2>1, <2>2
<1>3. /\ b \in Seq(Cell) /\ Len(b) = rest
      /\ \A i \in 1 .. rest : b[i] = data[from + n + i - 1]
  <2> DEFINE start == from + n
  <2>1. start \in Nat \ {0} /\ start + rest <= Len(data) + 1 /\ start + rest - 1 = Len(data)
    BY <1>1
  <2>2. LET s == SubSeq(data, start, start + rest - 1)
        IN  s \in Seq(Cell) /\ Len(s) = rest /\ \A i \in 1 .. rest : s[i] = data[start + i - 1]
    <3> HIDE DEF start, rest
    <3> QED
      BY <1>1, <2>1, Piece
  <2> QED
    BY <2>1, <2>2
<1> HIDE DEF a, b
<1>4. /\ d \in Seq(Cell) /\ Len(d) = Len(a) + Len(b)
      /\ \A i \in 1 .. Len(a) + Len(b) : d[i] = IF i <= Len(a) THEN a[i] ELSE b[i - Len(a)]
  BY <1>2, <1>3, ConcatProperties
<1> HIDE DEF d
<1>5. Len(d) = Len(data) - n
  BY <1>1, <1>2, <1>3, <1>4
<1>6. ASSUME NEW i \in 1 .. Len(data) - n
      PROVE  d[i] = IF i < from THEN data[i] ELSE data[i + n]
  <2>1. i \in 1 .. Len(a) + Len(b)
    BY <1>1, <1>2, <1>3
  <2>2. CASE i < from
    <3>1. i <= Len(a) /\ i \in 1 .. from - 1
      BY <1>1, <1>2, <2>2
    <3> QED
      BY <1>2, <1>4, <2>1, <2>2, <3>1
  <2>3. CASE ~(i < from)
    <3>1. ~(i <= Len(a)) /\ i - Len(a) \in 1 .. rest /\ from + n + (i - Len(a)) - 1 = i + n
      BY <1>1, <1>2, <2>3
    <3>2. d[i] = b[i - Len(a)]
      BY <1>4, <2>1, <3>1
    <3>3. b[i - Len(a)] = data[i + n]
      BY <1>3, <3>1
    <3> QED
      BY <2>3, <3>2, <3>3
  <2> QED
    BY <2>2, <2>3
<1> QED
  BY <1>4, <1>5, <1>6 DEF d, a, b

\* An entry is taken out, and those behind it move up.
LEMMA RemovedIsLaidOut ==
  ASSUME NEW t, NEW data, NEW c, LaidOut(t, data, c), NEW e \in Used(t)
  PROVE  LaidOut([f \in Entries |-> IF f = e THEN 0
                                    ELSE IF t[f] > t[e] THEN t[f] - Len(c[e]) ELSE t[f]],
                 SubSeq(data, 1, t[e] - 1) \o SubSeq(data, t[e] + Len(c[e]), Len(data)),
                 [c EXCEPT ![e] = <<>>])
<1> DEFINE n == Len(c[e])
           t2 == [f \in Entries |-> IF f = e THEN 0
                                    ELSE IF t[f] > t[e] THEN t[f] - n ELSE t[f]]
           d2 == SubSeq(data, 1, t[e] - 1) \o SubSeq(data, t[e] + n, Len(data))
           c2 == [c EXCEPT ![e] = <<>>]
<1>1. /\ t \in [Entries -> Nat] /\ data \in Seq(Cell) /\ Len(data) \in Nat
      /\ c \in [Entries -> Seq(Cell)] /\ \A f \in Entries : c[f] \in Seq(Cell) /\ Len(c[f]) \in Nat
      /\ \A f \in Entries : t[f] = 0 <=> c[f] = <<>>
      /\ \A f \in Used(t) : /\ f \in Entries /\ t[f] \in Nat \ {0} /\ Len(c[f]) \in Nat \ {0}
                            /\ t[f] + Len(c[f]) <= Len(data) + 1
  BY LaidOutFacts
<1>2. /\ e \in Entries /\ n \in Nat \ {0} /\ t[e] \in Nat \ {0} /\ t[e] # 0
      /\ t[e] + n <= Len(data) + 1 /\ Len(data) \in Nat
  BY <1>1
<1> HIDE DEF n
<1>3. /\ d2 \in Seq(Cell) /\ Len(d2) = Len(data) - n
      /\ \A i \in 1 .. Len(data) - n : d2[i] = IF i < t[e] THEN data[i] ELSE data[i + n]
  <2>1. data \in Seq(Cell) /\ t[e] \in Nat \ {0} /\ n \in Nat /\ t[e] + n <= Len(data) + 1
    BY <1>1, <1>2
  <2> QED
    BY <2>1, Spliced, Zenon
<1>4. /\ \A f \in Used(t) \ {e} : t[f] + Len(c[f]) <= t[e] \/ t[e] + n <= t[f]
      /\ \A f \in Used(t) \ {e}, g \in Used(t) \ {e} :
           f # g => t[f] + Len(c[f]) <= t[g] \/ t[g] + Len(c[g]) <= t[f]
      /\ \A f \in Used(t) : t[f] + Len(c[f]) = Len(data) + 1
                            \/ \E g \in Used(t) : t[g] = t[f] + Len(c[f])
      /\ t[e] + n = Len(data) + 1 \/ \E g \in Used(t) : t[g] = t[e] + n
  BY DEF LaidOut, After, n
<1>5. \A f \in Entries : f \in Used(t) <=> t[f] # 0
  BY DEF Used
<1>6. /\ c2 \in [Entries -> Seq(Cell)] /\ c2[e] = <<>>
      /\ \A f \in Entries \ {e} : c2[f] = c[f]
  <2>1. <<>> \in Seq(Cell)
    OBVIOUS
  <2> QED
    BY <1>1, <1>2, <2>1
<1>7. \A f \in Entries : t2[f] = IF f = e THEN 0 ELSE IF t[f] > t[e] THEN t[f] - n ELSE t[f]
  OBVIOUS
<1>8. t2 = [f \in Entries |-> t2[f]]
  OBVIOUS
<1> HIDE DEF t2, d2, c2
<1>9. \A f \in Used(t) \ {e} :
        /\ c2[f] = c[f] /\ f \in Entries
        /\ \/ t[f] + Len(c[f]) <= t[e] /\ t2[f] = t[f]
           \/ t[e] + n <= t[f] /\ t2[f] = t[f] - n
        /\ t2[f] \in Nat \ {0}
  <2> SUFFICES ASSUME NEW f \in Used(t) \ {e}
               PROVE  /\ c2[f] = c[f] /\ f \in Entries
                      /\ \/ t[f] + Len(c[f]) <= t[e] /\ t2[f] = t[f]
                         \/ t[e] + n <= t[f] /\ t2[f] = t[f] - n
                      /\ t2[f] \in Nat \ {0}
    OBVIOUS
  <2>1. /\ f \in Entries /\ f # e /\ t[f] \in Nat \ {0} /\ Len(c[f]) \in Nat \ {0} /\ c2[f] = c[f]
        /\ t2[f] = IF t[f] > t[e] THEN t[f] - n ELSE t[f]
    BY <1>1, <1>6, <1>7
  <2>2. t[f] + Len(c[f]) <= t[e] \/ t[e] + n <= t[f]
    BY <1>4
  <2> DEFINE p == t[e]
             q == t[f]
             q2 == t2[f]
             l == Len(c[f])
  <2>3. /\ n \in Nat \ {0} /\ p \in Nat \ {0} /\ q \in Nat \ {0} /\ l \in Nat \ {0}
        /\ q2 = (IF q > p THEN q - n ELSE q)
        /\ q + l <= p \/ p + n <= q
    BY <1>2, <2>1, <2>2
  <2> HIDE DEF p, q, q2, l
  <2>4. /\ (q + l <= p /\ q2 = q) \/ (p + n <= q /\ q2 = q - n)
        /\ q2 \in Nat \ {0}
    BY <2>3
  <2> QED
    BY <2>1, <2>4 DEF p, q, q2, l
<1>10. t2 \in [Entries -> Nat] /\ \A f \in Entries : t2[f] = 0 <=> c2[f] = <<>>
  <2>1. t2[e] = 0 /\ c2[e] = <<>>
    BY <1>2, <1>6, <1>7
  <2>2. ASSUME NEW f \in Entries, f # e
        PROVE  t2[f] \in Nat /\ (t2[f] = 0 <=> c2[f] = <<>>)
    <3>1. CASE t[f] = 0
      <4>1. t2[f] = 0
        BY <1>2, <1>7, <2>2, <3>1
      <4> QED
        BY <1>1, <1>6, <2>2, <3>1, <4>1
    <3>2. CASE t[f] # 0
      <4>1. t2[f] \in Nat \ {0}
        BY <1>5, <1>9, <2>2, <3>2
      <4> QED
        BY <1>1, <1>6, <2>2, <3>2, <4>1
    <3> QED
      BY <3>1, <3>2
  <2> QED
    BY <1>8, <2>1, <2>2
<1>11. Used(t2) = Used(t) \ {e}
  <2>1. \A f \in Entries : t2[f] # 0 <=> f \in Used(t) /\ f # e
    BY <1>1, <1>5, <1>6, <1>10
  <2> QED
    BY <2>1, <1>5 DEF Used
<1>12. ASSUME NEW f \in Used(t) \ {e}
       PROVE  /\ t2[f] + Len(c2[f]) <= Len(d2) + 1
              /\ \A i \in 1 .. Len(c2[f]) : d2[t2[f] + i - 1] = c2[f][i]
  <2>1. /\ t[f] \in Nat \ {0} /\ Len(c[f]) \in Nat \ {0} /\ t[f] + Len(c[f]) <= Len(data) + 1
        /\ c2[f] = c[f]
    BY <1>1, <1>9
  <2> DEFINE p == t[e]
             q == t[f]
             q2 == t2[f]
             l == Len(c[f])
             m == Len(data)
  <2>0. /\ n \in Nat \ {0} /\ p \in Nat \ {0} /\ q \in Nat \ {0} /\ l \in Nat \ {0}
        /\ m \in Nat
        /\ q + l <= m + 1 /\ p + n <= m + 1
    BY <1>2, <2>1
  <2>2. \A i \in 1 .. Len(c[f]) : data[t[f] + i - 1] = c[f][i]
    BY DEF LaidOut
  <2>3. CASE t[f] + Len(c[f]) <= t[e] /\ t2[f] = t[f]
    <3>1. q + l <= p /\ q2 = q
      BY <2>3
    <3>2. /\ q2 + l <= m - n + 1
          /\ \A i \in 1 .. l : q2 + i - 1 \in 1 .. m - n /\ q2 + i - 1 < p
      <4> HIDE DEF p, q, q2, l, m
      <4> QED
        BY <2>0, <3>1
    <3>3. ASSUME NEW i \in 1 .. l PROVE d2[q2 + i - 1] = c[f][i]
      <4>1. d2[q2 + i - 1] = data[q2 + i - 1]
        BY <1>3, <3>2
      <4> QED
        BY <2>2, <3>1, <4>1
    <3> QED
      BY <1>3, <2>1, <3>2, <3>3
  <2>4. CASE t[e] + n <= t[f] /\ t2[f] = t[f] - n
    <3>1. p + n <= q /\ q2 = q - n
      BY <2>4
    <3>2. /\ q2 + l <= m - n + 1
          /\ \A i \in 1 .. l : /\ q2 + i - 1 \in 1 .. m - n /\ ~(q2 + i - 1 < p)
                              /\ q2 + i - 1 + n = q + i - 1
      <4> HIDE DEF p, q, q2, l, m
      <4> QED
        BY <2>0, <3>1
    <3>3. ASSUME NEW i \in 1 .. l PROVE d2[q2 + i - 1] = c[f][i]
      <4>1. d2[q2 + i - 1] = data[q2 + i - 1 + n]
        BY <1>3, <3>2
      <4> QED
        BY <2>2, <3>2, <4>1
    <3> QED
      BY <1>3, <2>1, <3>2, <3>3
  <2> QED
    BY <1>9, <2>3, <2>4
<1>13. ASSUME NEW f \in Used(t) \ {e}
       PROVE  t2[f] + Len(c2[f]) = Len(d2) + 1
              \/ \E g \in Used(t) \ {e} : t2[g] = t2[f] + Len(c2[f])
  <2>1. /\ t[f] \in Nat \ {0} /\ Len(c[f]) \in Nat \ {0} /\ t[f] + Len(c[f]) <= Len(data) + 1
        /\ c2[f] = c[f]
    BY <1>1, <1>9
  <2>2. ASSUME NEW k \in {t[f] + Len(c[f]), t[e] + n}, k >= t[e] + n,
               k = Len(data) + 1 \/ \E g \in Used(t) : t[g] = k
        PROVE  k - n = Len(d2) + 1 \/ \E g \in Used(t) \ {e} : t2[g] = k - n
    <3>0. k \in Nat
      BY <1>2, <2>1, <2>2
    <3>1. CASE k = Len(data) + 1
      BY <1>1, <1>2, <1>3, <3>1
    <3>2. ASSUME NEW g \in Used(t), t[g] = k PROVE \E h \in Used(t) \ {e} : t2[h] = k - n
      <4>1. g # e /\ Len(c[g]) \in Nat \ {0}
        <5>1. t[g] # t[e] /\ Len(c[g]) \in Nat \ {0}
          BY <1>1, <1>2, <2>2, <3>0, <3>2
        <5> QED
          BY <5>1
      <4>2. t2[g] = t[g] - n
        <5>1. /\ t[g] \in Nat \ {0} /\ t[e] + n <= t[g]
              /\ \/ t[g] + Len(c[g]) <= t[e] /\ t2[g] = t[g]
                 \/ t[e] + n <= t[g] /\ t2[g] = t[g] - n
          BY <1>1, <1>9, <2>2, <3>2, <4>1
        <5> QED
          BY <1>2, <4>1, <5>1
      <4> QED
        BY <3>2, <4>1, <4>2
    <3> QED
      BY <2>2, <3>1, <3>2
  <2>3. t[f] + Len(c[f]) = Len(data) + 1 \/ \E g \in Used(t) : t[g] = t[f] + Len(c[f])
    BY <1>4
  <2>4. t[e] + n = Len(data) + 1 \/ \E g \in Used(t) : t[g] = t[e] + n
    BY <1>4
  <2>5. CASE t[e] + n <= t[f] /\ t2[f] = t[f] - n
    <3> DEFINE k == t[f] + Len(c[f])
    <3>1. k \in {t[f] + Len(c[f]), t[e] + n} /\ k >= t[e] + n /\ k - n = t2[f] + Len(c2[f])
      BY <1>2, <2>1, <2>5
    <3>2. k = Len(data) + 1 \/ \E g \in Used(t) : t[g] = k
      BY <2>3
    <3> HIDE DEF k
    <3>3. k - n = Len(d2) + 1 \/ \E g \in Used(t) \ {e} : t2[g] = k - n
      BY <2>2, <3>1, <3>2
    <3> QED
      BY <3>1, <3>3
  <2>6. CASE t[f] + Len(c[f]) = t[e] /\ t2[f] = t[f]
    <3> DEFINE k == t[e] + n
    <3>1. k \in {t[f] + Len(c[f]), t[e] + n} /\ k >= t[e] + n /\ k - n = t2[f] + Len(c2[f])
      BY <1>2, <2>1, <2>6
    <3>2. k = Len(data) + 1 \/ \E g \in Used(t) : t[g] = k
      BY <2>4
    <3> HIDE DEF k
    <3>3. k - n = Len(d2) + 1 \/ \E g \in Used(t) \ {e} : t2[g] = k - n
      BY <2>2, <3>1, <3>2
    <3> QED
      BY <3>1, <3>3
  <2>7. CASE t[f] + Len(c[f]) < t[e] /\ t2[f] = t[f]
    <3>1. PICK g \in Used(t) : t[g] = t[f] + Len(c[f])
      BY <1>2, <2>1, <2>3, <2>7
    <3>2. g # e /\ t[g] < t[e] /\ t[g] \in Nat
      BY <1>2, <2>1, <2>7, <3>1
    <3>3. t2[g] = t[g]
      BY <1>2, <1>9, <3>2
    <3> QED
      BY <2>1, <2>7, <3>1, <3>2, <3>3
  <2>8. /\ \/ t[f] + Len(c[f]) <= t[e] /\ t2[f] = t[f]
           \/ t[e] + n <= t[f] /\ t2[f] = t[f] - n
        /\ t[f] + Len(c[f]) \in Nat /\ t[e] \in Nat
    BY <1>2, <1>9, <2>1
  <2>9. t[f] + Len(c[f]) <= t[e] => t[f] + Len(c[f]) < t[e] \/ t[f] + Len(c[f]) = t[e]
    BY <2>8
  <2> QED
    BY <2>5, <2>6, <2>7, <2>8, <2>9
<1>14. ASSUME NEW f \in Used(t) \ {e}, NEW g \in Used(t) \ {e}, f # g
       PROVE  t2[f] + Len(c2[f]) <= t2[g] \/ t2[g] + Len(c2[g]) <= t2[f]
  <2>1. /\ t[f] \in Nat \ {0} /\ Len(c[f]) \in Nat \ {0} /\ c2[f] = c[f]
        /\ t[g] \in Nat \ {0} /\ Len(c[g]) \in Nat \ {0} /\ c2[g] = c[g]
    BY <1>1, <1>9
  <2>2. t[f] + Len(c[f]) <= t[g] \/ t[g] + Len(c[g]) <= t[f]
    BY <1>4, <1>14
  <2>3. /\ \/ t[f] + Len(c[f]) <= t[e] /\ t2[f] = t[f]
           \/ t[e] + n <= t[f] /\ t2[f] = t[f] - n
        /\ \/ t[g] + Len(c[g]) <= t[e] /\ t2[g] = t[g]
           \/ t[e] + n <= t[g] /\ t2[g] = t[g] - n
    BY <1>9
  <2> DEFINE p == t[e]
             q == t[f]
             r == t[g]
             q2 == t2[f]
             r2 == t2[g]
             l == Len(c[f])
             k == Len(c[g])
  <2>4. /\ p \in Nat /\ n \in Nat /\ q \in Nat /\ r \in Nat /\ l \in Nat /\ k \in Nat
        /\ q + l <= r \/ r + k <= q
        /\ (q + l <= p /\ q2 = q) \/ (p + n <= q /\ q2 = q - n)
        /\ (r + k <= p /\ r2 = r) \/ (p + n <= r /\ r2 = r - n)
    BY <1>2, <2>1, <2>2, <2>3
  <2> HIDE DEF p, q, r, q2, r2, l, k
  <2>5. q2 + l <= r2 \/ r2 + k <= q2
    BY <2>4
  <2> QED
    BY <2>1, <2>5 DEF q2, r2, l, k
<1>15. LaidOut(t2, d2, c2)
  <2>1. \A f \in Used(t2) : f \in Used(t) \ {e}
    BY <1>11
  <2>2. \A g \in Used(t) \ {e} : g \in Used(t2)
    BY <1>11
  <2> QED
    BY <1>3, <1>6, <1>10, <1>12, <1>13, <1>14, <2>1, <2>2 DEF LaidOut, After
<1> QED
  BY <1>15 DEF n, t2, d2, c2

\* The rebuilt archive: the entry taken out, and put back at the end.
LEMMA RebuiltIsLaidOut ==
  ASSUME LaidOut(table, arc.data, last), NEW e \in Used(table), NEW n \in Nat,
         version' \in Nat
  PROVE  LaidOut(Moved(e, n), Rebuilt(e, n),
                 [last EXCEPT ![e] = Cells(e, version', n)])
<1> DEFINE size == Len(last[e])
           s == Cells(e, version', n)
           t1 == [f \in Entries |-> IF f = e THEN 0
                                    ELSE IF table[f] > table[e] THEN table[f] - size ELSE table[f]]
           d1 == SubSeq(arc.data, 1, table[e] - 1)
                   \o SubSeq(arc.data, table[e] + size, Len(arc.data))
           c1 == [last EXCEPT ![e] = <<>>]
<1>1. /\ e \in Entries /\ Extent(table, arc.data, e) = size /\ size \in Nat \ {0}
      /\ table \in [Entries -> Nat] /\ last \in [Entries -> Seq(Cell)]
      /\ table[e] \in Nat \ {0} /\ arc.data \in Seq(Cell) /\ table[e] + size <= Len(arc.data) + 1
  BY ExtentIsLength, LaidOutFacts
<1>2. LaidOut(t1, d1, c1)
  BY RemovedIsLaidOut
<1>3. d1 \in Seq(Cell) /\ Len(d1) = Len(arc.data) - size
  <2> HIDE DEF size
  <2>1. size \in Nat
    BY <1>1
  <2> QED
    BY <1>1, <2>1, Spliced, Zenon
<1>4. Moved(e, n) =
        [f \in Entries |-> IF f = e THEN IF n = 0 THEN 0 ELSE Len(d1) + 1 ELSE t1[f]]
  <2>1. Moved(e, n) = [f \in Entries |->
          IF f = e THEN IF n = 0 THEN 0 ELSE Len(arc.data) - size + 1
          ELSE IF table[f] > table[e] THEN table[f] - size ELSE table[f]]
    BY <1>1 DEF Moved
  <2> HIDE DEF d1, size
  <2> QED
    BY <1>3, <2>1
<1>5. Rebuilt(e, n) = d1 \o s
  BY <1>1 DEF Rebuilt
<1>6. /\ s \in Seq(Cell) /\ (s = <<>> <=> n = 0)
      /\ t1 = [f \in Entries |-> t1[f]] /\ t1[e] = 0
  BY <1>1, CellsAreCells
<1>7. /\ c1 = [last EXCEPT ![e] = <<>>]
      /\ [c1 EXCEPT ![e] = s] = [last EXCEPT ![e] = s]
  BY <1>1
<1> HIDE DEF size, s, t1, d1, c1
<1>8. CASE n = 0
  <2>1. s = <<>> /\ d1 \o s = d1
    BY <1>3, <1>6, <1>8
  <2>2. Moved(e, n) = [f \in Entries |-> IF f = e THEN 0 ELSE t1[f]]
    BY <1>4, <1>8
  <2>3. Moved(e, n) = t1
    BY <1>6, <2>2
  <2> QED
    BY <1>2, <1>5, <1>7, <2>1, <2>3 DEF s
<1>9. CASE n # 0
  <2>1. LaidOut([t1 EXCEPT ![e] = Len(d1) + 1], d1 \o s, [c1 EXCEPT ![e] = s])
    BY <1>1, <1>2, <1>6, <1>9, AppendedIsLaidOut
  <2>2. Moved(e, n) = [f \in Entries |-> IF f = e THEN Len(d1) + 1 ELSE t1[f]]
    BY <1>4, <1>9
  <2>3. Moved(e, n) = [t1 EXCEPT ![e] = Len(d1) + 1]
    BY <1>1, <1>6, <2>2
  <2> QED
    BY <1>5, <1>7, <2>1, <2>3 DEF s
<1> QED
  BY <1>8, <1>9

----------------------------------------------------------------------------
(* The steps.                                                              *)

\* The entries that are written through a copy of the handle have their one length.
LEMMA ShippedIsFixed ==
  ASSUME ArchiveHypothesis, NEW a \in Archives
  PROVE  Fixed(Contents(a))
<1> SUFFICES ASSUME NEW e \in CopiedHandle \cap Entries
             PROVE  Contents(a)[e] # <<>> /\ Lengths[e] = {Len(Contents(a)[e])}
  BY DEF Fixed
<1>1. PICK n \in Nat \ {0} :
        Lengths[e] = {n} /\ \A b \in Archives : Len(ReadEntry(b.table, b.data, e)) = n
  BY DEF ArchiveHypothesis
<1>2. Contents(a)[e] = ReadEntry(a.table, a.data, e)
  BY DEF Contents
<1>3. Len(Contents(a)[e]) = n
  BY <1>1, <1>2
<1>4. Len(<<>>) = 0
  OBVIOUS
<1> QED
  BY <1>1, <1>3, <1>4

LEMMA ArchiveInitInvariant ==
  ASSUME ArchiveHypothesis, ArchiveInit
  PROVE  ArchiveInv
<1>1. /\ arc \in Archives /\ dirty = FALSE /\ phase = "closed" /\ session = "loading"
      /\ last = Contents(arc) /\ version = 0
  BY DEF ArchiveInit
<1>2. Sound(arc) /\ arc \in File
  BY <1>1 DEF ArchiveHypothesis, Sound
<1>3. LaidOut(arc.table, arc.data, last)
  BY <1>1, <1>2, SoundIsLaidOut
<1>4. Fixed(last)
  BY <1>1, ShippedIsFixed
<1> QED
  BY <1>1, <1>2, <1>3, <1>4 DEF ArchiveInv, OnDisk

LEMMA OpenArchiveKeeps ==
  ASSUME ArchiveInv, OpenArchive
  PROVE  ArchiveInv'
<1>1. /\ phase = "closed" /\ session # "title" /\ table' = arc.table /\ dirty' = FALSE
      /\ tmp' = (IF tmp = NoFile THEN EmptyFile ELSE tmp) /\ phase' = "open"
      /\ arc' = arc /\ session' = session /\ last' = last /\ version' = version
  BY DEF OpenArchive
<1>2. /\ Fixed(last) /\ OnDisk /\ (session = "playing" => tmp = NoFile)
      /\ session \in {"title", "loading", "playing"} /\ version \in Nat
  BY <1>1 DEF ArchiveInv
<1>3. Fixed(last)'
  BY <1>1, <1>2
<1>4. InUse'
  BY <1>1, <1>2 DEF OnDisk, InUse
<1> QED
  BY <1>1, <1>2, <1>3, <1>4 DEF ArchiveInv

LEMMA CloseArchiveKeeps ==
  ASSUME ArchiveInv, CloseArchive
  PROVE  ArchiveInv'
<1>1. /\ phase = "open" /\ phase' = "closed" /\ session' = "playing" /\ tmp' = NoFile
      /\ arc' = (IF dirty THEN [arc EXCEPT !.table = table] ELSE arc)
      /\ dirty' = dirty /\ last' = last /\ version' = version
  BY DEF CloseArchive
<1>2. Fixed(last) /\ InUse /\ version \in Nat /\ dirty \in BOOLEAN
  BY <1>1 DEF ArchiveInv
<1>3. arc' \in File /\ arc'.table = table /\ arc'.data = arc.data
  <2>1. table \in [Entries -> Nat]
    BY <1>2, LaidOutFacts DEF InUse
  <2>2. arc \in File /\ (~dirty => table = arc.table)
    BY <1>2 DEF InUse
  <2> QED
    BY <1>1, <2>1, <2>2 DEF File
<1>4. OnDisk'
  BY <1>1, <1>2, <1>3 DEF OnDisk, InUse
<1>5. Fixed(last)'
  BY <1>1, <1>2
<1> QED
  BY <1>1, <1>2, <1>4, <1>5 DEF ArchiveInv

\* What holds whenever an entry is written.
LEMMA WritingFacts ==
  ASSUME ArchiveHypothesis, ArchiveInv,
         NEW e \in Entries, NEW n \in Lengths[e], Writing(e, n)
  PROVE  /\ phase = "open" /\ session = "playing" /\ session' = "playing"
         /\ tmp = EmptyFile /\ arc \in File /\ LaidOut(table, arc.data, last)
         /\ (~dirty => table = arc.table) /\ dirty \in BOOLEAN
         /\ n \in Nat /\ version' \in Nat
         /\ last' = [last EXCEPT ![e] = Cells(e, version', n)]
         /\ last \in [Entries -> Seq(Cell)] /\ Fixed(last) /\ Fixed(last')
         /\ e \in CopiedHandle => n = Len(last[e]) /\ last[e] # <<>>
<1>1. /\ phase = "open" /\ session = "playing" /\ session' = "playing" /\ version' = version + 1
      /\ last' = [last EXCEPT ![e] = Cells(e, version', n)]
  BY DEF Writing
<1>2. /\ Fixed(last) /\ InUse /\ tmp = EmptyFile /\ version \in Nat /\ dirty \in BOOLEAN
  BY <1>1 DEF ArchiveInv
<1>3. n \in Nat /\ version' \in Nat
  BY <1>1, <1>2 DEF ArchiveHypothesis
<1>4. last \in [Entries -> Seq(Cell)]
  BY <1>2, LaidOutFacts DEF InUse
<1>5. e \in CopiedHandle => n = Len(last[e]) /\ last[e] # <<>>
  BY <1>2 DEF Fixed
<1>6. Cells(e, version', n) \in Seq(Cell) /\ Len(Cells(e, version', n)) = n
      /\ (Cells(e, version', n) = <<>> <=> n = 0)
  BY <1>3, CellsAreCells
<1>7. Fixed(last')
  <2> SUFFICES ASSUME NEW f \in CopiedHandle \cap Entries
               PROVE  last'[f] # <<>> /\ Lengths[f] = {Len(last'[f])}
    BY DEF Fixed
  <2>1. last[f] # <<>> /\ Lengths[f] = {Len(last[f])}
    BY <1>2 DEF Fixed
  <2>2. CASE f = e
    <3>1. n = Len(last[e]) /\ last[e] \in Seq(Cell) /\ last[e] # <<>>
      BY <1>4, <1>5, <2>2
    <3>2. n # 0
      BY <3>1
    <3> QED
      BY <1>1, <1>4, <1>6, <2>1, <2>2, <3>1, <3>2
  <2>3. CASE f # e
    BY <1>1, <1>4, <2>1, <2>3
  <2> QED
    BY <2>2, <2>3
<1> QED
  BY <1>1, <1>2, <1>3, <1>4, <1>5, <1>7 DEF InUse

LEMMA AppendEntryKeeps ==
  ASSUME ArchiveHypothesis, ArchiveInv,
         NEW e \in Entries, NEW n \in Lengths[e], AppendEntry(e, n)
  PROVE  ArchiveInv'
<1>1. Writing(e, n) /\ table[e] = 0 /\ tmp' = tmp /\ phase' = phase
  BY DEF AppendEntry
<1>2. /\ phase = "open" /\ session = "playing" /\ session' = "playing"
      /\ tmp = EmptyFile /\ arc \in File /\ LaidOut(table, arc.data, last)
      /\ (~dirty => table = arc.table) /\ dirty \in BOOLEAN
      /\ n \in Nat /\ version' \in Nat /\ last' = [last EXCEPT ![e] = Cells(e, version', n)]
      /\ last \in [Entries -> Seq(Cell)] /\ Fixed(last) /\ Fixed(last')
      /\ e \in CopiedHandle => n = Len(last[e]) /\ last[e] # <<>>
  BY <1>1, WritingFacts
<1> DEFINE s == Cells(e, version', n)
<1>3. s \in Seq(Cell) /\ (s = <<>> <=> n = 0)
  BY <1>2, CellsAreCells
<1>4. last[e] = <<>> /\ arc.data \in Seq(Cell) /\ table \in [Entries -> Nat]
  BY <1>1, <1>2, LaidOutFacts
<1>5. CASE n = 0
  <2>1. arc' = arc /\ table' = table /\ dirty' = dirty
    BY <1>5 DEF AppendEntry
  <2>2. last' = last
    BY <1>2, <1>3, <1>4, <1>5
  <2>3. InUse'
    BY <1>2, <2>1, <2>2 DEF InUse
  <2> QED
    BY <1>1, <1>2, <2>1, <2>3 DEF ArchiveInv
<1>6. CASE n # 0
  <2>1. /\ arc' = [arc EXCEPT !.data = @ \o s]
        /\ table' = [table EXCEPT ![e] = Len(arc.data) + 1]
        /\ dirty' = TRUE
    <3>1. e \notin CopiedHandle
      BY <1>2, <1>4
    <3> QED
      BY <1>6, <3>1 DEF AppendEntry, DirtyAfter
  <2>2. arc' \in File /\ arc'.data = arc.data \o s
    <3> HIDE DEF s
    <3>1. arc.data \o s \in Seq(Cell)
      BY <1>3, <1>4
    <3> QED
      BY <1>2, <2>1, <3>1 DEF File
  <2>3. LaidOut(table', arc'.data, last')
    <3>1. LaidOut([table EXCEPT ![e] = Len(arc.data) + 1], arc.data \o s, [last EXCEPT ![e] = s])
      <4> HIDE DEF s
      <4> QED
        BY <1>1, <1>2, <1>3, <1>6, AppendedIsLaidOut
    <3> QED
      BY <1>2, <2>1, <2>2, <3>1
  <2>4. InUse'
    BY <2>1, <2>2, <2>3 DEF InUse
  <2> QED
    BY <1>1, <1>2, <2>1, <2>4 DEF ArchiveInv
<1> QED
  BY <1>5, <1>6

LEMMA OverwriteEntryKeeps ==
  ASSUME ArchiveHypothesis, ArchiveInv,
         NEW e \in Entries, NEW n \in Lengths[e], OverwriteEntry(e, n)
  PROVE  ArchiveInv'
<1> DEFINE s == Cells(e, version', n)
           d == [i \in DOMAIN arc.data |->
                   IF i \in table[e] .. table[e] + n - 1 THEN <<e, version'>> ELSE arc.data[i]]
<1>1. /\ Writing(e, n) /\ table[e] # 0 /\ Extent(table, arc.data, e) = n
      /\ arc' = [arc EXCEPT !.data = d]
      /\ tmp' = tmp /\ table' = table /\ dirty' = dirty /\ phase' = phase
  BY DEF OverwriteEntry
<1>2. /\ phase = "open" /\ session = "playing" /\ session' = "playing"
      /\ tmp = EmptyFile /\ arc \in File /\ LaidOut(table, arc.data, last)
      /\ (~dirty => table = arc.table) /\ dirty \in BOOLEAN
      /\ n \in Nat /\ version' \in Nat /\ last' = [last EXCEPT ![e] = s]
      /\ Fixed(last')
  BY <1>1, WritingFacts
<1>3. e \in Used(table)
  BY <1>1 DEF Used
<1>4. LaidOut(table, d, [last EXCEPT ![e] = s])
  <2>1. /\ LaidOut(table, arc.data, last) /\ version' \in Nat
        /\ n = Extent(table, arc.data, e)
    BY <1>1, <1>2
  <2> QED
    BY <1>3, <2>1, OverwrittenIsLaidOut, Zenon
<1> HIDE DEF d, s
<1>5. d \in Seq(Cell)
  BY <1>4, LaidOutFacts
<1>6. arc' \in File /\ arc'.data = d /\ arc'.table = arc.table
  BY <1>1, <1>2, <1>5 DEF File
<1>7. LaidOut(table', arc'.data, last')
  BY <1>1, <1>2, <1>4, <1>6
<1>8. InUse'
  BY <1>1, <1>2, <1>6, <1>7 DEF InUse
<1> QED
  BY <1>1, <1>2, <1>8 DEF ArchiveInv

LEMMA CopyToTempKeeps ==
  ASSUME ArchiveHypothesis, ArchiveInv,
         NEW e \in Entries, NEW n \in Lengths[e], CopyToTemp(e, n)
  PROVE  ArchiveInv'
<1>1. /\ Writing(e, n) /\ table[e] # 0 /\ Extent(table, arc.data, e) # n
      /\ tmp' = [table |-> arc.table, data |-> Over(Rebuilt(e, n), tmp.data)]
      /\ table' = Moved(e, n)
      /\ dirty' = DirtyAfter(e) /\ phase' = "copied" /\ arc' = arc
  BY DEF CopyToTemp
<1>2. /\ session' = "playing"
      /\ tmp = EmptyFile /\ arc \in File /\ LaidOut(table, arc.data, last)
      /\ dirty \in BOOLEAN
      /\ n \in Nat /\ version' \in Nat /\ last' = [last EXCEPT ![e] = Cells(e, version', n)]
      /\ Fixed(last')
      /\ e \in CopiedHandle => n = Len(last[e]) /\ last[e] # <<>>
  BY <1>1, WritingFacts
<1>3. e \in Used(table)
  BY <1>1 DEF Used
<1>4. Extent(table, arc.data, e) = Len(last[e])
  BY <1>2, <1>3, ExtentIsLength
<1>5. dirty' = TRUE
  BY <1>1, <1>2, <1>4 DEF DirtyAfter
<1>6. LaidOut(table', Rebuilt(e, n), last')
  BY <1>1, <1>2, <1>3, RebuiltIsLaidOut
<1>7. Rebuilt(e, n) \in Seq(Cell)
  BY <1>6, LaidOutFacts
\* What is written is longer than what lay there, which is nothing.
<1>8. Over(Rebuilt(e, n), tmp.data) = Rebuilt(e, n)
  <2> DEFINE r == Rebuilt(e, n)
             rest == SubSeq(<<>>, Len(r) + 1, Len(<<>>))
  <2>1. Over(r, tmp.data) = r \o rest
    BY <1>2 DEF Over, EmptyFile
  <2> HIDE DEF r
  <2>2. r \in Seq(Cell) /\ Len(r) \in Nat
    BY <1>7 DEF r
  <2>3. rest = <<>>
    BY <2>2
  <2>4. r \o rest = r
    BY <2>2, <2>3
  <2> QED
    BY <2>1, <2>4 DEF r
<1>9. tmp' \in File /\ tmp'.data = Rebuilt(e, n)
  BY <1>1, <1>2, <1>7, <1>8 DEF File
<1>10. Rebuilding'
  BY <1>5, <1>6, <1>9 DEF Rebuilding
<1> QED
  BY <1>1, <1>2, <1>5, <1>10 DEF ArchiveInv

LEMMA DeleteArchiveKeeps ==
  ASSUME ArchiveInv, DeleteArchive
  PROVE  ArchiveInv'
<1>1. /\ phase = "copied" /\ phase' = "deleted" /\ tmp' = tmp /\ table' = table
      /\ dirty' = dirty /\ session' = session /\ last' = last /\ version' = version
  BY DEF DeleteArchive
<1>2. /\ session = "playing" /\ Rebuilding /\ Fixed(last) /\ version \in Nat /\ dirty \in BOOLEAN
  BY <1>1 DEF ArchiveInv
<1>3. Rebuilding' /\ Fixed(last)'
  BY <1>1, <1>2 DEF Rebuilding
<1> QED
  BY <1>1, <1>2, <1>3 DEF ArchiveInv

LEMMA RestoreArchiveKeeps ==
  ASSUME ArchiveInv, RestoreArchive
  PROVE  ArchiveInv'
<1>1. /\ phase = "deleted" /\ phase' = "restored" /\ arc' = tmp /\ tmp' = tmp /\ table' = table
      /\ dirty' = dirty /\ session' = session /\ last' = last /\ version' = version
  BY DEF RestoreArchive
<1>2. /\ session = "playing" /\ Rebuilding /\ Fixed(last) /\ version \in Nat /\ dirty \in BOOLEAN
  BY <1>1 DEF ArchiveInv
<1>3. /\ Fixed(last)' /\ dirty' /\ arc' \in File
      /\ LaidOut(table', arc'.data, last')
  BY <1>1, <1>2 DEF Rebuilding
<1> QED
  BY <1>1, <1>2, <1>3 DEF ArchiveInv

LEMMA ReopenArchiveKeeps ==
  ASSUME ArchiveInv, ReopenArchive
  PROVE  ArchiveInv'
<1>1. /\ phase = "restored" /\ phase' = "open" /\ tmp' = EmptyFile
      /\ arc' = arc /\ table' = table
      /\ dirty' = dirty /\ session' = session /\ last' = last /\ version' = version
  BY DEF ReopenArchive
<1>2. /\ session = "playing" /\ Fixed(last) /\ version \in Nat /\ dirty \in BOOLEAN
      /\ dirty /\ arc \in File /\ LaidOut(table, arc.data, last)
  BY <1>1 DEF ArchiveInv
<1>3. Fixed(last)' /\ InUse'
  BY <1>1, <1>2 DEF InUse
<1> QED
  BY <1>1, <1>2, <1>3 DEF ArchiveInv

\* After a crash nothing is known of the files but what LoadSaved puts there.
LEMMA ArchiveCrashKeeps ==
  ASSUME ArchiveInv, Interrupted
  PROVE  ArchiveInv'
BY DEF ArchiveInv, Interrupted

LEMMA LoadSavedKeeps ==
  ASSUME ArchiveHypothesis, ArchiveInv, LoadSaved
  PROVE  ArchiveInv'
<1>1. /\ session = "title" /\ session' = "loading" /\ arc' \in Archives
      /\ last' = Contents(arc')
      /\ tmp' = tmp /\ table' = table /\ dirty' = dirty /\ phase' = phase /\ version' = version
  BY DEF LoadSaved
<1>2. phase = "closed" /\ version \in Nat /\ dirty \in BOOLEAN
  BY <1>1 DEF ArchiveInv
<1>3. Sound(arc') /\ arc' \in File
  BY <1>1 DEF ArchiveHypothesis, Sound
<1>4. LaidOut(arc'.table, arc'.data, last')
  BY <1>1, <1>3, SoundIsLaidOut
<1>5. Fixed(last')
  BY <1>1, ShippedIsFixed
<1> QED
  BY <1>1, <1>2, <1>3, <1>4, <1>5 DEF ArchiveInv, OnDisk

LEMMA ArchiveStepInvariant ==
  ASSUME ArchiveHypothesis, ArchiveInv, [ArchiveNext]_archiveVars
  PROVE  ArchiveInv'
<1>1. CASE OpenArchive
  BY <1>1, OpenArchiveKeeps
<1>2. CASE CloseArchive
  BY <1>2, CloseArchiveKeeps
<1>3. ASSUME NEW e \in Entries, NEW n \in Lengths[e], WriteArchiveEntry(e, n)
      PROVE  ArchiveInv'
  BY <1>3, AppendEntryKeeps, OverwriteEntryKeeps, CopyToTempKeeps DEF WriteArchiveEntry
<1>4. CASE DeleteArchive
  BY <1>4, DeleteArchiveKeeps
<1>5. CASE RestoreArchive
  BY <1>5, RestoreArchiveKeeps
<1>6. CASE ReopenArchive
  BY <1>6, ReopenArchiveKeeps
<1>7. CASE Interrupted
  BY <1>7, ArchiveCrashKeeps
<1>8. CASE LoadSaved
  BY <1>8, LoadSavedKeeps
<1>9. CASE UNCHANGED archiveVars
  <2>1. /\ arc' = arc /\ tmp' = tmp /\ table' = table /\ dirty' = dirty /\ phase' = phase
        /\ session' = session /\ last' = last /\ version' = version
    BY <1>9 DEF archiveVars, files, handle
  <2> QED
    BY <2>1 DEF ArchiveInv, OnDisk, InUse, Rebuilding, Fixed
<1> QED
  BY <1>1, <1>2, <1>3, <1>4, <1>5, <1>6, <1>7, <1>8, <1>9 DEF ArchiveNext

\* The layout of the archive holds in every state: of the file while it is closed, of the
\* file under the table in memory while it is open, and of _arc.tmp while it is rebuilt
\* (write_archive_entry, close_level_archive, open_level_archive).
THEOREM ArchiveInvariant ==
  ASSUME ArchiveHypothesis
  PROVE  ArchiveSpec => []ArchiveInv
<1>1. ArchiveInit => ArchiveInv
  BY ArchiveInitInvariant
<1>2. ArchiveInv /\ [ArchiveNext]_archiveVars => ArchiveInv'
  BY ArchiveStepInvariant
<1> QED
  BY <1>1, <1>2, PTL DEF ArchiveSpec

\* Every entry reads as what was last written to it, also after the program died in the
\* middle of a rewrite and was started again (read_archive_entry).
THEOREM EntriesAreReadBack ==
  ASSUME ArchiveHypothesis
  PROVE  ArchiveSpec => []EntriesReadBack
<1>1. ArchiveInv => EntriesReadBack
  <2> SUFFICES ASSUME ArchiveInv, session = "playing", NEW e \in Entries
               PROVE  /\ phase = "closed" => ReadEntry(arc.table, arc.data, e) = last[e]
                      /\ phase = "open" => ReadEntry(table, arc.data, e) = last[e]
    BY DEF EntriesReadBack
  <2>1. CASE phase = "closed"
    <3>1. LaidOut(arc.table, arc.data, last)
      BY <2>1 DEF ArchiveInv, OnDisk
    <3> QED
      BY <2>1, <3>1, LaidOutReadsBack
  <2>2. CASE phase = "open"
    <3>1. LaidOut(table, arc.data, last)
      BY <2>2 DEF ArchiveInv, InUse
    <3> QED
      BY <2>2, <3>1, LaidOutReadsBack
  <2> QED
    BY <2>1, <2>2
<1>2. ArchiveSpec => []ArchiveInv
  BY ArchiveInvariant
<1> QED
  BY <1>1, <1>2, PTL
============================================================================
