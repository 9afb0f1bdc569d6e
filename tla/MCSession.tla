----------------------------- MODULE MCSession -----------------------------
(* What a game keeps, in three instances, one of them in a behaviour: one   *)
(* archive of a map of fixed length and two pages of notes; two slots for   *)
(* two playthroughs of two levels; the triggers and traps of two tiles.     *)
EXTENDS SaveSlots, LevelArchive, FiniteSets, SequencesExt

CONSTANTS map, n1, n2, g1, g2

MCEntries == {map, n1, n2}
MCLengths == [e \in Entries |-> IF e = map THEN {2} ELSE 0 .. 2]
\* One without a page of notes, one whose notes were written before the map.
MCArchives ==
  {[table |-> [e \in Entries |-> IF e = map THEN 1 ELSE IF e = n1 THEN 3 ELSE 0],
    data |-> <<<<map, 0>>, <<map, 0>>, <<n1, 0>>>>],
   [table |-> [e \in Entries |-> IF e = map THEN 2 ELSE IF e = n1 THEN 4 ELSE 1],
    data |-> <<<<n2, 0>>, <<map, 0>>, <<map, 0>>, <<n1, 0>>, <<n1, 0>>>>]}
MCCopiedHandle == {map}
MCGames == {g1, g2}
MCLevels == 1 .. 2

Records == 1 .. 7
TrapTiles == {11, 12}
Avatar == 19
LinkWord == 18
TrapHeads == Records \cup TrapTiles \cup {Avatar, LinkWord}

\* Triggers 1, 2, 3, traps 4, 5 and box 6, in every arrangement that counts right and has
\* no circle.  The spare records are free, for a copy of the box with what is in it or
\* for a rune; 7 is in use elsewhere when it is not spare.
TrapWorld(aim, inBox, t5, template, kind4, kind5, link4, once, spare) ==
  LET homes == [r \in 1 .. 6 |->
        CASE r \in inBox -> 6
          [] r = 5 -> t5
          [] r = 6 -> IF template THEN 4 ELSE 11
          [] r = 4 -> 12
          [] OTHER -> 11]
      row(h) == SelectSeq(<<1, 2, 3, 4, 5, 6>>, LAMBDA r : r \notin spare /\ homes[r] = h)
      triggers == (1 .. 3) \ spare
  IN  [what |-> [r \in Records |-> IF r \in spare THEN "free" ELSE IF r \in triggers THEN "trigger"
                                   ELSE IF r \in 4 .. 5 THEN "trap" ELSE "box"],
       kind |-> [r \in Records |-> IF r = 4 THEN kind4 ELSE IF r = 5 THEN kind5 ELSE "none"],
       aims |-> [r \in Records |-> IF r \in triggers THEN aim[r] ELSE IF r = 4 THEN link4
                                   ELSE IF r = 5 /\ kind5 = "delete" THEN 6 ELSE None],
       chain |-> [h \in TrapHeads |-> IF h \in {Avatar, LinkWord} THEN <<>>
                                  ELSE (IF h = 11 THEN <<Avatar>> ELSE <<>>) \o row(h)],
       at |-> [r \in Records |-> IF r \in triggers THEN 12 ELSE 11],
       once |-> once \ spare,
       count |-> [r \in Records |-> IF r \in {4, 5} THEN Cardinality({g \in triggers : aim[g] = r}) ELSE 0],
       left |-> 0, passed |-> {}, drift |-> [r \in Records |-> 0], lost |-> {}, broken |-> "no"]

TrapWorlds ==
  {TrapWorld(aim, inBox, t5, template, kind4, kind5, link4, once, spare) :
     aim \in {f \in [1 .. 3 -> {4, 5}] : f[1] = 4 /\ f[2] = 4},
     inBox \in {{}, {3}, {1, 2}, {2, 3}}, t5 \in {12, 6, 4}, template \in BOOLEAN,
     kind4 \in {"follow", "check", "create", "delete"}, kind5 \in {"end", "delete"},
     link4 \in {None, 3, 5, 6}, once \in {{1}, {1, 2, 3}}, spare \in {{}, {7}, {1, 7}}}

SoundTraps(v) ==
  /\ v.what[7] = "free" =>
       v.kind[4] = "create" /\ v.chain[6] # <<>> /\ v.once \subseteq {1} /\ 5 \in ToSet(v.chain[12])
  /\ v.chain[6] = <<3>> <=> v.what[1] = "free"
  /\ v.chain[4] # <<>> => v.aims[4] = None
  /\ v.aims[4] = 3 => v.aims[3] = 5
  /\ v.aims[4] = 5 => v.kind[4] # "delete"
  /\ v.aims[4] = 6 <=> (v.kind[4] = "delete" /\ v.chain[4] = <<>>)
  /\ v.kind[4] = "delete" => v.chain[4] = <<>>
  /\ v.kind[4] = "create" <=> 6 \in ToSet(v.chain[4])
  /\ v.kind[5] = "delete" => 6 \in ToSet(v.chain[11])
  /\ (5 \in ToSet(v.chain[6]) \cup ToSet(v.chain[4])) => Len(v.chain[4]) < 2
  /\ 5 \in ToSet(v.chain[6]) => v.count[5] = 0
SoundWorlds == {v \in TrapWorlds : SoundTraps(v)}

VARIABLES code, words, mem, sp, frame, ip, result, running,
  scripts, who, memories, body, talker, id, quest, talks, kept, seen
talkVars == <<code, words, mem, sp, frame, ip, result, running,
  scripts, who, memories, body, talker, id, quest, talks, kept, seen>>

VARIABLES which, d

Traps == INSTANCE TrapChains WITH
           Slots <- Records, Tiles <- TrapTiles, Me <- Avatar, Local <- LinkWord,
           Worlds <- SoundWorlds

Samples == INSTANCE SampleScripts
TextOf == [n \in -1 .. 32 |-> n % 2]
Talk == INSTANCE Conversation WITH
          vars <- words, file <- memories, StackWords <- 24,
          Creatures <- 1 .. 2, MaxTalks <- 3, StrangeWords <- {-1, 7},
          Template <- <<<<1, 3>>, <<2, 4>>>>, ScriptSets <- Samples!ScriptSets,
          Bodies <- {[attitude |-> 2, friend |-> FALSE, hunted |-> FALSE, talked |-> FALSE]}
Silent == code = None /\ words = None /\ mem = None /\ sp = None /\ frame = None
  /\ ip = None /\ result = None /\ running = None /\ scripts = None /\ who = None
  /\ memories = None /\ body = None /\ talker = None /\ id = None /\ quest = None
  /\ talks = None /\ kept = None /\ seen = None

MCInit ==
  /\ which \in {"archive", "slots", "traps", "talk"}
  /\ ArchiveInit /\ Init
  /\ which # "archive" => arc.table[n2] = 0
  /\ IF which = "traps" THEN Traps!Init ELSE d = None
  /\ IF which = "talk" THEN Talk!Init ELSE Silent

ArchiveRuns == which = "archive" /\ ArchiveNext /\ UNCHANGED <<which, vars, d, talkVars>>
SlotsRun == which = "slots" /\ Next /\ UNCHANGED <<which, archiveVars, d, talkVars>>
TrapsRun == which = "traps" /\ Traps!Next /\ UNCHANGED <<which, archiveVars, vars, talkVars>>
TalkRuns == which = "talk" /\ Talk!Next /\ UNCHANGED <<which, archiveVars, vars, d>>

MCSpec == MCInit /\ [][ArchiveRuns \/ SlotsRun \/ TrapsRun \/ TalkRuns]_
             <<which, archiveVars, vars, d, talkVars>>

TriggersLeadToTraps == which = "traps" => Traps!TriggersLeadToTraps
CountsAreTriggers == which = "traps" => Traps!CountsAreTriggers
MemoryOfLastTalk == which = "talk" => Talk!MemoryOfLastTalk
EvaluatesAsWritten == which = "talk" => Talk!EvaluatesAsWritten
=============================================================================
