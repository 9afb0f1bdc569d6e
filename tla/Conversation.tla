---------------------------- MODULE Conversation ----------------------------
(***************************************************************************)
(* A conversation from click to farewell (interact.c, babl.c): the script  *)
(* of a creature is loaded, its private variables come from bglobals.dat,  *)
(* its named ones from the creature; the interpreter runs it; then the     *)
(* variables go back to the file and to the creature.                      *)
(***************************************************************************)
EXTENDS BablVM, FiniteSets, Functions, SequencesExt

CONSTANTS
  None,
  Creatures,   \* the creatures one can talk to
  ScriptSets,  \* the scripts of the game data: a function from conversation ids
  Bodies,      \* what the records of the creatures may say at first
  Template,    \* babglobs.dat: a sequence of records of an id and a length
  StrangeWords,\* what malloc may leave in a block
  MaxTalks     \* how many talks

VARIABLES
  scripts,   \* cnv.ark: for each id its code, variables and named variables
  who,       \* for each creature its conversation id
  file,      \* bglobals.dat, word after word
  body,      \* for each creature what its record says
  talker,    \* the creature one talks to, or None
  id,        \* DAT_001007c4
  quest,     \* one of the player's quest flags
  talks,     \* how many talks have begun
  kept,      \* history: what the last talk of an id left in its private words
  seen       \* history: the block of memory the script began with

vm == machine
world == <<scripts, who>>
memory == <<kept, seen>>
all == <<vm, world, file, body, talker, id, quest, talks, memory>>

\* seed_conversation_globals_for_new_game: the template's records, zeroed.
Seeded == FoldLeft(LAMBDA f, r : f \o r \o [i \in 1 .. r[2] |-> 0], <<>>, Template)

Init ==
  /\ scripts \in ScriptSets
  /\ who \in [Creatures -> DOMAIN scripts]
  /\ file = Seeded
  /\ body \in [Creatures -> Bodies]
  /\ talker = None /\ id = 0 /\ quest = 0 /\ talks = 0
  /\ kept = [i \in DOMAIN scripts |-> None] /\ seen = <<>>
  /\ code = <<>> /\ vars = 0 /\ mem = <<>> /\ sp = 0 /\ frame = 0 /\ ip = 0
  /\ result = 0 /\ running = FALSE

\* The mutant: a record is skipped by its length in words, not in bytes.
NextByWords(f, p) == p + 2 + (f[p + 1] + 1) \div 2

\* The walk over the records, which lie in the order of their ids; 0 is the end.
Shorter(m, n) == IF m < n THEN m ELSE n
Within(f, p) == Shorter(p, Len(f) + 1)
Ends(f, p) == p + 1 > Len(f) \/ f[p] > id
NextRecord(f, p) == p + 2 + f[p + 1]
Found(f) ==
  LET walk[p \in 1 .. Len(f) + 1] ==
        IF Ends(f, p) THEN 0 ELSE IF f[p] = id THEN p ELSE walk[Within(f, NextRecord(f, p))]
  IN  walk[1]

\* load_npc_conversation_variables: the walk goes on behind what it has read,
\* in the middle of a record longer than the script's variables.
Read(f, n) ==
  LET words[p \in 1 .. Len(f) + 1] ==
        IF Ends(f, p) THEN <<>>
        ELSE IF f[p] # id THEN words[Within(f, NextRecord(f, p))]
        ELSE LET m == Shorter(f[p + 1], n)
             IN  words[Within(f, p + 2 + m)] @@ [w \in 0 .. m - 1 |-> f[p + 2 + w]]
  IN  words[1]

\* The block of variables and stack, which malloc has not cleared.
Loaded(n, junk) == Read(file, n) @@ [w \in 0 .. n + StackWords - 1 |-> junk]

\* init_babl_variable_defaults and sync_conv_vars_from_npc: the named words.
Attitude(c) ==
  IF body[c].hunted THEN 0 ELSE IF body[c].friend THEN 6 ELSE body[c].attitude
NamedWord(name, c) ==
  CASE name = "npc_attitude" -> Attitude(c)
    [] name = "npc_talkedto" -> Truth(body[c].talked)
    [] OTHER -> 0
Named(block, s, c) ==
  [w \in DOMAIN block |-> IF w \in DOMAIN s.named THEN NamedWord(s.named[w], c) ELSE block[w]]

\* attempt_talk_interaction: a hostile creature does not talk.
Talks(c) == body[c].friend \/ (~body[c].hunted /\ body[c].attitude # 0)

\* load_npc_conversation_record and start_npc_conversation.
Begin(c) ==
  /\ talker = None /\ talks < MaxTalks /\ Talks(c)
  /\ talker' = c /\ id' = who[c] /\ talks' = talks + 1
  /\ UNCHANGED <<vm, world, file, body, quest, memory>>

Load ==
  LET s == scripts[id]
  IN  /\ talker # None /\ ~running /\ seen = <<>>
      /\ \E junk \in StrangeWords : seen' = Named(Loaded(s.vars, junk), s, talker)
      /\ Start(s, seen')
      /\ UNCHANGED <<world, file, body, talker, id, quest, talks, kept>>

Interpret == Steps /\ UNCHANGED <<world, file, body, talker, id, quest, talks, memory>>

\* Game functions: a menu of three answers, a quest flag read and set.
Menu == /\ Runs(20) /\ Operand = 0 /\ \E k \in 1 .. 3 : Builtin(k)
        /\ UNCHANGED <<world, file, body, talker, id, quest, talks, memory>>
GetQuest == /\ Runs(20) /\ Operand = 1 /\ Builtin(quest)
            /\ UNCHANGED <<world, file, body, talker, id, quest, talks, memory>>
SetQuest == /\ Runs(20) /\ Operand = 2 /\ Builtin(1) /\ quest' = mem[Second]
            /\ UNCHANGED <<world, file, body, talker, id, talks, memory>>

\* save_npc_conversation_variables: the words go into the script's own record.
Saved(f) ==
  LET at == Found(f)
      n == Shorter(f[at + 1], vars)
  IN  IF at = 0 THEN f
      ELSE [w \in DOMAIN f |-> IF w \in at + 2 .. at + 1 + n THEN mem[w - at - 2] ELSE f[w]]

\* sync_conv_vars_to_npc.
WordOf(s, name) == mem[CHOOSE w \in DOMAIN s.named : s.named[w] = name]
Told(b, s) ==
  LET attitude == WordOf(s, "npc_attitude")
  IN  [b EXCEPT !.talked = TRUE,
                !.attitude = IF attitude < 4 THEN attitude % 4 ELSE 3,
                !.friend = @ \/ attitude >= 4]

\* The private words that have a place in the file.
Private(s) ==
  LET at == Found(file)
  IN  IF at = 0 THEN {} ELSE (0 .. Shorter(s.vars, file[at + 1]) - 1) \ DOMAIN s.named
End ==
  LET s == scripts[id]
  IN  /\ talker # None /\ ~running /\ seen # <<>>
      /\ file' = IF code[1] = 34 THEN Saved(file) ELSE file
      /\ body' = [body EXCEPT ![talker] = Told(@, s)]
      /\ kept' = [kept EXCEPT ![id] = Restrict(mem, Private(s))]
      /\ seen' = <<>> /\ talker' = None
      /\ UNCHANGED <<vm, world, id, quest, talks>>

\* Between talks a fight ends, or begins.
Fight(c) ==
  /\ talker = None /\ 0 < talks /\ talks < MaxTalks
  /\ body' = [body EXCEPT ![c].hunted = ~@]
  /\ UNCHANGED <<vm, world, file, talker, id, quest, talks, memory>>

Next ==
  \/ \E c \in Creatures : Begin(c) \/ Fight(c)
  \/ Load \/ Interpret \/ Menu \/ GetQuest \/ SetQuest \/ End

Spec == Init /\ [][Next]_all

\* A script finds its private words as its last talk left them, whoever has
\* talked in between (babl.c:1088, 3113: one flat file of records of all
\* scripts, of which each walk must find the same one).
MemoryOfLastTalk ==
  (seen # <<>> /\ kept[id] # None) => Restrict(seen, Private(scripts[id])) = kept[id]

\* A script that has run leaves in its first word what it means in its
\* source, and stack and frame as they were at its start (babl.c:1631).
EvaluatesAsWritten ==
  talker # None /\ seen # <<>> /\ ~running =>
    /\ sp = 0 /\ frame = 0
    /\ scripts[id].want # None => mem[0] = scripts[id].want
=============================================================================
