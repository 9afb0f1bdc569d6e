---------------------------- MODULE EffectQueue ----------------------------
(***************************************************************************)
(* The table of timed effects (scheduler.c): up to MaxEntries entries, each *)
(* the link of a world object and a delay in ticks, -1 for "forever".  The *)
(* live entries are the first count ones; what lies behind them is left    *)
(* over from entries removed.  Entries have no order: a removed entry is    *)
(* overwritten with the last one.                                          *)
(*                                                                         *)
(* The entry's tile is not modelled: it never changes and selects only the *)
(* place where the object is drawn, unlinked and tested for clearance.     *)
(***************************************************************************)
EXTENDS Integers

CONSTANTS
  MaxEntries,  \* 0x40 in the code
  NoObject     \* link 0

VARIABLES
  link,   \* the object of each entry (g_scheduler_table, first word)
  delay,  \* its remaining ticks (second word)
  count   \* g_scheduler_count

table == <<link, delay, count>>

Entries == 1 .. count
HasEntry(o) == \E i \in Entries : link[i] = o

\* scheduler_find_entry and the search loops of its siblings: the first match.
IsEntryOf(i, o) ==
  /\ i \in Entries /\ link[i] = o
  /\ \A j \in 1 .. (i - 1) : link[j] # o

EmptyTable ==
  /\ link = [i \in 1 .. MaxEntries |-> NoObject]
  /\ delay = [i \in 1 .. MaxEntries |-> 0]
  /\ count = 0

\* scheduler_add_entry returns -1 when the table is full.
Full == count >= MaxEntries

AddEntry(o, d) ==
  /\ ~Full
  /\ link' = [link EXCEPT ![count + 1] = o]
  /\ delay' = [delay EXCEPT ![count + 1] = d]
  /\ count' = count + 1

\* The tail of scheduler_finish_entry and of scheduler_remove_entry.  The link
\* left behind the last entry matters to scheduler_load; the delay there is
\* never read, so it is cleared.
RemoveAt(i) ==
  /\ link' = [link EXCEPT ![i] = link[count]]
  /\ delay' = [delay EXCEPT ![i] = delay[count], ![count] = 0]
  /\ count' = count - 1

SchedulerRemoveEntry(o) ==
  \/ \E i \in Entries : IsEntryOf(i, o) /\ RemoveAt(i)
  \/ ~HasEntry(o) /\ UNCHANGED table

SchedulerRelinkEntry(new, old) ==
  \/ \E i \in Entries :
       IsEntryOf(i, old) /\ link' = [link EXCEPT ![i] = new] /\ UNCHANGED <<delay, count>>
  \/ ~HasEntry(old) /\ UNCHANGED table

\* Mutant: the entry behind the last one is saved as it was left.
SavedUnblanked == link

\* scheduler_save blanks the link behind the last entry.
Saved == IF count < MaxEntries THEN [link EXCEPT ![count + 1] = NoObject] ELSE link

\* scheduler_load counts the entries before the first blank link.
IsLoadedCount(saved, n) ==
  /\ \A i \in 1 .. n : saved[i] # NoObject
  /\ n < MaxEntries => saved[n + 1] = NoObject

\* Leaving a level and coming back, or saving and restoring the game.
SchedulerSaveAndLoad ==
  /\ link' = Saved
  /\ \E n \in 0 .. MaxEntries : IsLoadedCount(Saved, n) /\ count' = n
  /\ UNCHANGED delay
=============================================================================
