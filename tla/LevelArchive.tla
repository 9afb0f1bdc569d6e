---------------------------- MODULE LevelArchive ----------------------------
(***************************************************************************)
(* The level archive \SAVE0\lev.ark (saveload.c): a table of offsets and   *)
(* the entries' data, without lengths: an entry reaches to the next larger *)
(* offset or to the end of the file.  Writing an entry with another length *)
(* rebuilds the file through _arc.tmp; the table is written back when the  *)
(* archive is closed.  The program can die between any two of these steps; *)
(* the player then starts it again and loads a saved copy of the archive.  *)
(*                                                                         *)
(* Data is counted in cells, a cell being a write of an entry; offset 0 is *)
(* inside the table, so it stands for an empty entry, as in the code.      *)
(***************************************************************************)
EXTENDS Integers, Sequences, FiniteSetsExt

CONSTANTS
  Entries,     \* the entries of the archive
  Lengths,     \* for each entry the lengths it is written with
  Archives,    \* the archives that are shipped or have been saved
  CopiedHandle,\* entries written through a copy of the handle
  MaxVersion,  \* bound: writes in a behaviour
  NoFile       \* no such file

VARIABLES
  arc,         \* lev.ark: its table and its data
  tmp,         \* _arc.tmp
  table,       \* DAT_000b78b8, the table in memory
  dirty,       \* byte 0xe of the handle
  phase,       \* where the game is in its work on the archive
  session,     \* "title", "loading" or "playing"
  last,        \* history: what each entry was last given
  version      \* history: writes so far

files == <<arc, tmp>>
handle == <<table, dirty, phase, session>>
archiveVars == <<files, handle, last, version>>

EmptyFile == [table |-> [e \in Entries |-> 0], data |-> <<>>]
Cells(e, v, n) == [i \in 1 .. n |-> <<e, v>>]

\* The distance to the next larger offset, or to the end of the file.
Extent(t, data, e) ==
  Min({t[f] - t[e] : f \in {f \in Entries : t[f] > t[e]}} \cup {Len(data) + 1 - t[e]})

\* read_archive_entry.
ReadEntry(t, data, e) ==
  IF t[e] = 0 THEN <<>> ELSE SubSeq(data, t[e], t[e] + Extent(t, data, e) - 1)

\* What an archive says of all its entries.
Contents(file) == [e \in Entries |-> ReadEntry(file.table, file.data, e)]

ArchiveInit ==
  /\ arc \in Archives /\ tmp = NoFile
  /\ table = EmptyFile.table /\ dirty = FALSE
  /\ phase = "closed" /\ session = "loading"
  /\ last = Contents(arc) /\ version = 0

\* open_level_archive: the table is read; _arc.tmp is opened and not emptied.
OpenArchive ==
  /\ phase = "closed" /\ session # "title"
  /\ table' = arc.table /\ dirty' = FALSE
  /\ tmp' = (IF tmp = NoFile THEN EmptyFile ELSE tmp)
  /\ phase' = "open"
  /\ UNCHANGED <<arc, session, last, version>>

Writing(e, n) ==
  /\ phase = "open" /\ session = "playing"
  /\ n \in Lengths[e] /\ version < MaxVersion
  /\ version' = version + 1
  /\ last' = [last EXCEPT ![e] = Cells(e, version', n)]
  /\ UNCHANGED session

\* write_level_tilemap_to_archive writes through a copy of the handle, whose flag
\* never reaches the handle that is closed.
DirtyAfter(e) == dirty \/ e \notin CopiedHandle

\* write_archive_entry, an empty entry: its data goes to the end of the file.
AppendEntry(e, n) ==
  /\ Writing(e, n) /\ table[e] = 0
  /\ IF n = 0 THEN UNCHANGED <<arc, table, dirty>>
     ELSE /\ arc' = [arc EXCEPT !.data = @ \o Cells(e, version', n)]
          /\ table' = [table EXCEPT ![e] = Len(arc.data) + 1]
          /\ dirty' = DirtyAfter(e)
  /\ UNCHANGED <<tmp, phase>>

\* The same length as before: in place.
OverwriteEntry(e, n) ==
  /\ Writing(e, n) /\ table[e] # 0 /\ Extent(table, arc.data, e) = n
  /\ arc' = [arc EXCEPT !.data =
               [i \in DOMAIN @ |-> IF i \in table[e] .. table[e] + n - 1 THEN <<e, version'>> ELSE @[i]]]
  /\ UNCHANGED <<tmp, table, dirty, phase>>

\* The archive without the entry's data, and the new data at its end.
Rebuilt(e, n) ==
  SubSeq(arc.data, 1, table[e] - 1)
    \o SubSeq(arc.data, table[e] + Extent(table, arc.data, e), Len(arc.data))
    \o Cells(e, version', n)

\* What lay in _arc.tmp beyond what is written over it stays.
Over(new, was) == new \o SubSeq(was, Len(new) + 1, Len(was))

Moved(e, n) ==
  LET size == Extent(table, arc.data, e) IN
  [f \in Entries |->
     IF f = e THEN IF n = 0 THEN 0 ELSE Len(arc.data) - size + 1
     ELSE IF table[f] > table[e] THEN table[f] - size ELSE table[f]]

\* Another length: the new file is put together in _arc.tmp, its header still
\* with the old table, and the table in memory is moved ...
CopyToTemp(e, n) ==
  /\ Writing(e, n) /\ table[e] # 0 /\ Extent(table, arc.data, e) # n
  /\ tmp' = [table |-> arc.table, data |-> Over(Rebuilt(e, n), tmp.data)]
  /\ table' = Moved(e, n)
  /\ dirty' = DirtyAfter(e)
  /\ phase' = "copied"
  /\ UNCHANGED arc

\* ... the archive is deleted ...
DeleteArchive ==
  /\ phase = "copied" /\ phase' = "deleted"
  /\ arc' = NoFile
  /\ UNCHANGED <<tmp, table, dirty, session, last, version>>

\* ... created again from all of _arc.tmp ...
RestoreArchive ==
  /\ phase = "deleted" /\ phase' = "restored"
  /\ arc' = tmp
  /\ UNCHANGED <<tmp, table, dirty, session, last, version>>

\* ... which is deleted, and both are opened again.
ReopenArchive ==
  /\ phase = "restored" /\ phase' = "open"
  /\ tmp' = EmptyFile
  /\ UNCHANGED <<arc, table, dirty, session, last, version>>

\* Mutant: the temporary file is deleted only when the archive was changed.
CloseArchiveClean ==
  /\ phase = "open" /\ phase' = "closed" /\ session' = "playing"
  /\ arc' = (IF dirty THEN [arc EXCEPT !.table = table] ELSE arc)
  /\ tmp' = (IF dirty THEN NoFile ELSE tmp)
  /\ UNCHANGED <<table, dirty, last, version>>

\* close_level_archive.  What opens it first after a load is load_level, which
\* only reads.
CloseArchive ==
  /\ phase = "open" /\ phase' = "closed" /\ session' = "playing"
  /\ arc' = (IF dirty THEN [arc EXCEPT !.table = table] ELSE arc)
  /\ tmp' = NoFile
  /\ UNCHANGED <<table, dirty, last, version>>

\* The program dies; the files stay as they are.
Interrupted ==
  /\ session # "title"
  /\ session' = "title" /\ phase' = "closed"
  /\ UNCHANGED <<files, table, dirty, last, version>>

\* It is started again and a saved archive is copied over (copy_save_slot_files,
\* uw_file_copy, or the one shipped for a new game); _arc.tmp is not touched.
LoadSaved ==
  /\ session = "title" /\ session' = "loading"
  /\ arc' \in Archives /\ last' = Contents(arc')
  /\ UNCHANGED <<tmp, table, dirty, phase, version>>

WriteArchiveEntry(e, n) == AppendEntry(e, n) \/ OverwriteEntry(e, n) \/ CopyToTemp(e, n)

ArchiveNext ==
  \/ OpenArchive \/ CloseArchive
  \/ \E e \in Entries : \E n \in Lengths[e] : WriteArchiveEntry(e, n)
  \/ DeleteArchive \/ RestoreArchive \/ ReopenArchive
  \/ Interrupted \/ LoadSaved

ArchiveSpec == ArchiveInit /\ [][ArchiveNext]_archiveVars

------------------------------------------------------------------------------
\* Reading any entry gives what was last written to it, neither more nor less:
\* from the file when the archive is closed, through the table in memory while it
\* is open; also after the program died half way through a rewrite and was started
\* again (write_archive_entry, close_level_archive, read_archive_entry).
EntriesReadBack ==
  session = "playing" =>
    \A e \in Entries :
      /\ phase = "closed" => ReadEntry(arc.table, arc.data, e) = last[e]
      /\ phase = "open" => ReadEntry(table, arc.data, e) = last[e]
=============================================================================
