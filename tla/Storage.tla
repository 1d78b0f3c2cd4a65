------------------------------ MODULE Storage ------------------------------
(***************************************************************************)
(* The persistent catalog of felwood: Catalog (storage/catalog.hpp), Table *)
(* (storage/table.hpp) and SegmentManager (storage/segment_manager.hpp),   *)
(* driven by the statements of one connection at a time.                   *)
(*                                                                         *)
(* Every statement that changes something rewrites whole files in place:   *)
(* catalog.dat (the map from table names to numeric ids) and               *)
(* <id>/segment.seg (one table).  std::ofstream truncates a file when it   *)
(* opens it and the bytes are only sure to be there when it is closed, so  *)
(* opening and closing are separate steps here, and the process may be     *)
(* killed between any two steps.  What a closed file holds survives.       *)
(*                                                                         *)
(* A row is one value pushed into every column, so that a cell says which  *)
(* row it belongs to.                                                      *)
(***************************************************************************)
EXTENDS Naturals, Sequences, FiniteSets

CONSTANTS
  Names,    \* the table names statements use
  Scraps,   \* names no statement can spell: a name cut short in catalog.dat
            \* comes back padded with NUL characters
  NumCols,  \* columns of every table
  Values,   \* the rows that are inserted
  Garbage,  \* what a column reads past its own end in segment.seg
  MaxId,    \* bound: ids that can be assigned
  MaxRows,  \* bound: rows of column 1
  Faults    \* the file errors that may happen.  "open": a file or directory
            \* cannot be opened, which is reported by those that write and
            \* taken by those that read for a file that is not there.
            \* "write" (a full disk): never noticed, as no stream state is
            \* checked

ASSUME NamesAssumption == Names # {} /\ Scraps \cap Names = {}
ASSUME NumColsAssumption == NumCols \in Nat \ {0}
\* Ids fit one byte: the eight bytes of an id, when cut short, then come back
\* as nothing or as the id.
ASSUME BoundsAssumption == MaxId \in 1 .. 254 /\ MaxRows \in Nat
ASSUME FaultsAssumption == Faults \subseteq {"open", "write"}

TableNames == Names \cup Scraps
NoId == 0                 \* ids start at 1; an unmapped name has id NoId
Ids == 1 .. MaxId
Cols == 1 .. NumCols
Cell == Values \cup {Garbage}
NoRows == [c \in Cols |-> << >>]
Absent == [id |-> NoId, width |-> 0, cols |-> NoRows]
NoSegment == [state |-> "none", cols |-> NoRows]
Untold == [known |-> FALSE, cols |-> NoRows]  \* nothing acknowledged

\* Mutant of Blank: ids start at 0, as an in-memory catalog's do.
BlankFromZero == [next |-> 0, map |-> [n \in TableNames |-> NoId]]

\* a SegmentManager that has read no catalog.dat, or an empty one
Blank == [next |-> 1, map |-> [n \in TableNames |-> NoId]]

VARIABLES
  tables_,      \* Catalog::tables_: name -> Table (id, columns.size(), data)
  name_to_id_,  \* SegmentManager::name_to_id_
  next_id_,     \* SegmentManager::next_id_
  catalog_dat,  \* catalog.dat: what load_catalog makes of its bytes
  segment_seg,  \* <id>/segment.seg: "none", "torn" (not ending in MAGIC),
                \* "stub" (nothing but the leading MAGIC) or "whole"
  proc,         \* the server: "down", "up", "aborted" (while loading)
  pc,           \* where the statement that is running stands
  cur,          \* the table of that statement (or of the last one)
  reply,        \* what its client was sent: "none" (yet), "ok", "err"
  acked,        \* ghost: what was last acknowledged of each table
  cut,          \* ghost: catalog.dat has been cut short since it was loaded
  unread        \* ghost: the tables that catalog.dat has a name for and that
                \* this process could not open the files of

memory == <<tables_, name_to_id_, next_id_>>
disk == <<catalog_dat, segment_seg>>
ghosts == <<acked, cut, unread>>
vars == <<memory, disk, proc, pc, cur, reply, ghosts>>

Columns == [Cols -> Seq(Cell)]

----------------------------------------------------------------------------
(* Table and Column *)

num_rows(cols) == Len(cols[1])

\* append_row of a well-typed row
Appended(cols, v) == [c \in Cols |-> Append(cols[c], v)]

\* Mutant of AppendedBefore: the columns are appended from last to first.
AppendedAfter(cols, v, bad) ==
  [c \in Cols |-> IF c > bad THEN Append(cols[c], v) ELSE cols[c]]

\* Mutant of AppendedBefore: a clean-up that pops the columns which have not
\* grown.
PoppedInstead(cols, v, bad) ==
  [c \in Cols |-> IF c < bad \/ cols[c] = << >> THEN cols[c]
                  ELSE SubSeq(cols[c], 1, Len(cols[c]) - 1)]

\* append_row of a row whose value for column bad has the wrong type: the
\* columns before bad have already grown when std::get throws
AppendedBefore(cols, v, bad) ==
  [c \in Cols |-> IF c < bad THEN Append(cols[c], v) ELSE cols[c]]

\* read_column reads num_rows values for every column, whatever it finds past
\* the end of a shorter one
Padded(cols) ==
  [c \in Cols |-> [r \in 1 .. num_rows(cols) |->
                     IF r <= Len(cols[c]) THEN cols[c][r] ELSE Garbage]]

Short(cols) == {c \in Cols : Len(cols[c]) < num_rows(cols)}

\* The columns after which load_segment may find its stream failed: what a
\* short column reads past its end, as a length most easily, may lead to the
\* end of the file.
FailsAt(cols) == {NumCols} \cup Short(cols)

\* what is read of a segment's columns: seekg does nothing on a failed stream
\* and read leaves the zeros, so the columns behind f are lost
ReadUpTo(cols, f) == [c \in Cols |-> IF c <= f THEN cols[c] ELSE << >>]

\* big holds every cell of small, in the same place
Covers(big, small) ==
  \A c \in Cols : /\ Len(small[c]) <= Len(big[c])
                  /\ \A r \in 1 .. Len(small[c]) : big[c][r] = small[c][r]

----------------------------------------------------------------------------
(* SegmentManager *)

\* what assign_id leaves in next_id_
NextId(next) == next + 1

\* Mutant of Written: the newest row is left out.
WrittenWithoutLast(cols) ==
  [state |-> "whole",
   cols |-> [c \in Cols |-> IF cols[c] = << >> THEN << >>
                            ELSE SubSeq(cols[c], 1, Len(cols[c]) - 1)]]

\* the segment a completed flush of the columns leaves
Written(cols) == [state |-> "whole", cols |-> cols]

\* flush has opened the file and is not done, or its bytes did not fit
Truncated == [state |-> "torn", cols |-> NoRows]
CutSegments == {Truncated, [state |-> "stub", cols |-> NoRows]}

\* Mutant of SavedCatalog: next_id_ is saved as it was before it grew.
SavedCatalogStale(map, next) == [next |-> next - 1, map |-> map]

\* what save_catalog writes
SavedCatalog(map, next) == [next |-> next, map |-> map]

\* what load_catalog makes of a catalog.dat that was cut short: nothing, or
\* the entries before the cut, and perhaps the name in which the cut fell.
\* The entries behind the cut are read as the empty name with id 0, which no
\* segment has.
Mapped(map) == {n \in TableNames : map[n] # NoId}
Kept(map, S) == [n \in TableNames |-> IF n \in S THEN map[n] ELSE NoId]
CutCatalogs(map, next) ==
  {Blank}
  \cup {[next |-> next, map |-> Kept(map, S)] :
           S \in SUBSET Mapped(map) \ {Mapped(map)}}
  \cup UNION {{[next |-> next, map |-> [Kept(map, S) EXCEPT ![s] = map[l]]] :
                  s \in Scraps \ S, l \in Mapped(map) \ S} :
                  S \in SUBSET Mapped(map)}

\* What load_catalog may make of catalog.dat: it returns without a word when
\* it cannot open it, and the names and next_id_ stay those of no file at all.
LoadedCatalogs ==
  {catalog_dat} \cup (IF "open" \in Faults THEN {Blank} ELSE {})

\* The sets of names whose segments load_segment may be unable to open.
Unopened(map) == IF "open" \in Faults THEN SUBSET Mapped(map) ELSE {{}}

\* Mutant of LoadedTable: a segment without rows is taken for no table.
LoadedUnlessEmpty(id, segs, opens, f) ==
  IF ~opens \/ id = NoId \/ segs[id].state # "whole" \/ segs[id].cols = NoRows
  THEN Absent
  ELSE [id |-> id, width |-> NumCols,
        cols |-> Padded(ReadUpTo(segs[id].cols, f))]

\* load_segment: what a mapped name becomes.  There is no table, and no error,
\* if the segment is not there or cannot be opened; otherwise the stream fails
\* in column f.
LoadedTable(id, segs, opens, f) ==
  IF id = NoId \/ ~opens THEN Absent
  ELSE CASE segs[id].state = "whole" ->
              [id |-> id, width |-> NumCols,
               cols |-> Padded(ReadUpTo(segs[id].cols, f))]
         [] segs[id].state = "stub" ->
              [id |-> id, width |-> 0, cols |-> NoRows]
         [] OTHER -> Absent

----------------------------------------------------------------------------
Init ==
  /\ tables_ = [n \in TableNames |-> Absent]
  /\ name_to_id_ = Blank.map
  /\ next_id_ = 1
  /\ catalog_dat = Blank
  /\ segment_seg = [i \in Ids |-> NoSegment]
  /\ proc = "down" /\ pc = "idle" /\ cur \in Names /\ reply = "none"
  /\ acked = [n \in TableNames |-> Untold]
  /\ cut = FALSE /\ unread = {}

Ready == proc = "up" /\ pc = "idle"
Live(n) == tables_[n].id # NoId
At(label) == proc = "up" /\ pc = label

\* The end of a statement, with the reply its client gets.
Answer(r) == pc' = "idle" /\ reply' = r
Begin(n, label) == cur' = n /\ pc' = label /\ reply' = "none"

----------------------------------------------------------------------------
(* CREATE TABLE *)

\* create_table up to save_catalog: the name is free, assign_id takes an id
CreateTable(n) ==
  /\ Ready
  /\ ~Live(n)
  /\ next_id_ <= MaxId
  /\ name_to_id_' = [name_to_id_ EXCEPT ![n] = next_id_]
  /\ next_id_' = NextId(next_id_)
  /\ Begin(n, "save_open")
  /\ UNCHANGED <<tables_, disk, proc, ghosts>>

\* create_table of a table that exists
CreateExisting(n) ==
  /\ Ready
  /\ Live(n)
  /\ cur' = n /\ Answer("err")
  /\ UNCHANGED <<memory, disk, proc, ghosts>>

\* What a process could not read, its next save_catalog may leave without a
\* way to it: the table that is being created under the same name, and every
\* one whose id is another in memory, as all are if catalog.dat itself could
\* not be opened.  That is the end of what clients were told of them.
Orphaned ==
  {n \in unread : cut \/ n = cur \/ name_to_id_[n] # catalog_dat.map[n]}

\* save_catalog opens catalog.dat, which empties it
SaveOpen ==
  /\ At("save_open")
  /\ catalog_dat' = Blank
  /\ cut' = TRUE
  /\ pc' = "save_close"
  /\ unread' = unread \ Orphaned
  /\ acked' = [n \in TableNames |-> IF n \in Orphaned THEN Untold ELSE acked[n]]
  /\ UNCHANGED <<memory, segment_seg, proc, cur, reply>>

\* it cannot open it: the exception leaves the name mapped, without a table
SaveOpenFails ==
  /\ At("save_open")
  /\ "open" \in Faults
  /\ Answer("err")
  /\ UNCHANGED <<memory, disk, proc, cur, ghosts>>

\* the Table that create_table makes and emplaces after assign_id
Emplaced(id) == [id |-> id, width |-> NumCols, cols |-> NoRows]

EmplaceCur ==
  /\ tables_' = [tables_ EXCEPT ![cur] = Emplaced(name_to_id_[cur])]
  /\ pc' = "flush_open"

\* save_catalog closes the file; create_table emplaces the new table
SaveClose ==
  /\ At("save_close")
  /\ catalog_dat' = SavedCatalog(name_to_id_, next_id_)
  /\ cut' = FALSE
  /\ EmplaceCur
  /\ UNCHANGED <<name_to_id_, next_id_, segment_seg, proc, cur, reply, acked,
                 unread>>

\* the same with bytes missing, which nothing notices
SaveCloseShort ==
  /\ At("save_close")
  /\ "write" \in Faults
  /\ catalog_dat' \in CutCatalogs(name_to_id_, next_id_)
  /\ EmplaceCur
  /\ UNCHANGED <<name_to_id_, next_id_, segment_seg, proc, cur, reply, ghosts>>

----------------------------------------------------------------------------
(* INSERT *)

\* insert_row of a row of the right width and types
InsertRow(n, v) ==
  /\ Ready
  /\ Live(n)
  /\ tables_[n].width = NumCols
  /\ num_rows(tables_[n].cols) < MaxRows
  /\ tables_' = [tables_ EXCEPT ![n].cols = Appended(@, v)]
  /\ Begin(n, "flush_open")
  /\ UNCHANGED <<name_to_id_, next_id_, disk, proc, ghosts>>

\* insert_row of a row whose value for column bad has another type
InsertMistyped(n, v, bad) ==
  /\ Ready
  /\ Live(n)
  /\ tables_[n].width = NumCols
  /\ num_rows(tables_[n].cols) < MaxRows
  /\ tables_' = [tables_ EXCEPT ![n].cols = AppendedBefore(@, v, bad)]
  /\ cur' = n /\ Answer("err")
  /\ UNCHANGED <<name_to_id_, next_id_, disk, proc, ghosts>>

\* insert_row into no table, or of a row of another width
InsertRefused(n) ==
  /\ Ready
  /\ ~Live(n) \/ tables_[n].width # NumCols
  /\ cur' = n /\ Answer("err")
  /\ UNCHANGED <<memory, disk, proc, ghosts>>

----------------------------------------------------------------------------
(* SegmentManager::flush, the tail of both statements *)

FlushOpen ==
  /\ At("flush_open")
  /\ segment_seg' = [segment_seg EXCEPT ![tables_[cur].id] = Truncated]
  /\ pc' = "flush_close"
  /\ UNCHANGED <<memory, catalog_dat, proc, cur, reply, ghosts>>

\* the exception reaches the client; the row or table stays in memory
FlushOpenFails ==
  /\ At("flush_open")
  /\ "open" \in Faults
  /\ Answer("err")
  /\ UNCHANGED <<memory, disk, proc, cur, ghosts>>

Acknowledge ==
  /\ acked' = [acked EXCEPT ![cur] = [known |-> TRUE,
                                      cols |-> tables_[cur].cols]]
  /\ Answer("ok")

FlushClose ==
  /\ At("flush_close")
  /\ segment_seg' = [segment_seg EXCEPT ![tables_[cur].id] =
                                             Written(tables_[cur].cols)]
  /\ Acknowledge
  /\ UNCHANGED <<memory, catalog_dat, proc, cur, cut, unread>>

FlushCloseShort ==
  /\ At("flush_close")
  /\ "write" \in Faults
  /\ \E s \in CutSegments :
        segment_seg' = [segment_seg EXCEPT ![tables_[cur].id] = s]
  /\ Acknowledge
  /\ UNCHANGED <<memory, catalog_dat, proc, cur, cut, unread>>

----------------------------------------------------------------------------
(* The process is killed and started *)

\* the memory of a process that is not running
MemoryGone ==
  /\ tables_' = [n \in TableNames |-> Absent]
  /\ name_to_id_' = Blank.map
  /\ next_id_' = Blank.next

\* A file that is open holds any prefix of what is being written to it.
Kill ==
  /\ proc = "up"
  /\ catalog_dat' \in IF pc = "save_close"
                      THEN CutCatalogs(name_to_id_, next_id_)
                      ELSE {catalog_dat}
  /\ \/ pc # "flush_close" /\ UNCHANGED segment_seg
     \/ /\ pc = "flush_close"
        /\ \E s \in CutSegments \cup {Written(tables_[cur].cols)} :
              segment_seg' = [segment_seg EXCEPT ![tables_[cur].id] = s]
  /\ proc' = "down" /\ pc' = "idle" /\ reply' = "none"
  /\ MemoryGone
  /\ unread' = {}
  /\ UNCHANGED <<cur, acked, cut>>

MappedSegments(state) ==
  {n \in Mapped(catalog_dat.map) :
     segment_seg[catalog_dat.map[n]].state = state}

\* where the streams of the segments may fail
Failures ==
  {f \in [TableNames -> Cols] :
     \A n \in Mapped(catalog_dat.map) :
        f[n] \in FailsAt(segment_seg[catalog_dat.map[n]].cols)}

\* Catalog(data_dir): load_catalog, then load_all, with the segments of missed
\* not opened.  From here on what was read of the files is what clients have
\* been told; of a table that could not be read they have been told what they
\* were before, unless catalog.dat is a cut one.
LoadAll ==
  /\ proc # "up"
  /\ \E catalog \in LoadedCatalogs :
     \E missed \in Unopened(catalog.map), f \in Failures :
       /\ MappedSegments("torn") \cap Mapped(catalog.map) \subseteq missed
       /\ name_to_id_' = catalog.map
       /\ next_id_' = catalog.next
       /\ tables_' = [n \in TableNames |->
            LoadedTable(catalog.map[n], segment_seg, n \notin missed, f[n])]
       /\ unread' = (Mapped(catalog_dat.map) \ Mapped(catalog.map)) \cup missed
       /\ acked' = [n \in TableNames |->
            IF n \in unread' THEN IF cut THEN Untold ELSE acked[n]
            ELSE IF tables_'[n].id = NoId THEN Untold
            ELSE [known |-> TRUE,
                  cols |-> ReadUpTo(segment_seg[catalog.map[n]].cols, f[n])]]
  /\ cut' = FALSE
  /\ proc' = "up"
  /\ UNCHANGED <<disk, pc, cur, reply>>

\* load_segment throws "bad magic" for a torn segment, and may run out of
\* memory on the string lengths it reads past the end of a short column; and
\* std::filesystem throws when the directory cannot be looked into
LoadAborts ==
  /\ proc # "up"
  /\ \/ MappedSegments("torn") # {}
     \/ \E n \in MappedSegments("whole") :
           Short(segment_seg[catalog_dat.map[n]].cols) # {}
     \/ "open" \in Faults
  /\ proc' = "aborted"
  /\ UNCHANGED <<memory, disk, pc, cur, reply, ghosts>>

----------------------------------------------------------------------------
Create(n) == CreateTable(n) \/ CreateExisting(n)
Save == SaveOpen \/ SaveOpenFails \/ SaveClose \/ SaveCloseShort
Insert(n) ==
  \/ \E v \in Values : InsertRow(n, v)
  \/ \E v \in Values, bad \in Cols : InsertMistyped(n, v, bad)
  \/ InsertRefused(n)
Flush == FlushOpen \/ FlushOpenFails \/ FlushClose \/ FlushCloseShort

Next ==
  \/ \E n \in Names : Create(n) \/ Insert(n)
  \/ Save
  \/ Flush
  \/ Kill
  \/ LoadAll
  \/ LoadAborts

Spec == Init /\ [][Next]_vars
----------------------------------------------------------------------------
(* Properties *)

TableType == [id : Ids \cup {NoId}, width : {0, NumCols}, cols : Columns]
MapType == [TableNames -> Ids \cup {NoId}]
SegmentType == [state : {"none", "torn", "stub"}, cols : {NoRows}]
               \cup [state : {"whole"}, cols : Columns]
AckedType == [known : BOOLEAN, cols : Columns]
Labels == {"idle", "save_open", "save_close", "flush_open", "flush_close"}

\* Every variable keeps its type; in particular ids start at 1 and a table
\* that is loaded has the columns its segment describes.
TypeOK ==
  /\ tables_ \in [TableNames -> TableType]
  /\ name_to_id_ \in MapType
  /\ next_id_ \in 1 .. MaxId + 1
  /\ catalog_dat \in [next : 1 .. MaxId + 1, map : MapType]
  /\ segment_seg \in [Ids -> SegmentType]
  /\ proc \in {"down", "up", "aborted"}
  /\ pc \in Labels
  /\ cur \in Names
  /\ reply \in {"none", "ok", "err"}
  /\ acked \in [TableNames -> AckedType]
  /\ cut \in BOOLEAN
  /\ unread \subseteq TableNames

\* No two names have one id, and the next id to be given out is above all of
\* them.
FreshIds(map, next) ==
  /\ \A m, n \in TableNames : map[m] = map[n] /\ map[m] # NoId => m = n
  /\ \A n \in TableNames : map[n] < next

\* Two tables never share the directory their segments are written to,
\* neither in the running process nor in the one that is started next, even
\* from a catalog.dat that a crash has cut short; and the id a table is
\* flushed under is the one its name is mapped to.
TableIdentity ==
  /\ FreshIds(name_to_id_, next_id_)
  /\ FreshIds(catalog_dat.map, catalog_dat.next)
  /\ \A n \in TableNames : Live(n) => tables_[n].id = name_to_id_[n]

\* Column 1, which num_rows counts, is never shorter than another column, in
\* memory or in a segment: a scan loses no row that was stored whole, and
\* read_column never leaves values of a column unread.
NumRowsIsLongest ==
  /\ \A n \in TableNames, c \in Cols :
        Len(tables_[n].cols[c]) <= num_rows(tables_[n].cols)
  /\ \A i \in Ids, c \in Cols :
        Len(segment_seg[i].cols[c]) <= num_rows(segment_seg[i].cols)

\* A table that clients were told of is in memory while the server is up, with
\* every row they were told of in its place, whatever statements have failed
\* since; unless the process could not open its files when it started.
AckedInMemory ==
  proc = "up" =>
    \A n \in TableNames \ unread :
      acked[n].known => Live(n) /\ Covers(tables_[n].cols, acked[n].cols)

\* Unless catalog.dat was cut short since the server loaded it, the files lead
\* from the name of every acknowledged table to a segment, and that segment,
\* if it is whole, holds every acknowledged row: in every state, so also in
\* whichever one a crash leaves.  That goes for the tables a process could
\* not read as well, whatever it does to others, up to the save of catalog.dat
\* that leaves them Orphaned.
AckedOnDisk ==
  ~cut =>
    \A n \in TableNames : acked[n].known =>
      LET id == catalog_dat.map[n] IN
      /\ id # NoId
      /\ segment_seg[id].state # "none"
      /\ segment_seg[id].state = "whole" =>
           Covers(segment_seg[id].cols, acked[n].cols)

\* OK is only sent when the table is on disk exactly as it is in memory, or as
\* far as a full disk took it; never for a segment of an earlier state.
OkMeansWritten ==
  Ready /\ reply = "ok" =>
    segment_seg[name_to_id_[cur]] \in
      {[state |-> "whole", cols |-> tables_[cur].cols]}
      \cup (IF "write" \in Faults THEN CutSegments ELSE {})

\* A start of the server that succeeds, from a catalog.dat that was not cut
\* short, brings back every acknowledged table that has a whole segment, with
\* its acknowledged values in their places, as far as the first column that a
\* mistyped INSERT has left shorter than column 1.  The only exceptions are
\* tables whose segment, or whose entry in catalog.dat, could not be opened:
\* such a start succeeds without them and without an error.  They are not
\* given up by it (AckedOnDisk), so that a later start that can open the files
\* brings them back, unless a CREATE has come in between.
Starts == proc # "up" /\ proc' = "up" /\ ~cut
InSegment(n) ==
  acked[n].known /\ segment_seg[catalog_dat.map[n]].state = "whole"
Returns(n) ==
  /\ Live(n)'
  /\ \A f \in Cols :
       (\A c \in Short(segment_seg[catalog_dat.map[n]].cols) : c >= f) =>
         Covers(tables_'[n].cols, ReadUpTo(acked[n].cols, f))
KeepsAcked ==
  Starts =>
    \A n \in TableNames : InSegment(n) =>
      \/ Returns(n)
      \/ "open" \in Faults /\ n \in unread' /\ acked'[n] = acked[n]
RestartKeepsAcked == [][KeepsAcked]_vars

----------------------------------------------------------------------------
(* What the documentation says *)

\* What a start of the server that can open every file would bring back of a
\* table: none of its rows if any mapped segment keeps the server from starting.
RecoverableRows(n) ==
  IF MappedSegments("torn") # {} THEN 0
  ELSE num_rows(LoadedTable(catalog_dat.map[n], segment_seg, TRUE, NumCols).cols)

\* docs/challenges/04-persistence.md:46, "a crash mid-flush loses at most one
\* row": after a crash, all but one of the acknowledged rows can be recovered.
CrashLosesAtMostOneRow ==
  proc = "down" =>
    \A n \in TableNames : acked[n].known =>
      RecoverableRows(n) + 1 >= num_rows(acked[n].cols)

\* docs/challenges/04-persistence.md:4, "Verify that data survives process
\* restart": what was acknowledged and is in a whole segment comes back.
RestartLosesNothing ==
  [][Starts =>
       \A n \in TableNames :
         InSegment(n) => Covers(tables_'[n].cols, acked[n].cols)]_vars
=============================================================================
