---------------------------- MODULE Connections ----------------------------
(***************************************************************************)
(* Several connections on one Catalog.  MysqlServer::run starts a detached *)
(* thread for every connection (server/mysql_server.hpp), all threads work *)
(* on the same Catalog, Table and SegmentManager objects, and there is no  *)
(* lock anywhere.  Here a statement is cut at every access it makes to an  *)
(* object or a file that another thread may use.                           *)
(*                                                                         *)
(* Two accesses to one C++ object at the same time, one of them a write,   *)
(* are undefined behaviour.  RaceFree says when they can meet; beyond that *)
(* point the steps here go on with the mildest outcome, in which every     *)
(* operation on a container is atomic, to show what goes wrong even then.  *)
(* Crashes, file errors and refused rows are the matter of Storage.        *)
(***************************************************************************)
EXTENDS Naturals, Sequences, FiniteSets

CONSTANTS
  Conns,      \* connections, each with its thread
  Names,      \* table names
  Rows,       \* rows, each inserted at most once
  Junk,       \* what is read past the end of a column
  NumCols,    \* columns of every table
  MaxId,      \* bound: ids that can be assigned
  MaxReads,   \* bound: SELECT and SHOW TABLES statements in a run
  Created,    \* the tables that exist, empty, when the server starts
  AloneToCreate,  \* clients run CREATE TABLE only while nothing else runs
  Home        \* the connections that clients use each table from

ASSUME ConnsAssumption == Conns # {} /\ Home \in [Names -> SUBSET Conns]
ASSUME NumColsAssumption == NumCols \in Nat \ {0}
ASSUME BoundsAssumption ==
  MaxId \in Nat /\ MaxReads \in Nat /\ Cardinality(Created) <= MaxId
ASSUME CreatedAssumption ==
  Created \subseteq Names /\ IsFiniteSet(Created) /\ AloneToCreate \in BOOLEAN

NoId == 0
Ids == 1 .. MaxId
Cols == 1 .. NumCols
NoRows == [c \in Cols |-> << >>]

VARIABLES
  tables_,      \* name -> [id, cols]; id is NoId for a name without a table
  name_to_id_,
  next_id_,
  catalog_dat,  \* catalog.dat: [open, map], what a start would read
  segment_seg,  \* id -> [state, num_rows, cols]
  th,           \* connection -> its thread: pc and locals
  reads,        \* SELECT and SHOW TABLES statements so far
  acked,        \* ghost: name -> rows whose INSERT was answered OK
  created       \* ghost: name -> CREATE statements that were answered OK

shared == <<tables_, name_to_id_, next_id_>>
files == <<catalog_dat, segment_seg>>
ghosts == <<acked, created>>
vars == <<shared, files, th, reads, ghosts>>

\* The locals of a thread: the statement's table and row, the id assign_id has
\* read, the column a loop stands at, and what flush or a scan has collected.
Idle == [pc |-> "idle", name |-> "none", row |-> Junk, id |-> NoId, col |-> 1,
         buf |-> NoRows, num_rows |-> 0, names |-> {}]

NoSegment == [state |-> "none", num_rows |-> 0, cols |-> NoRows]
Truncated == [state |-> "empty", num_rows |-> 0, cols |-> NoRows]
Whole(k, cols) == [state |-> "whole", num_rows |-> k, cols |-> cols]

\* some numbering of the tables that exist at the start
StartIds == CHOOSE f \in [Created -> 1 .. Cardinality(Created)] :
              \A m, n \in Created : f[m] = f[n] => m = n
StartMap == [n \in Names |-> IF n \in Created THEN StartIds[n] ELSE NoId]

Init ==
  /\ tables_ = [n \in Names |-> [id |-> StartMap[n], cols |-> NoRows]]
  /\ name_to_id_ = StartMap
  /\ next_id_ = Cardinality(Created) + 1
  /\ catalog_dat = [open |-> FALSE, map |-> StartMap]
  /\ segment_seg = [i \in Ids |-> IF i \in 1 .. Cardinality(Created)
                                  THEN Whole(0, NoRows) ELSE NoSegment]
  /\ th = [c \in Conns |-> Idle]
  /\ reads = 0
  /\ acked = [n \in Names |-> {}]
  /\ created = [n \in Names |-> IF n \in Created THEN 1 ELSE 0]

Live(n) == tables_[n].id # NoId
At(c, label) == th[c].pc = label
Table(c) == tables_[th[c].name]

\* the thread goes on to the label, with its locals, or is done
Goto(c, label) == th' = [th EXCEPT ![c].pc = label]
Finish(c) == th' = [th EXCEPT ![c] = Idle]

----------------------------------------------------------------------------
(* What clients do.  Nothing in the server sees to it. *)

Creating(c) ==
  th[c].pc \in {"check", "assign_read", "assign_write", "save_open",
                "save_close", "emplace", "create_open", "create_col",
                "create_footer", "create_close"}

MayUse(c, n) == c \in Home[n]
MayBegin(c) ==
  At(c, "idle") /\ (AloneToCreate => \A d \in Conns : ~Creating(d))
MayCreate(c) ==
  AloneToCreate => \A d \in Conns : At(d, "idle")

Began(c, label, n, v) ==
  th' = [th EXCEPT ![c] = [Idle EXCEPT !.pc = label, !.name = n, !.row = v]]

BeginCreate(c, n) ==
  /\ MayBegin(c) /\ MayCreate(c) /\ MayUse(c, n)
  /\ next_id_ + Cardinality({d \in Conns : Creating(d)}) <= MaxId
  /\ Began(c, "check", n, Junk)
  /\ UNCHANGED <<shared, files, reads, ghosts>>

Used == UNION {{tables_[n].cols[k][r] : r \in DOMAIN tables_[n].cols[k]} :
                 n \in Names, k \in Cols}
Pending == {th[c].row : c \in Conns}

BeginInsert(c, n, v) ==
  /\ MayBegin(c) /\ MayUse(c, n)
  /\ v \notin Used \cup Pending
  /\ Began(c, "find_insert", n, v)
  /\ UNCHANGED <<shared, files, reads, ghosts>>

BeginSelect(c, n) ==
  /\ MayBegin(c) /\ MayUse(c, n)
  /\ reads < MaxReads
  /\ reads' = reads + 1
  /\ Began(c, "find_select", n, Junk)
  /\ UNCHANGED <<shared, files, ghosts>>

\* of no table in particular
BeginShow(c) ==
  /\ MayBegin(c)
  /\ reads < MaxReads
  /\ reads' = reads + 1
  /\ th' = [th EXCEPT ![c] = [Idle EXCEPT !.pc = "show"]]
  /\ UNCHANGED <<shared, files, ghosts>>

----------------------------------------------------------------------------
(* CREATE TABLE: Catalog::create_table *)

CheckFree(c) ==
  /\ At(c, "check")
  /\ IF Live(th[c].name) THEN Finish(c) ELSE Goto(c, "assign_read")
  /\ UNCHANGED <<shared, files, reads, ghosts>>

\* assign_id: next_id_++ is a read and a write
AssignRead(c) ==
  /\ At(c, "assign_read")
  /\ th' = [th EXCEPT ![c].pc = "assign_write", ![c].id = next_id_]
  /\ UNCHANGED <<shared, files, reads, ghosts>>

\* Mutant of NextId: the id is not used up.
SameId(id) == id

NextId(id) == id + 1

AssignWrite(c) ==
  /\ At(c, "assign_write")
  /\ next_id_' = NextId(th[c].id)
  /\ name_to_id_' = [name_to_id_ EXCEPT ![th[c].name] = th[c].id]
  /\ Goto(c, "save_open")
  /\ UNCHANGED <<tables_, files, reads, ghosts>>

SaveOpen(c) ==
  /\ At(c, "save_open")
  /\ catalog_dat' = [open |-> TRUE, map |-> [n \in Names |-> NoId]]
  /\ Goto(c, "save_close")
  /\ UNCHANGED <<shared, segment_seg, reads, ghosts>>

\* A reader stops after the number of entries the last writer has put in
\* front, so what lies behind them in the file does not matter.
SaveClose(c) ==
  /\ At(c, "save_close")
  /\ catalog_dat' = [open |-> FALSE, map |-> name_to_id_]
  /\ Goto(c, "emplace")
  /\ UNCHANGED <<shared, segment_seg, reads, ghosts>>

\* emplace keeps the table that is there, if there is one by now
Emplace(c) ==
  /\ At(c, "emplace")
  /\ IF Live(th[c].name) THEN UNCHANGED tables_
     ELSE tables_' = [tables_ EXCEPT ![th[c].name] =
                        [id |-> th[c].id, cols |-> NoRows]]
  /\ Goto(c, "create_open")
  /\ UNCHANGED <<name_to_id_, next_id_, files, reads, ghosts>>

----------------------------------------------------------------------------
(* INSERT: Catalog::insert_row *)

\* Mutant of FindForInsert: a table that is not there is worked on all the same.
FindUnchecked(c) ==
  /\ At(c, "find_insert")
  /\ Goto(c, "append")
  /\ UNCHANGED <<shared, files, reads, ghosts>>

FindForInsert(c) ==
  /\ At(c, "find_insert")
  /\ IF Live(th[c].name) THEN Goto(c, "append") ELSE Finish(c)
  /\ UNCHANGED <<shared, files, reads, ghosts>>

\* append_row, one column at a time
AppendColumn(c) ==
  /\ At(c, "append")
  /\ tables_' = [tables_ EXCEPT ![th[c].name].cols[th[c].col] =
                                  Append(@, th[c].row)]
  /\ IF th[c].col < NumCols
     THEN th' = [th EXCEPT ![c].col = @ + 1]
     ELSE th' = [th EXCEPT ![c].col = 1, ![c].pc = "insert_open"]
  /\ UNCHANGED <<name_to_id_, next_id_, files, reads, ghosts>>

----------------------------------------------------------------------------
(* SegmentManager::flush, for CREATE and for INSERT *)

FlushOpen(c, open, col) ==
  /\ At(c, open)
  /\ segment_seg' = [segment_seg EXCEPT ![Table(c).id] = Truncated]
  /\ Goto(c, col)
  /\ UNCHANGED <<shared, catalog_dat, reads, ghosts>>

\* write_column for one column after the other; the bytes are buffered
FlushColumn(c, col, footer) ==
  /\ At(c, col)
  /\ LET k == th[c].col IN
     th' = [th EXCEPT ![c].buf[k] = Table(c).cols[k],
                      ![c].col = IF k < NumCols THEN k + 1 ELSE 1,
                      ![c].pc = IF k < NumCols THEN col ELSE footer]
  /\ UNCHANGED <<shared, files, reads, ghosts>>

\* the number of rows goes into the footer after the columns
FlushFooter(c, footer, close) ==
  /\ At(c, footer)
  /\ th' = [th EXCEPT ![c].num_rows = Len(Table(c).cols[1]), ![c].pc = close]
  /\ UNCHANGED <<shared, files, reads, ghosts>>

\* Mutant of Flushed: num_rows counts the rows before the one being inserted.
FlushedShort(k, cols, old) == Whole(IF k = 0 THEN 0 ELSE k - 1, cols)

\* What is in a segment that held old once a flush that saw k rows and these
\* columns is closed over it.  Fewer bytes than are there leave the tail of
\* the old segment, whose footer does not fit what is in front of it.
Size(cols) == Cardinality(UNION {{k} \X DOMAIN cols[k] : k \in Cols})
Flushed(k, cols, old) ==
  IF old.state = "mixed" \/ Size(old.cols) > Size(cols)
  THEN [state |-> "mixed", num_rows |-> 0, cols |-> NoRows]
  ELSE Whole(k, cols)

FlushClose(c, close) ==
  /\ At(c, close)
  /\ segment_seg' = [segment_seg EXCEPT ![Table(c).id] =
                       Flushed(th[c].num_rows, th[c].buf, @)]
  /\ Finish(c)
  /\ UNCHANGED <<shared, catalog_dat, reads>>

CreateFlush(c) ==
  \/ FlushOpen(c, "create_open", "create_col")
  \/ FlushColumn(c, "create_col", "create_footer")
  \/ FlushFooter(c, "create_footer", "create_close")
  \/ /\ FlushClose(c, "create_close")
     /\ created' = [created EXCEPT ![th[c].name] = @ + 1]
     /\ UNCHANGED acked

InsertFlush(c) ==
  \/ FlushOpen(c, "insert_open", "insert_col")
  \/ FlushColumn(c, "insert_col", "insert_footer")
  \/ FlushFooter(c, "insert_footer", "insert_close")
  \/ /\ FlushClose(c, "insert_close")
     /\ acked' = [acked EXCEPT ![th[c].name] = @ \cup {th[c].row}]
     /\ UNCHANGED created

----------------------------------------------------------------------------
(* SELECT: ScanOperator::next for a table of one batch *)

FindForSelect(c) ==
  /\ At(c, "find_select")
  /\ IF Live(th[c].name) THEN Goto(c, "num_rows") ELSE Finish(c)
  /\ UNCHANGED <<shared, files, reads, ghosts>>

\* Mutant of num_rows: the newest row is not counted.
num_rows_before(cols) == IF cols[1] = << >> THEN 0 ELSE Len(cols[1]) - 1

num_rows(cols) == Len(cols[1])

ScanRows(c) ==
  /\ At(c, "num_rows")
  /\ th' = [th EXCEPT ![c].pc = "scan", ![c].num_rows = num_rows(Table(c).cols)]
  /\ UNCHANGED <<shared, files, reads, ghosts>>

\* num_rows values of one column are copied, wherever the column ends
ScanColumn(c) ==
  /\ At(c, "scan")
  /\ LET k == th[c].col
         col == Table(c).cols[k]
     IN th' = [th EXCEPT
                 ![c].buf[k] = [r \in 1 .. th[c].num_rows |->
                                  IF r <= Len(col) THEN col[r] ELSE Junk],
                 ![c].col = IF k < NumCols THEN k + 1 ELSE 1,
                 ![c].pc = IF k < NumCols THEN "scan" ELSE "send"]
  /\ UNCHANGED <<shared, files, reads, ghosts>>

SendRows(c) ==
  /\ At(c, "send")
  /\ Finish(c)
  /\ UNCHANGED <<shared, files, reads, ghosts>>

----------------------------------------------------------------------------
(* SHOW TABLES: dispatch_query goes through the map of tables *)

ShowTables(c) ==
  /\ At(c, "show")
  /\ th' = [th EXCEPT ![c].pc = "send_names",
                     ![c].names = {n \in Names : Live(n)}]
  /\ UNCHANGED <<shared, files, reads, ghosts>>

SendNames(c) ==
  /\ At(c, "send_names")
  /\ Finish(c)
  /\ UNCHANGED <<shared, files, reads, ghosts>>

----------------------------------------------------------------------------
Begin(c) ==
  \/ \E n \in Names : \/ BeginCreate(c, n)
                      \/ \E v \in Rows : BeginInsert(c, n, v)
                      \/ BeginSelect(c, n)
  \/ BeginShow(c)

Step(c) ==
  \/ CheckFree(c) \/ AssignRead(c) \/ AssignWrite(c)
  \/ SaveOpen(c) \/ SaveClose(c) \/ Emplace(c) \/ CreateFlush(c)
  \/ FindForInsert(c) \/ AppendColumn(c) \/ InsertFlush(c)
  \/ FindForSelect(c) \/ ScanRows(c) \/ ScanColumn(c) \/ SendRows(c)
  \/ ShowTables(c) \/ SendNames(c)

Next == \E c \in Conns : Begin(c) \/ Step(c)

Spec == Init /\ [][Next]_vars

----------------------------------------------------------------------------
(* Properties *)

Labels ==
  {"idle", "check", "assign_read", "assign_write", "save_open", "save_close",
   "emplace", "create_open", "create_col", "create_footer", "create_close",
   "find_insert", "append", "insert_open", "insert_col", "insert_footer",
   "insert_close", "find_select", "num_rows", "scan", "send", "show",
   "send_names"}

\* The objects and files that the next step of a thread reads and writes.  A
\* file is in use from the step that opens it to the one that closes it.
InPc(c, labels) == th[c].pc \in labels
If(used, object) == IF used THEN {object} ELSE {}
FlushPcs == {"create_open", "create_col", "create_footer", "create_close",
             "insert_open", "insert_col", "insert_footer", "insert_close"}
Reads(c) ==
  If(InPc(c, {"check", "find_insert", "find_select", "show"}), <<"tables_">>)
  \cup If(InPc(c, {"assign_read", "save_close"}), <<"ids">>)
  \cup If(InPc(c, FlushPcs \cup {"num_rows", "scan"}), <<"data", th[c].name>>)
Writes(c) ==
  If(InPc(c, {"emplace"}), <<"tables_">>)
  \cup If(InPc(c, {"assign_write"}), <<"ids">>)
  \cup If(InPc(c, {"save_open", "save_close"}), <<"catalog_dat">>)
  \cup If(InPc(c, {"append"}), <<"data", th[c].name>>)
  \cup If(InPc(c, FlushPcs), <<"segment", Table(c).id>>)

\* No two threads are about to use one object or file at the same time with
\* one of them writing: the server needs no lock as long as clients keep their
\* tables apart and create tables while nothing else runs.
RaceFree ==
  \A c, d \in Conns : c # d => Writes(c) \cap (Reads(d) \cup Writes(d)) = {}

Quiet == \A c \in Conns : At(c, "idle")
SameRows(cols, k) ==
  \A i, j \in Cols : Len(cols[i]) = k /\ cols[i] = cols[j]

\* Locals and tables are well typed; a thread that works on a table works on
\* one that exists, which its connection was meant to use.
TypeOK ==
  /\ next_id_ \in 1 .. MaxId + 1
  /\ \A n \in Names : /\ tables_[n].id \in Ids \cup {NoId}
                      /\ name_to_id_[n] \in Ids \cup {NoId}
                      /\ catalog_dat.map[n] \in Ids \cup {NoId}
                      /\ \A k \in Cols : tables_[n].cols[k] \in Seq(Rows)
  /\ \A i \in Ids : segment_seg[i].state \in {"none", "empty", "mixed", "whole"}
  /\ \A c \in Conns :
       /\ th[c].pc \in Labels
       /\ th[c].pc \notin {"idle", "show", "send_names"} => c \in Home[th[c].name]
       /\ <<"segment", NoId>> \notin Writes(c)

\* Once no statement is running, a clean restart would find exactly what is in
\* memory: every table that was created is mapped to its own segment, which
\* holds its rows, in every column the same.
QuietIsDurable ==
  Quiet => \A n \in Names : created[n] > 0 =>
    LET seg == segment_seg[catalog_dat.map[n]] IN
    /\ catalog_dat.map[n] = tables_[n].id
    /\ seg.state = "whole"
    /\ seg.cols = tables_[n].cols
    /\ SameRows(seg.cols, seg.num_rows)

\* A SELECT returns whole rows, among them every row whose INSERT was answered
\* before, and SHOW TABLES every table whose CREATE was.
ReadsAcked ==
  \A c \in Conns :
    /\ At(c, "send") =>
         /\ SameRows(th[c].buf, th[c].num_rows)
         /\ acked[th[c].name] \subseteq
              {th[c].buf[1][r] : r \in 1 .. th[c].num_rows}
    /\ At(c, "send_names") =>
         {n \in Names : created[n] > 0} \subseteq th[c].names

----------------------------------------------------------------------------
(* What the documentation says *)

\* docs/challenges/04-persistence.md:33, "No partial/corrupt rows": once no
\* statement is running, the columns of a segment hold the same rows.
StoredRowsAreWhole ==
  Quiet => \A i \in Ids : segment_seg[i].state = "whole" =>
             SameRows(segment_seg[i].cols, segment_seg[i].num_rows)
=============================================================================
