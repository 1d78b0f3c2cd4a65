--------------------------- MODULE StorageProofs ---------------------------
(***************************************************************************)
(* The safety properties of Storage, proved for all sets of names and      *)
(* rows, all numbers of columns and all bounds.  No property but TypeOK is *)
(* inductive: what an acknowledged table needs from the files depends on   *)
(* what the running process has mapped, and on the statement that is half  *)
(* done.  IInv adds those two.                                             *)
(***************************************************************************)
EXTENDS Storage, TLAPS

\* While the server is up, the mapping in memory, which the next save_catalog
\* makes the mapping on disk, leads to what has been acknowledged.  Of the
\* tables that could not be read this is only so once save_catalog has given
\* up those it does not lead to.  Unless catalog.dat is cut short it maps
\* every table in memory to the same id.
AckedMapped ==
  proc = "up" =>
    \A n \in TableNames :
      /\ acked[n].known /\ (n \notin unread \/ pc = "save_close") =>
           /\ name_to_id_[n] # NoId
           /\ segment_seg[name_to_id_[n]].state # "none"
           /\ segment_seg[name_to_id_[n]].state = "whole" =>
                Covers(segment_seg[name_to_id_[n]].cols, acked[n].cols)
      /\ Live(n) => n \notin unread
      /\ Live(n) /\ ~cut => catalog_dat.map[n] = name_to_id_[n]

\* What holds of the table of the running statement.
InProgress ==
  /\ proc # "up" => pc = "idle"
  /\ pc \in {"save_open", "save_close"} =>
       ~Live(cur) /\ name_to_id_[cur] # NoId
  /\ pc = "save_close" => cut /\ cur \notin unread
  /\ pc \in {"flush_open", "flush_close"} => Live(cur)

IInv ==
  /\ TypeOK
  /\ TableIdentity
  /\ NumRowsIsLongest
  /\ AckedInMemory
  /\ AckedOnDisk
  /\ AckedMapped
  /\ InProgress

----------------------------------------------------------------------------
(* Lemmas about columns *)

\* Column 1 exists, and an empty table is a well-typed one.
LEMMA ColumnFacts == 1 \in Cols /\ NoRows \in Columns
<1>1. 1 \in Cols  BY NumColsAssumption DEF Cols
<1>2. << >> \in Seq(Cell)  OBVIOUS
<1> QED  BY <1>1, <1>2 DEF NoRows, Columns

\* The columns that the two forms of append_row leave are well typed.
LEMMA AppendType ==
  ASSUME NEW cols \in Columns, NEW v \in Values, NEW bad \in Cols
  PROVE  /\ Appended(cols, v) \in Columns
         /\ AppendedBefore(cols, v, bad) \in Columns
<1>1. v \in Cell  BY DEF Cell
<1>2. \A c \in Cols : cols[c] \in Seq(Cell) /\ Append(cols[c], v) \in Seq(Cell)
  BY <1>1 DEF Columns
<1> QED  BY <1>2 DEF Appended, AppendedBefore, Columns

\* append_row, well typed or not, keeps the rows that were there and keeps
\* column 1 the longest.
LEMMA AppendGrows ==
  ASSUME NEW cols \in Columns, NEW v \in Values, NEW bad \in Cols,
         \A c \in Cols : Len(cols[c]) <= num_rows(cols)
  PROVE  /\ Covers(Appended(cols, v), cols)
         /\ Covers(AppendedBefore(cols, v, bad), cols)
         /\ \A c \in Cols :
              Len(Appended(cols, v)[c]) <= num_rows(Appended(cols, v))
         /\ \A c \in Cols :
              Len(AppendedBefore(cols, v, bad)[c])
                <= num_rows(AppendedBefore(cols, v, bad))
<1>1. v \in Cell  BY DEF Cell
<1>2. \A c \in Cols : /\ cols[c] \in Seq(Cell)
                      /\ Len(cols[c]) \in Nat
                      /\ Append(cols[c], v) \in Seq(Cell)
                      /\ Len(Append(cols[c], v)) = Len(cols[c]) + 1
                      /\ \A r \in 1 .. Len(cols[c]) :
                           Append(cols[c], v)[r] = cols[c][r]
  BY <1>1 DEF Columns
<1>3. Covers(Appended(cols, v), cols)
  BY <1>2 DEF Covers, Appended
<1>4. Covers(AppendedBefore(cols, v, bad), cols)
  BY <1>2 DEF Covers, AppendedBefore
<1>5. 1 \in Cols  BY ColumnFacts
<1>6. \A c \in Cols :
        Len(Appended(cols, v)[c]) <= num_rows(Appended(cols, v))
  BY <1>2, <1>5 DEF Appended, num_rows
<1>7. ASSUME NEW c \in Cols
      PROVE  Len(AppendedBefore(cols, v, bad)[c])
               <= num_rows(AppendedBefore(cols, v, bad))
  <2>1. c < bad => 1 < bad  BY NumColsAssumption DEF Cols
  <2> QED  BY <1>2, <1>5, <2>1, NumColsAssumption
           DEF AppendedBefore, num_rows, Cols
<1> QED  BY <1>3, <1>4, <1>6, <1>7

\* Covering is reflexive and transitive.
LEMMA CoversOrder ==
  ASSUME NEW x \in Columns, NEW y \in Columns, NEW z \in Columns
  PROVE  /\ Covers(x, x)
         /\ Covers(x, y) /\ Covers(y, z) => Covers(x, z)
<1>1. \A c \in Cols : Len(x[c]) \in Nat /\ Len(y[c]) \in Nat /\ Len(z[c]) \in Nat
  BY DEF Columns
<1>2. Covers(x, x)  BY <1>1 DEF Covers
<1>3. ASSUME Covers(x, y), Covers(y, z)  PROVE Covers(x, z)
  <2> SUFFICES ASSUME NEW c \in Cols
               PROVE  /\ Len(z[c]) <= Len(x[c])
                      /\ \A r \in 1 .. Len(z[c]) : x[c][r] = z[c][r]
    BY DEF Covers
  <2>1. /\ Len(y[c]) <= Len(x[c])
        /\ \A r \in 1 .. Len(y[c]) : x[c][r] = y[c][r]
    BY <1>3 DEF Covers
  <2>2. /\ Len(z[c]) <= Len(y[c])
        /\ \A r \in 1 .. Len(z[c]) : y[c][r] = z[c][r]
    BY <1>3 DEF Covers
  <2> QED  BY <1>1, <2>1, <2>2
<1> QED  BY <1>2, <1>3

\* What read_column makes of a segment whose column 1 is the longest: columns
\* of one length that hold every cell of the segment.
LEMMA PaddedCovers ==
  ASSUME NEW cols \in Columns,
         \A c \in Cols : Len(cols[c]) <= num_rows(cols)
  PROVE  /\ Padded(cols) \in Columns
         /\ Covers(Padded(cols), cols)
         /\ \A c \in Cols : Len(Padded(cols)[c]) = num_rows(Padded(cols))
<1> DEFINE k == num_rows(cols)
<1>1. \A c \in Cols : cols[c] \in Seq(Cell) /\ Len(cols[c]) \in Nat
  BY DEF Columns
<1>2. k \in Nat  BY <1>1, ColumnFacts DEF num_rows
<1>3. ASSUME NEW c \in Cols
      PROVE  /\ Padded(cols)[c] \in Seq(Cell)
             /\ Len(Padded(cols)[c]) = k
             /\ \A r \in 1 .. Len(cols[c]) : Padded(cols)[c][r] = cols[c][r]
  <2> DEFINE s == [r \in 1 .. k |->
                     IF r <= Len(cols[c]) THEN cols[c][r] ELSE Garbage]
  <2>1. Padded(cols)[c] = s  BY DEF Padded
  <2>2. \A r \in 1 .. k : s[r] \in Cell
    BY <1>1, <1>2 DEF Cell
  <2>3. s \in Seq(Cell) /\ Len(s) = k  BY <1>2, <2>2
  <2>4. \A r \in 1 .. Len(cols[c]) : s[r] = cols[c][r]
    BY <1>1, <1>2
  <2> QED  BY <2>1, <2>3, <2>4
<1>4. Padded(cols) \in Columns
  <2>1. Padded(cols) = [c \in Cols |-> Padded(cols)[c]]  BY DEF Padded
  <2> QED  BY <2>1, <1>3 DEF Columns
<1>5. Covers(Padded(cols), cols)  BY <1>3 DEF Covers
<1>6. \A c \in Cols : Len(Padded(cols)[c]) = num_rows(Padded(cols))
  BY <1>3, ColumnFacts DEF num_rows
<1> QED  BY <1>4, <1>5, <1>6

\* What is read of a segment's columns is a part of them, with column 1 whole.
LEMMA ReadUpToFacts ==
  ASSUME NEW cols \in Columns, NEW f \in Cols,
         \A c \in Cols : Len(cols[c]) <= num_rows(cols)
  PROVE  /\ ReadUpTo(cols, f) \in Columns
         /\ \A c \in Cols : Len(ReadUpTo(cols, f)[c])
                              <= num_rows(ReadUpTo(cols, f))
         /\ Covers(cols, ReadUpTo(cols, f))
<1>1. \A c \in Cols : cols[c] \in Seq(Cell) /\ Len(cols[c]) \in Nat
  BY DEF Columns
<1>2. \A c \in Cols : ReadUpTo(cols, f)[c] = IF c <= f THEN cols[c] ELSE << >>
  BY DEF ReadUpTo
<1>3. 1 \in Cols /\ 1 <= f  BY ColumnFacts, NumColsAssumption DEF Cols
<1>4. num_rows(ReadUpTo(cols, f)) = num_rows(cols)
  BY <1>2, <1>3 DEF num_rows
<1>5. ReadUpTo(cols, f) \in Columns
  <2>1. \A c \in Cols : (IF c <= f THEN cols[c] ELSE << >>) \in Seq(Cell)
    BY <1>1
  <2> QED  BY <2>1 DEF ReadUpTo, Columns
<1>6. \A c \in Cols : Len(ReadUpTo(cols, f)[c]) <= num_rows(cols)
  BY <1>1, <1>2, <1>3 DEF num_rows
<1>7. Covers(cols, ReadUpTo(cols, f))
  BY <1>1, <1>2 DEF Covers
<1> QED  BY <1>4, <1>5, <1>6, <1>7

\* A column with no short one before it is read, wherever the stream fails.
LEMMA ReadBeforeFailure ==
  ASSUME NEW cols \in Columns, NEW f \in FailsAt(cols), NEW g \in Cols,
         \A c \in Short(cols) : c >= g
  PROVE  f \in Cols /\ f >= g
<1>1. f = NumCols \/ f \in Short(cols)  BY DEF FailsAt
<1>2. g <= NumCols /\ NumCols \in Cols  BY NumColsAssumption DEF Cols
<1> QED  BY <1>1, <1>2 DEF Short

\* What is read as far as a later column covers what is read as far as an
\* earlier one.
LEMMA ReadUpToOrder ==
  ASSUME NEW big \in Columns, NEW small \in Columns, Covers(big, small),
         NEW f \in Cols, NEW g \in Cols, g <= f
  PROVE  Covers(ReadUpTo(big, f), ReadUpTo(small, g))
<1> SUFFICES ASSUME NEW c \in Cols
             PROVE  /\ Len(ReadUpTo(small, g)[c]) <= Len(ReadUpTo(big, f)[c])
                    /\ \A r \in 1 .. Len(ReadUpTo(small, g)[c]) :
                         ReadUpTo(big, f)[c][r] = ReadUpTo(small, g)[c][r]
  BY DEF Covers
<1>1. Len(big[c]) \in Nat /\ Len(small[c]) \in Nat  BY DEF Columns
<1>2. c \in Nat /\ f \in Nat /\ g \in Nat  BY DEF Cols
<1>3. CASE c <= g
  <2>1. ReadUpTo(big, f)[c] = big[c] /\ ReadUpTo(small, g)[c] = small[c]
    BY <1>2, <1>3 DEF ReadUpTo
  <2> QED  BY <2>1 DEF Covers
<1>4. CASE ~(c <= g)
  <2>1. ReadUpTo(small, g)[c] = << >>  BY <1>4 DEF ReadUpTo
  <2>2. Len(ReadUpTo(big, f)[c]) \in Nat
    BY <1>1 DEF ReadUpTo
  <2> QED  BY <2>1, <2>2
<1> QED  BY <1>3, <1>4

----------------------------------------------------------------------------
(* Lemmas about the files *)

\* Nothing on disk and nothing in memory is well typed and has fresh ids.
LEMMA BlankFacts ==
  /\ Blank \in [next : 1 .. MaxId + 1, map : MapType]
  /\ FreshIds(Blank.map, Blank.next)
  /\ Absent \in TableType /\ Absent.id = NoId
  /\ NoSegment \in SegmentType
  /\ \A s \in CutSegments : s \in SegmentType /\ s.cols = NoRows
                            /\ s.state \in {"torn", "stub"}
  /\ \A c \in Cols : Len(NoRows[c]) <= num_rows(NoRows)
<1>1. [n \in TableNames |-> NoId] \in MapType  BY DEF MapType
<1>2. Blank \in [next : 1 .. MaxId + 1, map : MapType]
  BY <1>1, BoundsAssumption DEF Blank
<1>3. FreshIds(Blank.map, Blank.next)  BY DEF Blank, FreshIds, NoId
<1>4. Absent \in TableType /\ Absent.id = NoId
  BY ColumnFacts DEF Absent, TableType
<1>5. NoSegment \in SegmentType  BY DEF NoSegment, SegmentType
<1>6. \A s \in CutSegments : s \in SegmentType /\ s.cols = NoRows
                             /\ s.state \in {"torn", "stub"}
  BY ColumnFacts DEF CutSegments, Truncated, SegmentType
<1>7. \A c \in Cols : Len(NoRows[c]) <= num_rows(NoRows)
  BY ColumnFacts DEF NoRows, num_rows
<1> QED  BY <1>2, <1>3, <1>4, <1>5, <1>6, <1>7

\* A table loaded from the files has the type of a table and the id of its
\* segment, is live exactly when the segment has at least its leading MAGIC,
\* and holds what the segment holds.
LEMMA LoadedTableFacts ==
  ASSUME NEW id \in Ids \cup {NoId}, NEW segs \in [Ids -> SegmentType],
         NEW opens \in BOOLEAN, NEW f \in Cols,
         \A i \in Ids, c \in Cols :
            Len(segs[i].cols[c]) <= num_rows(segs[i].cols)
  PROVE  /\ LoadedTable(id, segs, opens, f) \in TableType
         /\ LoadedTable(id, segs, opens, f).id \in {NoId, id}
         /\ \A c \in Cols : Len(LoadedTable(id, segs, opens, f).cols[c])
                              = num_rows(LoadedTable(id, segs, opens, f).cols)
         /\ LoadedTable(id, segs, opens, f).id # NoId =>
              /\ segs[id].state \in {"stub", "whole"}
              /\ segs[id].state = "whole" =>
                   Covers(LoadedTable(id, segs, opens, f).cols,
                          ReadUpTo(segs[id].cols, f))
         /\ opens /\ id # NoId /\ segs[id].state = "whole" =>
              LoadedTable(id, segs, opens, f).id = id
<1>1. NoRows \in Columns /\ \A c \in Cols : Len(NoRows[c]) = num_rows(NoRows)
  BY ColumnFacts DEF NoRows, num_rows
<1>2. NoId \notin Ids  BY BoundsAssumption DEF NoId, Ids
<1>3. Absent \in TableType  BY <1>1 DEF Absent, TableType
<1>4. CASE id = NoId \/ ~opens
  BY <1>1, <1>3, <1>4 DEF LoadedTable, Absent
<1>5. CASE id # NoId /\ opens
  <2> DEFINE read == ReadUpTo(segs[id].cols, f)
  <2>1. id \in Ids /\ segs[id].cols \in Columns
    BY <1>1, <1>5 DEF SegmentType
  <2>2. CASE segs[id].state = "whole"
    <3>0. read \in Columns /\ \A c \in Cols : Len(read[c]) <= num_rows(read)
      BY <2>1, ReadUpToFacts
    <3>1. /\ Padded(read) \in Columns
          /\ Covers(Padded(read), read)
          /\ \A c \in Cols : Len(Padded(read)[c]) = num_rows(Padded(read))
      BY <3>0, PaddedCovers
    <3>2. LoadedTable(id, segs, opens, f)
            = [id |-> id, width |-> NumCols, cols |-> Padded(read)]
      BY <1>5, <2>2 DEF LoadedTable
    <3> QED  BY <2>1, <2>2, <3>1, <3>2 DEF TableType
  <2>3. CASE segs[id].state = "stub"
    <3>1. LoadedTable(id, segs, opens, f) = [id |-> id, width |-> 0, cols |-> NoRows]
      BY <1>5, <2>3 DEF LoadedTable
    <3> QED  BY <1>1, <2>1, <2>3, <3>1 DEF TableType
  <2>4. CASE segs[id].state \notin {"whole", "stub"}
    <3>1. LoadedTable(id, segs, opens, f) = Absent  BY <1>5, <2>4 DEF LoadedTable
    <3> QED  BY <1>1, <1>3, <2>4, <3>1 DEF Absent
  <2> QED  BY <2>2, <2>3, <2>4
<1> QED  BY <1>4, <1>5

\* However catalog.dat is cut short, the ids it yields are still distinct and
\* below the next one.
LEMMA CutCatalogFacts ==
  ASSUME NEW map \in MapType, NEW next \in 1 .. MaxId + 1,
         FreshIds(map, next), NEW d \in CutCatalogs(map, next)
  PROVE  /\ d \in [next : 1 .. MaxId + 1, map : MapType]
         /\ FreshIds(d.map, d.next)
<1>1. CASE d = Blank
  BY <1>1, BoundsAssumption DEF Blank, MapType, FreshIds, NoId
<1>2. ASSUME NEW S \in SUBSET Mapped(map),
             d = [next |-> next, map |-> Kept(map, S)]
      PROVE  /\ d \in [next : 1 .. MaxId + 1, map : MapType]
             /\ FreshIds(d.map, d.next)
  <2>1. Kept(map, S) \in MapType  BY DEF Kept, MapType
  <2>2. FreshIds(Kept(map, S), next)
    BY BoundsAssumption DEF Kept, FreshIds, MapType, NoId, Ids
  <2> QED  BY <1>2, <2>1, <2>2
<1>3. ASSUME NEW S \in SUBSET Mapped(map), NEW s \in Scraps \ S,
             NEW l \in Mapped(map) \ S,
             d = [next |-> next, map |-> [Kept(map, S) EXCEPT ![s] = map[l]]]
      PROVE  /\ d \in [next : 1 .. MaxId + 1, map : MapType]
             /\ FreshIds(d.map, d.next)
  <2> DEFINE m == [Kept(map, S) EXCEPT ![s] = map[l]]
  <2>1. l \in TableNames /\ s \in TableNames  BY DEF Mapped, TableNames
  <2>2. \A n \in TableNames : m[n] = IF n = s THEN map[l]
                                     ELSE IF n \in S THEN map[n] ELSE NoId
    BY <2>1 DEF Kept
  <2>3. m \in MapType  BY <2>1 DEF Kept, MapType
  <2>4. \A n \in TableNames : m[n] < next
    BY <2>1, <2>2, BoundsAssumption DEF FreshIds, MapType, NoId, Ids
  <2>5. ASSUME NEW x \in TableNames, NEW y \in TableNames,
               m[x] = m[y], m[x] # NoId
        PROVE  x = y
    BY <2>1, <2>2, <2>5 DEF FreshIds
  <2>6. FreshIds(m, next)  BY <2>4, <2>5 DEF FreshIds
  <2> QED  BY <1>3, <2>3, <2>6
<1> QED  BY <1>1, <1>2, <1>3 DEF CutCatalogs

----------------------------------------------------------------------------
(* The invariant *)

\* Before the first start nothing is acknowledged, mapped or on disk.
LEMMA InitInvariant == Init => IInv
<1> SUFFICES ASSUME Init PROVE IInv  OBVIOUS
<1>1. TypeOK
  <2>1. tables_ \in [TableNames -> TableType]  BY BlankFacts DEF Init
  <2>2. catalog_dat \in [next : 1 .. MaxId + 1, map : MapType]
    BY BlankFacts DEF Init
  <2>3. name_to_id_ \in MapType /\ next_id_ \in 1 .. MaxId + 1
    BY BlankFacts, BoundsAssumption DEF Init
  <2>4. segment_seg \in [Ids -> SegmentType]  BY BlankFacts DEF Init
  <2>5. acked \in [TableNames -> AckedType]
    BY ColumnFacts DEF Init, AckedType, Untold
  <2> QED  BY <2>1, <2>2, <2>3, <2>4, <2>5 DEF Init, TypeOK, Labels
<1>2. TableIdentity
  <2>1. next_id_ = Blank.next  BY DEF Init, Blank
  <2> QED  BY <2>1, BlankFacts DEF Init, TableIdentity, Live
<1>3. NumRowsIsLongest
  BY BlankFacts DEF Init, NumRowsIsLongest, Absent, NoSegment
<1> QED  BY <1>1, <1>2, <1>3
         DEF Init, IInv, Untold, AckedInMemory, AckedOnDisk, AckedMapped, InProgress

\* A statement that is refused changes nothing but its reply.
LEMMA RefusedStep ==
  ASSUME IInv, NEW n \in Names, CreateExisting(n) \/ InsertRefused(n)
  PROVE  IInv'
<1> USE DEF IInv, CreateExisting, InsertRefused, Answer, Ready, memory, disk,
            ghosts
<1>1. TypeOK'  BY DEF TypeOK, Labels
<1>2. TableIdentity'  BY DEF TableIdentity, FreshIds, Live
<1>3. NumRowsIsLongest'  BY DEF NumRowsIsLongest
<1>4. AckedInMemory' /\ AckedOnDisk' /\ AckedMapped' /\ InProgress'
  BY DEF AckedInMemory, AckedOnDisk, AckedMapped, InProgress, Live
<1> QED  BY <1>1, <1>2, <1>3, <1>4

\* assign_id gives a name that is not live an id that no name has.
LEMMA CreateTableStep ==
  ASSUME IInv, NEW n \in Names, CreateTable(n)
  PROVE  IInv'
<1> USE DEF IInv, CreateTable, Begin, Ready, NextId, memory, disk, ghosts
<1>0. /\ next_id_ \in Ids /\ next_id_ # NoId
      /\ name_to_id_ \in [TableNames -> Ids \cup {NoId}]
      /\ n \in TableNames
  BY BoundsAssumption DEF TypeOK, Ids, NoId, MapType, TableNames
<1>1. TypeOK'
  BY <1>0, BoundsAssumption DEF TypeOK, MapType, Labels, Ids
<1>2. TableIdentity'
  <2>1. FreshIds(name_to_id_, next_id_)'
    BY <1>0, BoundsAssumption DEF TableIdentity, FreshIds, Ids, NoId
  <2> QED  BY <1>0, <2>1 DEF TableIdentity, FreshIds, Live
<1>3. NumRowsIsLongest'  BY DEF NumRowsIsLongest
<1>4. AckedInMemory' /\ AckedOnDisk'
  BY DEF AckedInMemory, AckedOnDisk, Live
<1>5. AckedMapped'
  <2>1. \A x \in TableNames : Live(x) => name_to_id_'[x] = name_to_id_[x]
    BY <1>0
  <2>2. \A x \in TableNames \ unread : acked[x].known => Live(x)
    BY DEF AckedInMemory
  <2> QED  BY <2>1, <2>2 DEF AckedMapped, Live
<1>6. InProgress'  BY <1>0 DEF InProgress, Live
<1> QED  BY <1>1, <1>2, <1>3, <1>4, <1>5, <1>6

\* Opening catalog.dat empties it, which voids what it says, until it is
\* closed.  Of the tables that could not be read those stay acknowledged that
\* the mapping in memory leads to as catalog.dat did.
LEMMA SaveOpenStep ==
  ASSUME IInv, SaveOpen
  PROVE  IInv'
<1> USE DEF IInv
<1>0. /\ proc = "up" /\ pc = "save_open" /\ pc' = "save_close"
      /\ proc' = proc /\ cur' = cur /\ reply' = reply
      /\ tables_' = tables_ /\ name_to_id_' = name_to_id_
      /\ next_id_' = next_id_ /\ segment_seg' = segment_seg
      /\ catalog_dat' = Blank /\ cut' = TRUE
      /\ unread' = unread \ Orphaned
      /\ acked' = [n \in TableNames |-> IF n \in Orphaned THEN Untold
                                         ELSE acked[n]]
  BY DEF SaveOpen, At, memory
<1>1. /\ cur \in TableNames /\ unread \subseteq TableNames
      /\ acked \in [TableNames -> AckedType] /\ Untold \in AckedType
  BY ColumnFacts DEF TypeOK, TableNames, Untold, AckedType
<1>2. \A n \in TableNames : acked'[n].known =>
        acked'[n] = acked[n] /\ n \notin Orphaned
  BY <1>0 DEF Untold
<1>3. TypeOK'
  <2>1. acked' \in [TableNames -> AckedType]  BY <1>0, <1>1
  <2> QED  BY <1>0, <1>1, <2>1, BlankFacts DEF TypeOK, Labels
<1>4. TableIdentity'
  BY <1>0, BlankFacts DEF TableIdentity, FreshIds, Live
<1>5. NumRowsIsLongest'  BY <1>0 DEF NumRowsIsLongest
<1>6. AckedInMemory'
  <2>1. \A n \in TableNames \ unread' : acked'[n].known => n \notin unread
    BY <1>0, <1>2
  <2> QED  BY <1>0, <1>2, <2>1 DEF AckedInMemory, Live
<1>7. AckedOnDisk'  BY <1>0 DEF AckedOnDisk
<1>8. AckedMapped'
  <2>1. ASSUME NEW n \in TableNames, acked'[n].known
        PROVE  /\ name_to_id_[n] # NoId
               /\ segment_seg[name_to_id_[n]].state # "none"
               /\ segment_seg[name_to_id_[n]].state = "whole" =>
                    Covers(segment_seg[name_to_id_[n]].cols, acked'[n].cols)
    <3>1. acked'[n] = acked[n] /\ n \notin Orphaned /\ acked[n].known
      BY <1>2, <2>1
    <3>2. CASE n \notin unread
      BY <1>0, <3>1, <3>2 DEF AckedMapped
    <3>3. CASE n \in unread
      <4>1. ~cut /\ name_to_id_[n] = catalog_dat.map[n]
        BY <3>1, <3>3 DEF Orphaned
      <4> QED  BY <3>1, <4>1 DEF AckedOnDisk
    <3> QED  BY <3>2, <3>3
  <2>2. \A n \in TableNames : Live(n) => n \notin unread'
    BY <1>0 DEF AckedMapped
  <2> QED  BY <1>0, <2>1, <2>2 DEF AckedMapped, Live
<1>9. InProgress'
  <2>1. cur \notin unread'  BY <1>0 DEF Orphaned
  <2> QED  BY <1>0, <2>1 DEF InProgress, Live
<1> QED  BY <1>3, <1>4, <1>5, <1>6, <1>7, <1>8, <1>9

\* A file that cannot be opened changes nothing.
LEMMA OpenFailsStep ==
  ASSUME IInv, SaveOpenFails \/ FlushOpenFails
  PROVE  IInv'
<1> USE DEF IInv, SaveOpenFails, FlushOpenFails, Answer, At,
            memory, disk, ghosts
<1>1. TypeOK'  BY DEF TypeOK, Labels
<1>2. TableIdentity'  BY DEF TableIdentity, FreshIds, Live
<1>3. NumRowsIsLongest'  BY DEF NumRowsIsLongest
<1>4. AckedInMemory' /\ AckedOnDisk' /\ AckedMapped' /\ InProgress'
  BY DEF AckedInMemory, AckedOnDisk, AckedMapped, InProgress, Live
<1> QED  BY <1>1, <1>2, <1>3, <1>4

\* Closing catalog.dat, whole or cut short, and emplacing the new table.
LEMMA SaveCloseStep ==
  ASSUME IInv, SaveClose \/ SaveCloseShort
  PROVE  IInv'
<1> USE DEF IInv
<1>0. /\ pc = "save_close" /\ proc = "up" /\ proc' = proc
      /\ pc' = "flush_open" /\ cur' = cur /\ reply' = reply
      /\ name_to_id_' = name_to_id_ /\ next_id_' = next_id_
      /\ segment_seg' = segment_seg /\ acked' = acked
      /\ unread' = unread /\ cur \notin unread
      /\ tables_' = [tables_ EXCEPT ![cur] = Emplaced(name_to_id_[cur])]
      /\ \/ /\ catalog_dat' = [next |-> next_id_, map |-> name_to_id_]
            /\ cut' = FALSE
         \/ /\ catalog_dat' \in CutCatalogs(name_to_id_, next_id_)
            /\ cut' = TRUE
  BY DEF SaveClose, SaveCloseShort, EmplaceCur, SavedCatalog, At, ghosts,
         InProgress
<1>1. /\ cur \in TableNames /\ ~Live(cur)
      /\ name_to_id_[cur] \in Ids /\ name_to_id_[cur] # NoId
      /\ name_to_id_ \in MapType /\ next_id_ \in 1 .. MaxId + 1
      /\ FreshIds(name_to_id_, next_id_)
  BY <1>0 DEF TypeOK, InProgress, MapType, TableNames, TableIdentity
<1>2. /\ catalog_dat' \in [next : 1 .. MaxId + 1, map : MapType]
      /\ FreshIds(catalog_dat'.map, catalog_dat'.next)
  BY <1>0, <1>1, CutCatalogFacts
<1>3. TypeOK'
  <2>1. Emplaced(name_to_id_[cur]) \in TableType
    BY <1>1, ColumnFacts DEF Emplaced, TableType
  <2>2. tables_' \in [TableNames -> TableType]
    BY <1>0, <2>1 DEF TypeOK
  <2> QED  BY <1>0, <1>2, <2>2 DEF TypeOK, Labels
<1>4. tables_ \in [TableNames -> TableType]  BY DEF TypeOK
<1>5. TableIdentity'
  BY <1>0, <1>1, <1>2, <1>4 DEF TableIdentity, Live, Emplaced
<1>6. NumRowsIsLongest'
  BY <1>0, <1>1, <1>4, ColumnFacts
  DEF NumRowsIsLongest, num_rows, Emplaced, NoRows
<1>7. \A n \in TableNames : acked[n].known => n # cur
  BY <1>0, <1>1 DEF AckedInMemory
<1>8. AckedInMemory'
  BY <1>0, <1>1, <1>4, <1>7 DEF AckedInMemory, Live
<1>9. \A n \in TableNames : acked[n].known =>
        /\ name_to_id_[n] # NoId
        /\ segment_seg[name_to_id_[n]].state # "none"
        /\ segment_seg[name_to_id_[n]].state = "whole" =>
             Covers(segment_seg[name_to_id_[n]].cols, acked[n].cols)
  BY <1>0 DEF AckedMapped
<1>11. AckedOnDisk'  BY <1>0, <1>9 DEF AckedOnDisk
<1>12. AckedMapped'
  <2>1. \A n \in TableNames : tables_'[n].id # NoId => n \notin unread
    BY <1>0, <1>4 DEF AckedMapped, Live
  <2> QED  BY <1>0, <1>9, <2>1 DEF AckedMapped, Live
<1>10. InProgress'
  BY <1>0, <1>1, <1>4 DEF InProgress, Live, Emplaced
<1> QED  BY <1>3, <1>5, <1>6, <1>8, <1>10, <1>11, <1>12

\* append_row only ever adds cells below those a table has.
LEMMA InsertStep ==
  ASSUME IInv, NEW n \in Names, NEW v \in Values, NEW bad \in Cols,
         InsertRow(n, v) \/ InsertMistyped(n, v, bad)
  PROVE  IInv'
<1> USE DEF IInv
<1> DEFINE cs == tables_[n].cols
<1>0. /\ proc = "up" /\ proc' = proc /\ Live(n) /\ cur' = n /\ pc = "idle"
      /\ pc' \in {"idle", "flush_open"} /\ reply' \in {"none", "err"}
      /\ name_to_id_' = name_to_id_ /\ next_id_' = next_id_
      /\ segment_seg' = segment_seg /\ catalog_dat' = catalog_dat
      /\ acked' = acked /\ cut' = cut /\ unread' = unread
      /\ \/ tables_' = [tables_ EXCEPT ![n].cols = Appended(@, v)]
         \/ tables_' = [tables_ EXCEPT ![n].cols = AppendedBefore(@, v, bad)]
  BY DEF InsertRow, InsertMistyped, Ready, Begin, Answer, disk, ghosts
<1>1. /\ n \in TableNames /\ cs \in Columns
      /\ tables_ \in [TableNames -> TableType]
      /\ \A c \in Cols : Len(cs[c]) <= num_rows(cs)
  BY DEF TypeOK, TableNames, TableType, NumRowsIsLongest
<1>2. PICK new \in Columns :
        /\ tables_' = [tables_ EXCEPT ![n].cols = new]
        /\ Covers(new, cs)
        /\ \A c \in Cols : Len(new[c]) <= num_rows(new)
  BY <1>0, <1>1, AppendType, AppendGrows
<1>3. /\ tables_'[n].cols = new /\ tables_'[n].id = tables_[n].id
      /\ \A x \in TableNames : x # n => tables_'[x] = tables_[x]
      /\ tables_' \in [TableNames -> TableType]
  BY <1>1, <1>2 DEF TableType
<1>4. TypeOK'  BY <1>0, <1>3 DEF TypeOK, Labels
<1>5. TableIdentity'  BY <1>0, <1>3 DEF TableIdentity, FreshIds, Live
<1>6. NumRowsIsLongest'  BY <1>0, <1>2, <1>3 DEF NumRowsIsLongest
<1>7. AckedInMemory'
  <2> SUFFICES ASSUME NEW x \in TableNames \ unread, acked[x].known
               PROVE  tables_'[x].id # NoId
                      /\ Covers(tables_'[x].cols, acked[x].cols)
    BY <1>0 DEF AckedInMemory, Live
  <2>1. tables_[x].id # NoId /\ Covers(tables_[x].cols, acked[x].cols)
    BY <1>0 DEF AckedInMemory, Live
  <2>2. acked[x].cols \in Columns  BY DEF TypeOK, AckedType
  <2>3. CASE x = n  BY <1>1, <1>2, <1>3, <2>1, <2>2, <2>3, CoversOrder
  <2>4. CASE x # n  BY <1>3, <2>1, <2>4
  <2> QED  BY <2>3, <2>4
<1>8. AckedOnDisk' /\ AckedMapped'
  BY <1>0, <1>3 DEF AckedOnDisk, AckedMapped, Live
<1>9. InProgress'  BY <1>0, <1>3 DEF InProgress, Live
<1> QED  BY <1>4, <1>5, <1>6, <1>7, <1>8, <1>9

\* The id that the running statement flushes under is its own: no other table
\* is mapped to it, in memory or, unless it has been cut short, in catalog.dat.
LEMMA FlushId ==
  ASSUME IInv, proc = "up", pc \in {"flush_open", "flush_close"}
  PROVE  /\ cur \in TableNames
         /\ tables_[cur].id \in Ids /\ tables_[cur].cols \in Columns
         /\ tables_[cur].id = name_to_id_[cur]
         /\ \A n \in TableNames : n # cur =>
              /\ name_to_id_[n] # tables_[cur].id
              /\ ~cut => catalog_dat.map[n] # tables_[cur].id
         /\ ~cut => catalog_dat.map[cur] = tables_[cur].id
<1>1. cur \in TableNames  BY DEF IInv, TypeOK, TableNames
<1>2. tables_[cur].id \in Ids /\ tables_[cur].cols \in Columns
  BY <1>1 DEF IInv, TypeOK, TableType, InProgress, Live
<1>3. tables_[cur].id = name_to_id_[cur]
  BY <1>1 DEF IInv, TableIdentity, InProgress
<1>4. tables_[cur].id # NoId  BY DEF IInv, InProgress, Live
<1>5. ~cut => catalog_dat.map[cur] = tables_[cur].id
  BY <1>1, <1>3 DEF IInv, AckedMapped, InProgress
<1>6. ASSUME NEW n \in TableNames, n # cur
      PROVE  /\ name_to_id_[n] # tables_[cur].id
             /\ ~cut => catalog_dat.map[n] # tables_[cur].id
  <2>1. name_to_id_[n] # name_to_id_[cur]
    BY <1>1, <1>3, <1>4, <1>6 DEF IInv, TableIdentity, FreshIds
  <2>2. ~cut => catalog_dat.map[n] # catalog_dat.map[cur]
    BY <1>1, <1>4, <1>6, <1>5 DEF IInv, TableIdentity, FreshIds
  <2> QED  BY <1>3, <1>5, <2>1, <2>2
<1> QED  BY <1>1, <1>2, <1>3, <1>5, <1>6

\* What one segment file may be rewritten to: anything that covers what has
\* been acknowledged of the table being flushed, or less than a whole segment.
LEMMA SegmentWrite ==
  ASSUME IInv, proc = "up", pc \in {"flush_open", "flush_close"},
         NEW s \in CutSegments \cup {Written(tables_[cur].cols)},
         segment_seg' = [segment_seg EXCEPT ![tables_[cur].id] = s]
  PROVE  /\ segment_seg' \in [Ids -> SegmentType]
         /\ \A i \in Ids, c \in Cols :
              Len(segment_seg'[i].cols[c]) <= num_rows(segment_seg'[i].cols)
         /\ segment_seg'[tables_[cur].id] = s
         /\ s.state # "none"
         /\ s.state = "whole" => s.cols = tables_[cur].cols
         /\ \A i \in Ids : i # tables_[cur].id =>
              segment_seg'[i] = segment_seg[i]
<1>1. /\ cur \in TableNames /\ tables_[cur].id \in Ids
      /\ tables_[cur].cols \in Columns
  BY FlushId
<1>2. segment_seg \in [Ids -> SegmentType]  BY DEF IInv, TypeOK
<1>3. /\ s \in SegmentType /\ s.state # "none"
      /\ s.state = "whole" => s.cols = tables_[cur].cols
      /\ \A c \in Cols : Len(s.cols[c]) <= num_rows(s.cols)
  <2>1. CASE s \in CutSegments  BY <2>1, BlankFacts
  <2>2. CASE s = Written(tables_[cur].cols)
    BY <2>2, <1>1 DEF Written, SegmentType, IInv, NumRowsIsLongest
  <2> QED  BY <2>1, <2>2
<1>4. \A i \in Ids, c \in Cols :
        Len(segment_seg'[i].cols[c]) <= num_rows(segment_seg'[i].cols)
  BY <1>1, <1>2, <1>3 DEF IInv, NumRowsIsLongest
<1> QED  BY <1>1, <1>2, <1>3, <1>4

\* Opening a segment empties it: until it is closed no acknowledged row of its
\* table is on disk.
LEMMA FlushOpenStep ==
  ASSUME IInv, FlushOpen
  PROVE  IInv'
<1> USE DEF IInv
<1>0. /\ proc = "up" /\ pc = "flush_open" /\ pc' = "flush_close"
      /\ proc' = proc /\ cur' = cur /\ reply' = reply
      /\ tables_' = tables_ /\ name_to_id_' = name_to_id_
      /\ next_id_' = next_id_ /\ catalog_dat' = catalog_dat
      /\ acked' = acked /\ cut' = cut /\ unread' = unread
      /\ segment_seg' = [segment_seg EXCEPT ![tables_[cur].id] = Truncated]
  BY DEF FlushOpen, At, memory, ghosts
<1>1. Truncated \in CutSegments /\ Truncated.state = "torn"
  BY DEF CutSegments, Truncated
<1>2. /\ segment_seg' \in [Ids -> SegmentType]
      /\ \A i \in Ids, c \in Cols :
           Len(segment_seg'[i].cols[c]) <= num_rows(segment_seg'[i].cols)
      /\ segment_seg'[tables_[cur].id].state = "torn"
      /\ \A i \in Ids : i # tables_[cur].id =>
           segment_seg'[i] = segment_seg[i]
  BY <1>0, <1>1, SegmentWrite
<1>3. TypeOK'  BY <1>0, <1>2 DEF TypeOK, Labels
<1>4. TableIdentity'  BY <1>0 DEF TableIdentity, FreshIds, Live
<1>5. NumRowsIsLongest'  BY <1>0, <1>2 DEF NumRowsIsLongest
<1>6. AckedInMemory' /\ InProgress'
  BY <1>0 DEF AckedInMemory, InProgress, Live
<1>7. \A n \in TableNames : catalog_dat.map[n] \in Ids \cup {NoId}
                            /\ name_to_id_[n] \in Ids \cup {NoId}
  BY DEF TypeOK, MapType
<1>8. AckedOnDisk'
  BY <1>0, <1>2, <1>7 DEF AckedOnDisk
<1>9. AckedMapped'
  BY <1>0, <1>2, <1>7 DEF AckedMapped, Live
<1> QED  BY <1>3, <1>4, <1>5, <1>6, <1>8, <1>9

\* A completed flush acknowledges what it wrote; one cut short acknowledges
\* what it did not, but leaves no whole segment.
LEMMA FlushCloseStep ==
  ASSUME IInv, FlushClose \/ FlushCloseShort
  PROVE  IInv'
<1> USE DEF IInv
<1>0. /\ proc = "up" /\ pc = "flush_close" /\ pc' = "idle"
      /\ proc' = proc /\ cur' = cur /\ reply' = "ok"
      /\ tables_' = tables_ /\ name_to_id_' = name_to_id_
      /\ next_id_' = next_id_ /\ catalog_dat' = catalog_dat /\ cut' = cut
      /\ unread' = unread
      /\ acked' = [acked EXCEPT ![cur] = [known |-> TRUE,
                                          cols |-> tables_[cur].cols]]
  BY DEF FlushClose, FlushCloseShort, At, Acknowledge, Answer, memory
<1>1. PICK s \in CutSegments \cup {Written(tables_[cur].cols)} :
        segment_seg' = [segment_seg EXCEPT ![tables_[cur].id] = s]
  BY DEF FlushClose, FlushCloseShort
<1>2. /\ cur \in TableNames
      /\ tables_[cur].id \in Ids /\ tables_[cur].cols \in Columns
      /\ tables_[cur].id = name_to_id_[cur]
      /\ \A n \in TableNames : n # cur =>
           /\ name_to_id_[n] # tables_[cur].id
           /\ ~cut => catalog_dat.map[n] # tables_[cur].id
      /\ ~cut => catalog_dat.map[cur] = tables_[cur].id
  BY <1>0, FlushId
<1>3. /\ segment_seg' \in [Ids -> SegmentType]
      /\ \A i \in Ids, c \in Cols :
           Len(segment_seg'[i].cols[c]) <= num_rows(segment_seg'[i].cols)
      /\ segment_seg'[tables_[cur].id] = s
      /\ s.state # "none"
      /\ s.state = "whole" => s.cols = tables_[cur].cols
      /\ \A i \in Ids : i # tables_[cur].id =>
           segment_seg'[i] = segment_seg[i]
  BY <1>0, <1>1, SegmentWrite
<1>4. /\ acked \in [TableNames -> AckedType]
      /\ acked' \in [TableNames -> AckedType]
      /\ acked'[cur].cols = tables_[cur].cols
      /\ \A n \in TableNames : n # cur => acked'[n] = acked[n]
  BY <1>0, <1>2 DEF TypeOK, AckedType
<1>5. Covers(tables_[cur].cols, tables_[cur].cols)  BY <1>2, CoversOrder
<1>6. TypeOK'  BY <1>0, <1>3, <1>4 DEF TypeOK, Labels
<1>7. TableIdentity'  BY <1>0 DEF TableIdentity, FreshIds, Live
<1>8. NumRowsIsLongest'  BY <1>0, <1>3 DEF NumRowsIsLongest
<1>9. Live(cur)  BY <1>0 DEF InProgress
<1>10. AckedInMemory'
  BY <1>0, <1>4, <1>5, <1>9 DEF AckedInMemory, Live
<1>11. \A n \in TableNames : catalog_dat.map[n] \in Ids \cup {NoId}
                             /\ name_to_id_[n] \in Ids \cup {NoId}
  BY DEF TypeOK, MapType
<1>13. AckedOnDisk'
  <2> SUFFICES ASSUME ~cut, NEW n \in TableNames, acked'[n].known
               PROVE  LET id == catalog_dat.map[n] IN
                      /\ id # NoId
                      /\ segment_seg'[id].state # "none"
                      /\ segment_seg'[id].state = "whole" =>
                           Covers(segment_seg'[id].cols, acked'[n].cols)
    BY <1>0 DEF AckedOnDisk
  <2>1. CASE n = cur
    BY <1>2, <1>3, <1>4, <1>5, <1>9, <2>1 DEF Live
  <2>2. CASE n # cur
    BY <1>2, <1>3, <1>4, <1>11, <2>2 DEF AckedOnDisk
  <2> QED  BY <2>1, <2>2
<1>14. AckedMapped'
  <2> SUFFICES ASSUME NEW n \in TableNames \ unread, acked'[n].known
               PROVE  /\ name_to_id_[n] # NoId
                      /\ segment_seg'[name_to_id_[n]].state # "none"
                      /\ segment_seg'[name_to_id_[n]].state = "whole" =>
                           Covers(segment_seg'[name_to_id_[n]].cols,
                                  acked'[n].cols)
    BY <1>0 DEF AckedMapped, Live
  <2>1. CASE n = cur
    BY <1>2, <1>3, <1>4, <1>5, <1>9, <2>1 DEF Live
  <2>2. CASE n # cur
    BY <1>0, <1>2, <1>3, <1>4, <1>11, <2>2 DEF AckedMapped
  <2> QED  BY <2>1, <2>2
<1>15. InProgress'  BY <1>0 DEF InProgress
<1> QED  BY <1>6, <1>7, <1>8, <1>10, <1>13, <1>14, <1>15

\* A kill leaves of an open file what might have been written of it.
LEMMA KillStep ==
  ASSUME IInv, Kill
  PROVE  IInv'
<1> USE DEF IInv
<1>0. /\ proc = "up" /\ proc' = "down" /\ pc' = "idle" /\ reply' = "none"
      /\ cur' = cur /\ acked' = acked /\ cut' = cut /\ unread' = {}
      /\ tables_' = [n \in TableNames |-> Absent]
      /\ name_to_id_' = Blank.map /\ next_id_' = Blank.next
  BY DEF Kill, MemoryGone, ghosts
<1>1. /\ catalog_dat' \in [next : 1 .. MaxId + 1, map : MapType]
      /\ FreshIds(catalog_dat'.map, catalog_dat'.next)
      /\ ~cut => catalog_dat' = catalog_dat
  <2>1. CASE pc = "save_close"
    <3>1. catalog_dat' \in CutCatalogs(name_to_id_, next_id_) /\ cut
      BY <2>1 DEF Kill, InProgress
    <3>2. /\ name_to_id_ \in MapType /\ next_id_ \in 1 .. MaxId + 1
          /\ FreshIds(name_to_id_, next_id_)
      BY DEF TypeOK, TableIdentity
    <3> QED  BY <3>1, <3>2, CutCatalogFacts
  <2>2. CASE pc # "save_close"
    BY <2>2 DEF Kill, TypeOK, TableIdentity
  <2> QED  BY <2>1, <2>2
<1>2. /\ segment_seg' \in [Ids -> SegmentType]
      /\ \A i \in Ids, c \in Cols :
           Len(segment_seg'[i].cols[c]) <= num_rows(segment_seg'[i].cols)
      /\ \A n \in TableNames : ~cut /\ acked[n].known =>
           LET id == catalog_dat.map[n] IN
           /\ id # NoId
           /\ segment_seg'[id].state # "none"
           /\ segment_seg'[id].state = "whole" =>
                Covers(segment_seg'[id].cols, acked[n].cols)
  <2>1. CASE segment_seg' = segment_seg
    BY <2>1 DEF TypeOK, NumRowsIsLongest, AckedOnDisk
  <2>2. CASE segment_seg' # segment_seg
    <3>1. pc = "flush_close"  BY <2>2 DEF Kill
    <3>2. PICK s \in CutSegments \cup {Written(tables_[cur].cols)} :
            segment_seg' = [segment_seg EXCEPT ![tables_[cur].id] = s]
      BY <2>2 DEF Kill
    <3>3. /\ segment_seg' \in [Ids -> SegmentType]
          /\ \A i \in Ids, c \in Cols :
               Len(segment_seg'[i].cols[c]) <= num_rows(segment_seg'[i].cols)
          /\ segment_seg'[tables_[cur].id] = s
          /\ s.state # "none"
          /\ s.state = "whole" => s.cols = tables_[cur].cols
          /\ \A i \in Ids : i # tables_[cur].id =>
               segment_seg'[i] = segment_seg[i]
      BY <1>0, <3>1, <3>2, SegmentWrite
    <3>4. ASSUME NEW n \in TableNames, ~cut, acked[n].known
          PROVE  LET id == catalog_dat.map[n] IN
                 /\ id # NoId
                 /\ segment_seg'[id].state # "none"
                 /\ segment_seg'[id].state = "whole" =>
                      Covers(segment_seg'[id].cols, acked[n].cols)
      <4>1. /\ catalog_dat.map[n] # NoId
            /\ catalog_dat.map[n] \in Ids
        BY <3>4 DEF AckedOnDisk, TypeOK, MapType
      <4>2. CASE n = cur
        <5>1. catalog_dat.map[n] = tables_[cur].id
          BY <1>0, <3>1, <3>4, <4>2, FlushId
        <5>2. cur \notin unread
          BY <1>0, <3>1, <3>4, <4>2 DEF AckedMapped, InProgress
        <5>3. Covers(tables_[cur].cols, acked[n].cols)
          BY <1>0, <3>4, <4>2, <5>2 DEF AckedInMemory
        <5> QED  BY <3>3, <4>1, <5>1, <5>3
      <4>3. CASE n # cur
        <5>1. catalog_dat.map[n] # tables_[cur].id
          BY <1>0, <3>1, <3>4, <4>3, FlushId
        <5> QED  BY <3>3, <3>4, <4>1, <5>1 DEF AckedOnDisk
      <4> QED  BY <4>2, <4>3
    <3> QED  BY <3>3, <3>4
  <2> QED  BY <2>1, <2>2
<1>3. TypeOK'
  <2>1. tables_' \in [TableNames -> TableType]  BY <1>0, BlankFacts
  <2>2. name_to_id_' \in MapType /\ next_id_' \in 1 .. MaxId + 1
    BY <1>0, BlankFacts
  <2> QED  BY <1>0, <1>1, <1>2, <2>1, <2>2 DEF TypeOK, Labels
<1>4. TableIdentity'
  BY <1>0, <1>1, BlankFacts DEF TableIdentity, Live
<1>5. NumRowsIsLongest'
  BY <1>0, <1>2, BlankFacts DEF NumRowsIsLongest, Absent
<1>6. AckedOnDisk'  BY <1>0, <1>1, <1>2 DEF AckedOnDisk
<1>7. AckedInMemory' /\ AckedMapped' /\ InProgress'
  BY <1>0 DEF AckedInMemory, AckedMapped, InProgress
<1> QED  BY <1>3, <1>4, <1>5, <1>6, <1>7
\* A start of the server makes what it reads of the files the truth that
\* clients are told; what it cannot read it leaves as it was.
LEMMA LoadAllStep ==
  ASSUME IInv, LoadAll
  PROVE  IInv' /\ KeepsAcked
<1> USE DEF IInv
<1>0. PICK catalog \in LoadedCatalogs :
        \E missed \in Unopened(catalog.map), f \in Failures :
          /\ MappedSegments("torn") \cap Mapped(catalog.map) \subseteq missed
          /\ name_to_id_' = catalog.map
          /\ next_id_' = catalog.next
          /\ tables_' = [n \in TableNames |->
               LoadedTable(catalog.map[n], segment_seg, n \notin missed, f[n])]
          /\ unread' = (Mapped(catalog_dat.map) \ Mapped(catalog.map)) \cup missed
          /\ acked' = [n \in TableNames |->
               IF n \in unread' THEN IF cut THEN Untold ELSE acked[n]
               ELSE IF tables_'[n].id = NoId THEN Untold
               ELSE [known |-> TRUE,
                     cols |-> ReadUpTo(segment_seg[catalog.map[n]].cols, f[n])]]
  BY DEF LoadAll
<1> DEFINE map == catalog.map
           seg(n) == segment_seg[map[n]]
<1>00. PICK missed \in Unopened(map), f \in Failures :
          /\ tables_' = [n \in TableNames |->
               LoadedTable(map[n], segment_seg, n \notin missed, f[n])]
          /\ unread' = (Mapped(catalog_dat.map) \ Mapped(map)) \cup missed
          /\ acked' = [n \in TableNames |->
               IF n \in unread' THEN IF cut THEN Untold ELSE acked[n]
               ELSE IF tables_'[n].id = NoId THEN Untold
               ELSE [known |-> TRUE, cols |-> ReadUpTo(seg(n).cols, f[n])]]
  BY <1>0
<1> DEFINE loaded(n) ==
             LoadedTable(map[n], segment_seg, n \notin missed, f[n])
           read(n) == ReadUpTo(seg(n).cols, f[n])
<1>a. /\ proc # "up" /\ proc' = "up" /\ pc' = pc /\ pc = "idle"
      /\ cur' = cur /\ reply' = reply
      /\ catalog_dat' = catalog_dat /\ segment_seg' = segment_seg
      /\ cut' = FALSE
  BY DEF LoadAll, disk, InProgress
<1>b. /\ name_to_id_' = map /\ next_id_' = catalog.next
      /\ \A n \in TableNames : tables_'[n] = loaded(n)
  BY <1>0, <1>00
<1>c. \A n \in TableNames : f[n] \in Cols
  BY DEF Failures
<1>d. \A n \in TableNames : n \notin unread' /\ loaded(n).id = NoId =>
        acked'[n] = Untold
  BY <1>00
<1>e. \A n \in TableNames : n \notin unread' /\ loaded(n).id # NoId =>
        acked'[n] = [known |-> TRUE, cols |-> read(n)]
  BY <1>00
<1>f. \A n \in TableNames : n \in unread' =>
        acked'[n] = IF cut THEN Untold ELSE acked[n]
  BY <1>00
<1>1. /\ catalog \in [next : 1 .. MaxId + 1, map : MapType]
      /\ map \in [TableNames -> Ids \cup {NoId}]
      /\ segment_seg \in [Ids -> SegmentType]
      /\ \A i \in Ids, c \in Cols :
           Len(segment_seg[i].cols[c]) <= num_rows(segment_seg[i].cols)
      /\ FreshIds(map, catalog.next)
  <2>1. catalog \in {catalog_dat, Blank}  BY DEF LoadedCatalogs
  <2>2. /\ catalog \in [next : 1 .. MaxId + 1, map : MapType]
        /\ FreshIds(map, catalog.next)
    BY <2>1, BlankFacts DEF TypeOK, TableIdentity
  <2> QED  BY <2>2 DEF TypeOK, MapType, NumRowsIsLongest
<1>g. \A n \in TableNames : map[n] # NoId => catalog_dat.map[n] = map[n]
  BY DEF LoadedCatalogs, Blank
<1>h. /\ missed \subseteq Mapped(map)
      /\ unread' \subseteq TableNames
      /\ unread' # {} => "open" \in Faults
  <2>1. missed \subseteq Mapped(map) /\ (missed # {} => "open" \in Faults)
    BY DEF Unopened
  <2>2. Mapped(catalog_dat.map) \ Mapped(map) # {} => "open" \in Faults
    BY DEF LoadedCatalogs
  <2> QED  BY <1>00, <2>1, <2>2 DEF Mapped
<1>2. \A n \in TableNames :
        /\ loaded(n) \in TableType
        /\ loaded(n).id \in {NoId, map[n]}
        /\ \A c \in Cols : Len(loaded(n).cols[c]) = num_rows(loaded(n).cols)
        /\ loaded(n).id # NoId =>
             /\ seg(n).state \in {"stub", "whole"}
             /\ seg(n).state = "whole" => Covers(loaded(n).cols, read(n))
        /\ n \notin missed /\ map[n] # NoId /\ seg(n).state = "whole" =>
             loaded(n).id = map[n]
  <2> TAKE n \in TableNames
  <2>1. /\ f[n] \in Cols /\ map[n] \in Ids \cup {NoId}
        /\ (n \notin missed) \in BOOLEAN
    BY <1>c, <1>1
  <2>2. \A id \in Ids \cup {NoId}, opens \in BOOLEAN, g \in Cols :
          LET table == LoadedTable(id, segment_seg, opens, g) IN
          /\ table \in TableType
          /\ table.id \in {NoId, id}
          /\ \A c \in Cols : Len(table.cols[c]) = num_rows(table.cols)
          /\ table.id # NoId =>
               /\ segment_seg[id].state \in {"stub", "whole"}
               /\ segment_seg[id].state = "whole" =>
                    Covers(table.cols, ReadUpTo(segment_seg[id].cols, g))
          /\ opens /\ id # NoId /\ segment_seg[id].state = "whole" =>
               table.id = id
    BY <1>1, LoadedTableFacts
  <2> HIDE DEF loaded
  <2> QED  BY <2>1, <2>2 DEF loaded
<1>i. \A n \in TableNames : n \in unread' => loaded(n).id = NoId
  <2> TAKE n \in TableNames
  <2>1. CASE n \in missed
    BY <2>1 DEF LoadedTable, Absent
  <2>2. CASE n \notin Mapped(map)
    BY <1>2, <2>2 DEF Mapped
  <2> QED  BY <1>00, <2>1, <2>2
<1> HIDE DEF loaded
<1>3. \A n \in TableNames : loaded(n).id # NoId =>
        /\ loaded(n).id = map[n]
        /\ map[n] \in Ids
        /\ seg(n).cols \in Columns /\ read(n) \in Columns
        /\ Covers(seg(n).cols, read(n))
  <2>1. \A i \in Ids : segment_seg[i].cols \in Columns
    BY <1>1, ColumnFacts DEF SegmentType
  <2>2. \A n \in TableNames : loaded(n).id # NoId =>
          loaded(n).id = map[n] /\ map[n] \in Ids
    BY <1>1, <1>2
  <2> QED  BY <1>c, <1>1, <2>1, <2>2, ReadUpToFacts
<1>4. TypeOK'
  <2>1. tables_' \in [TableNames -> TableType]
    BY <1>00, <1>2 DEF loaded
  <2>2. \A n \in TableNames : acked'[n] \in AckedType
    <3> TAKE n \in TableNames
    <3>0. Untold \in AckedType /\ acked[n] \in AckedType
      BY ColumnFacts DEF AckedType, Untold, TypeOK
    <3>1. CASE n \in unread'  BY <1>f, <3>0, <3>1
    <3>2. CASE n \notin unread' /\ loaded(n).id = NoId  BY <1>d, <3>0, <3>2
    <3>3. CASE n \notin unread' /\ loaded(n).id # NoId
      <4>1. acked'[n] = [known |-> TRUE, cols |-> read(n)]  BY <1>e, <3>3
      <4>2. read(n) \in Columns  BY <1>3, <3>3
      <4> QED  BY <4>1, <4>2 DEF AckedType
    <3> QED  BY <3>1, <3>2, <3>3
  <2>3. acked' \in [TableNames -> AckedType]  BY <1>00, <2>2
  <2> QED  BY <1>a, <1>b, <1>h, <1>1, <2>1, <2>3 DEF TypeOK
<1>5. TableIdentity'
  BY <1>a, <1>b, <1>1, <1>3 DEF TableIdentity, Live
<1>6. NumRowsIsLongest'
  <2>1. \A n \in TableNames, c \in Cols : Len(loaded(n).cols[c]) \in Nat
    BY <1>2 DEF TableType, Columns
  <2>2. \A n \in TableNames, c \in Cols :
          Len(loaded(n).cols[c]) <= num_rows(loaded(n).cols)
    BY <1>2, <2>1
  <2> QED  BY <1>a, <1>b, <1>1, <2>2 DEF NumRowsIsLongest
<1>7. ASSUME NEW n \in TableNames, acked'[n].known, n \notin unread'
      PROVE  /\ loaded(n).id # NoId
             /\ acked'[n].cols = read(n)
  <2>1. CASE loaded(n).id = NoId
    BY <1>d, <1>7, <2>1 DEF Untold
  <2>2. CASE loaded(n).id # NoId
    <3>1. acked'[n] = [known |-> TRUE, cols |-> read(n)]  BY <1>e, <1>7, <2>2
    <3> QED  BY <2>2, <3>1
  <2> QED  BY <2>1, <2>2
<1>13. ASSUME NEW n \in TableNames, acked'[n].known, n \in unread'
       PROVE  ~cut /\ acked'[n] = acked[n]
  BY <1>f, <1>13 DEF Untold
<1>8. AckedInMemory'
  <2> SUFFICES ASSUME NEW n \in TableNames \ unread', acked'[n].known
               PROVE  /\ loaded(n).id # NoId
                      /\ Covers(loaded(n).cols, acked'[n].cols)
    BY <1>b DEF AckedInMemory, Live
  <2>1. CASE seg(n).state = "whole"
    BY <1>2, <1>7, <2>1
  <2>2. CASE seg(n).state = "stub"
    <3>1. acked'[n].cols = ReadUpTo(NoRows, f[n])
      BY <1>1, <1>3, <1>7, <2>2 DEF SegmentType
    <3>2. \A c \in Cols : Len(loaded(n).cols[c]) \in Nat
      BY <1>2 DEF TableType, Columns
    <3>3. Covers(loaded(n).cols, ReadUpTo(NoRows, f[n]))
      BY <3>2 DEF Covers, NoRows, ReadUpTo
    <3> QED  BY <1>7, <3>1, <3>3
  <2> QED  BY <1>2, <1>7, <2>1, <2>2
<1>14. ASSUME NEW n \in TableNames, acked'[n].known, n \notin unread'
       PROVE  /\ catalog_dat.map[n] = map[n] /\ map[n] # NoId
              /\ seg(n).state # "none"
              /\ seg(n).state = "whole" => Covers(seg(n).cols, acked'[n].cols)
  BY <1>g, <1>2, <1>3, <1>7, <1>14
<1>9. AckedOnDisk'
  <2> SUFFICES ASSUME NEW n \in TableNames, acked'[n].known
               PROVE  LET id == catalog_dat.map[n] IN
                      /\ id # NoId
                      /\ segment_seg[id].state # "none"
                      /\ segment_seg[id].state = "whole" =>
                           Covers(segment_seg[id].cols, acked'[n].cols)
    BY <1>a DEF AckedOnDisk
  <2>1. CASE n \in unread'
    <3>1. ~cut /\ acked'[n] = acked[n] /\ acked[n].known  BY <1>13, <2>1
    <3> QED  BY <3>1 DEF AckedOnDisk
  <2>2. CASE n \notin unread'  BY <1>14, <2>2
  <2> QED  BY <2>1, <2>2
<1>10. AckedMapped'
  <2>1. \A n \in TableNames : loaded(n).id # NoId =>
          catalog_dat.map[n] = map[n] /\ n \notin unread'
    BY <1>g, <1>i, <1>3
  <2> QED  BY <1>a, <1>b, <1>14, <2>1 DEF AckedMapped, Live
<1>11. InProgress'  BY <1>a DEF InProgress
<1>12. KeepsAcked
  <2> SUFFICES ASSUME ~cut, NEW n \in TableNames, InSegment(n)
               PROVE  \/ Returns(n)
                      \/ /\ "open" \in Faults
                         /\ n \in unread' /\ acked'[n] = acked[n]
    BY <1>a DEF KeepsAcked, Starts
  <2>0. acked[n].known /\ segment_seg[catalog_dat.map[n]].state = "whole"
    BY DEF InSegment
  <2>1. CASE n \in unread'  BY <1>f, <1>h, <2>1
  <2>2. CASE n \notin unread'
    <3>1. /\ catalog_dat.map[n] # NoId
          /\ Covers(segment_seg[catalog_dat.map[n]].cols, acked[n].cols)
      BY <2>0 DEF AckedOnDisk
    <3>2. map[n] # NoId /\ n \notin missed
      BY <1>00, <2>2, <3>1 DEF Mapped
    <3>3. catalog_dat.map[n] = map[n] /\ seg(n).state = "whole"
      BY <1>g, <2>0, <3>2
    <3>4. /\ loaded(n).id = map[n]
          /\ Covers(loaded(n).cols, read(n))
      BY <1>2, <3>2, <3>3
    <3>5. /\ loaded(n).cols \in Columns
          /\ seg(n).cols \in Columns /\ read(n) \in Columns
          /\ acked[n].cols \in Columns
      BY <1>2, <1>3, <3>2, <3>4 DEF TableType, TypeOK, AckedType
    <3>6. ASSUME NEW g \in Cols, \A c \in Short(seg(n).cols) : c >= g
          PROVE  Covers(loaded(n).cols, ReadUpTo(acked[n].cols, g))
      <4>1. f[n] \in FailsAt(seg(n).cols)
        BY <3>1, <3>3 DEF Failures, Mapped
      <4>2. g <= f[n]
        BY <3>5, <3>6, <4>1, ReadBeforeFailure DEF Cols
      <4>3. Covers(read(n), ReadUpTo(acked[n].cols, g))
        BY <1>c, <3>1, <3>3, <3>5, <4>2, ReadUpToOrder
      <4>4. ReadUpTo(acked[n].cols, g) \in Columns
        BY <3>5 DEF ReadUpTo, Columns
      <4> QED  BY <3>4, <3>5, <4>3, <4>4, CoversOrder
    <3>7. Returns(n)
      BY <1>b, <3>2, <3>3, <3>4, <3>6 DEF Returns, Live
    <3> QED  BY <3>7
  <2> QED  BY <2>1, <2>2
<1> QED  BY <1>4, <1>5, <1>6, <1>8, <1>9, <1>10, <1>11, <1>12

\* A start that fails, and no step at all, change neither memory nor files.
LEMMA QuietStep ==
  ASSUME IInv, LoadAborts \/ UNCHANGED vars
  PROVE  IInv'
<1> USE DEF IInv, LoadAborts, vars, memory, disk, ghosts
<1>1. TypeOK'  BY DEF TypeOK
<1>2. TableIdentity'  BY DEF TableIdentity, FreshIds, Live
<1>3. NumRowsIsLongest'  BY DEF NumRowsIsLongest
<1>4. AckedInMemory' /\ AckedOnDisk' /\ AckedMapped' /\ InProgress'
  BY DEF AckedInMemory, AckedOnDisk, AckedMapped, InProgress, Live
<1> QED  BY <1>1, <1>2, <1>3, <1>4

\* No step breaks the invariant.
LEMMA NextInvariant == IInv /\ [Next]_vars => IInv'
<1> SUFFICES ASSUME IInv, [Next]_vars  PROVE IInv'  OBVIOUS
<1>1. CASE \E n \in Names : Create(n)
  BY <1>1, CreateTableStep, RefusedStep DEF Create
<1>2. CASE \E n \in Names : Insert(n)
  <2> PICK n \in Names : Insert(n)  BY <1>2
  <2>1. CASE \E v \in Values : InsertRow(n, v)
    BY <2>1, ColumnFacts, InsertStep
  <2>2. CASE \E v \in Values, bad \in Cols : InsertMistyped(n, v, bad)
    BY <2>2, InsertStep
  <2>3. CASE InsertRefused(n)  BY <2>3, RefusedStep
  <2> QED  BY <2>1, <2>2, <2>3 DEF Insert
<1>3. CASE Save  BY <1>3, SaveOpenStep, OpenFailsStep, SaveCloseStep DEF Save
<1>4. CASE Flush
  BY <1>4, OpenFailsStep, FlushOpenStep, FlushCloseStep DEF Flush
<1>5. CASE Kill  BY <1>5, KillStep
<1>6. CASE LoadAll  BY <1>6, LoadAllStep
<1>7. CASE LoadAborts \/ UNCHANGED vars  BY <1>7, QuietStep
<1> QED  BY <1>1, <1>2, <1>3, <1>4, <1>5, <1>6, <1>7 DEF Next

\* The invariant holds in every reachable state.
THEOREM Invariance == Spec => []IInv
<1> QED  BY InitInvariant, NextInvariant, PTL DEF Spec

----------------------------------------------------------------------------
(* Theorems *)

\* Every variable of the storage engine keeps its type.
THEOREM TypeCorrect == Spec => []TypeOK
<1>1. IInv => TypeOK  BY DEF IInv
<1> QED  BY <1>1, Invariance, PTL

\* No two tables ever share an id, in the process or across a restart from
\* whatever a crash leaves of catalog.dat.
THEOREM IdentityIsSafe == Spec => []TableIdentity
<1>1. IInv => TableIdentity  BY DEF IInv
<1> QED  BY <1>1, Invariance, PTL

\* Column 1 counts every row of a table, whatever inserts have failed.
THEOREM NumRowsIsSafe == Spec => []NumRowsIsLongest
<1>1. IInv => NumRowsIsLongest  BY DEF IInv
<1> QED  BY <1>1, Invariance, PTL

\* A server that is up has every acknowledged row in its tables, across
\* whatever inserts fail and whatever crashes it has come back from, but for
\* the tables whose files it could not open.
THEOREM AckedStaysInMemory == Spec => []AckedInMemory
<1>1. IInv => AckedInMemory  BY DEF IInv
<1> QED  BY <1>1, Invariance, PTL

\* Acknowledged rows are never lost from the files except by way of a segment
\* or a catalog.dat that is not whole, or of a save of catalog.dat by a process
\* that could not read them.
THEOREM AckedIsSafe == Spec => []AckedOnDisk
<1>1. IInv => AckedOnDisk  BY DEF IInv
<1> QED  BY <1>1, Invariance, PTL

\* A start that succeeds brings back what was acknowledged, as far as the first
\* short column; where it could not open the files, it leaves them to the next
\* start.
THEOREM RestartIsSafe == Spec => RestartKeepsAcked
<1>1. IInv /\ [Next]_vars => [KeepsAcked]_vars
  <2> SUFFICES ASSUME IInv, Next  PROVE KeepsAcked
    OBVIOUS
  <2> SUFFICES ASSUME proc # "up", proc' = "up"  PROVE KeepsAcked
    BY DEF KeepsAcked, Starts
  <2>1. LoadAll
    BY DEF Next, Create, CreateTable, CreateExisting, Ready, Insert,
           InsertRow, InsertMistyped, InsertRefused, Save, SaveOpen,
           SaveOpenFails, SaveClose, SaveCloseShort, Flush, FlushOpen,
           FlushOpenFails, FlushClose, FlushCloseShort, At, Kill, LoadAborts
  <2> QED  BY <2>1, LoadAllStep
<1> QED  BY <1>1, Invariance, PTL DEF Spec, RestartKeepsAcked

\* OK is only sent for what is on disk, as far as a full disk took it.  A
\* reply outlives neither the next statement nor the process.
THEOREM OkIsSafe == Spec => []OkMeansWritten
<1> DEFINE OkInv == OkMeansWritten /\ (proc # "up" => reply # "ok")
<1>1. Init => OkInv  BY DEF Init, OkMeansWritten, Ready
<1>2. IInv /\ OkInv /\ [Next]_vars => OkInv'
  <2> SUFFICES ASSUME IInv, OkInv, [Next]_vars  PROVE OkInv'  OBVIOUS
  <2> USE DEF OkMeansWritten, Ready
  <2>1. ASSUME NEW n \in Names, Create(n) \/ Insert(n)  PROVE OkInv'
    BY <2>1 DEF Create, CreateTable, CreateExisting, Insert, InsertRow,
                InsertMistyped, InsertRefused, Begin, Answer
  <2>2. CASE Save
    BY <2>2 DEF Save, SaveOpen, SaveOpenFails, SaveClose, SaveCloseShort,
                EmplaceCur, Answer, At
  <2>3. CASE FlushOpen \/ FlushOpenFails
    BY <2>3 DEF FlushOpen, FlushOpenFails, Answer, At
  <2>4. CASE FlushClose \/ FlushCloseShort
    <3>1. /\ proc = "up" /\ pc = "flush_close" /\ proc' = proc /\ cur' = cur
          /\ name_to_id_' = name_to_id_ /\ tables_' = tables_
      BY <2>4 DEF FlushClose, FlushCloseShort, At, memory
    <3>2. PICK s \in {Written(tables_[cur].cols)}
                      \cup (IF "write" \in Faults THEN CutSegments ELSE {}) :
            segment_seg' = [segment_seg EXCEPT ![tables_[cur].id] = s]
      BY <2>4 DEF FlushClose, FlushCloseShort
    <3>3. /\ tables_[cur].id = name_to_id_[cur] /\ tables_[cur].id \in Ids
          /\ segment_seg \in [Ids -> SegmentType]
      BY <3>1, FlushId DEF IInv, TypeOK
    <3> QED  BY <3>1, <3>2, <3>3 DEF Written
  <2>5. CASE Kill  BY <2>5 DEF Kill
  <2>6. CASE LoadAll \/ LoadAborts  BY <2>6 DEF LoadAll, LoadAborts
  <2>7. CASE UNCHANGED vars  BY <2>7 DEF vars, memory, disk
  <2> QED  BY <2>1, <2>2, <2>3, <2>4, <2>5, <2>6, <2>7 DEF Next, Flush
<1> QED  BY <1>1, <1>2, Invariance, PTL DEF Spec
=============================================================================
