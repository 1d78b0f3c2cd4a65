------------------------------ MODULE Segment ------------------------------
(***************************************************************************)
(* The bytes of a segment (storage/segment_manager.hpp): flush writes      *)
(* MAGIC, the columns, a footer, the footer's size and MAGIC again;        *)
(* load_segment starts from the end.  A crash or a full disk leaves any    *)
(* prefix of what flush writes.  Nothing in load_segment looks at the      *)
(* state of its stream, so a read behind the end, or after one, leaves the *)
(* zeros its target was initialised with, and a seek after one does        *)
(* nothing.                                                                *)
(*                                                                         *)
(* Storage takes from here that a segment is torn, a stub or whole, and    *)
(* what a whole one with columns of different lengths is read as.          *)
(***************************************************************************)
EXTENDS Integers, SequencesExt

CONSTANTS
  Base,   \* values of a byte: 256
  Word,   \* bytes of a uint32_t: 4
  Long,   \* bytes of a uint64_t, an int64_t and a double: 8
  MAGIC,  \* 0x464C5744, as the bytes of a uint32_t
  Tables  \* the tables that are written: the names, types and values of
          \* their columns.  An int64_t or a double is the bytes it has in
          \* memory, a string the bytes of its characters.

Bytes == 0 .. Base - 1

ASSUME SizesAssumption ==
  Base \in Nat /\ Base > 4 /\ Word \in Nat \ {0} /\ Long \in Nat \ {0}
ASSUME MagicAssumption == MAGIC \in [1 .. Word -> Bytes \ {0}]

\* DataType
STRING_ == 2
BOOLEAN_ == 3

\* what a cell of a column of a type may hold
ValueOf(type) ==
  CASE type = STRING_  -> Seq(Bytes)
    [] type = BOOLEAN_ -> BOOLEAN
    [] OTHER -> [1 .. Long -> Bytes]

\* the parser reads a column at least
ASSUME TablesAssumption ==
  \A t \in Tables :
    /\ t.types # << >>
    /\ t.names \in Seq(Seq(Bytes)) /\ t.types \in Seq(0 .. 3)
    /\ DOMAIN t.cols = DOMAIN t.types /\ DOMAIN t.names = DOMAIN t.types
    /\ \A c \in DOMAIN t.cols : t.cols[c] \in Seq(ValueOf(t.types[c]))

VARIABLES
  table,     \* the table that is written
  file,      \* segment.seg
  pos, fail, \* where the stream stands, and whether it has failed
  num_rows, num_cols, metas, \* the footer, as far as it has been read
  columns,   \* the columns, as far as they have been read
  pc         \* where load_segment stands

stream == <<pos, fail>>
footers == <<num_rows, num_cols, metas>>
vars == <<table, file, stream, footers, columns, pc>>

\* the bytes of the number n in memory, lowest first, and back
Rests(n, width) ==
  LET rest[i \in 0 .. width] == IF i = 0 THEN n ELSE rest[i - 1] \div Base
  IN rest
Put(n, width) == [i \in 1 .. width |-> Rests(n, width)[i - 1] % Base]
Num(bytes) == FoldRight(LAMBDA b, n : b + Base * n, bytes, 0)

----------------------------------------------------------------------------
(* flush *)

write_value(type, v) ==
  CASE type = STRING_  -> Put(Len(v), Word) \o v
    [] type = BOOLEAN_ -> <<IF v THEN 1 ELSE 0>>
    [] OTHER -> v

write_column(t, c) ==
  FlattenSeq([r \in DOMAIN t.cols[c] |-> write_value(t.types[c], t.cols[c][r])])

\* the columns' bytes, up to column c
Data(t, c) == FlattenSeq([d \in 1 .. c |-> write_column(t, d)])

\* Mutant of offset: the leading MAGIC is not counted.
offset_of_data(t, c) == Len(Data(t, c - 1))

\* tellp before column c is written
offset(t, c) == Word + Len(Data(t, c - 1))

\* Mutant of NameBytes: the whole name is written behind its short length.
NameWhole(name) == name

\* name_len has one byte
name_len(name) == Len(name) % Base
NameBytes(name) == SubSeq(name, 1, name_len(name))

Footer(t) ==
  Put(Len(t.cols[1]), Long) \o Put(Len(t.cols), Word)
  \o FlattenSeq([c \in DOMAIN t.cols |->
       <<name_len(t.names[c])>> \o NameBytes(t.names[c]) \o <<t.types[c]>>
       \o Put(offset(t, c), Long) \o Put(Len(write_column(t, c)), Long)])

flush(t) ==
  MAGIC \o Data(t, Len(t.cols)) \o Footer(t) \o Put(Len(Footer(t)), Word) \o MAGIC

\* What a segment counts fits its numbers: a file has fewer than 2^64 bytes, and
\* names and strings come from statements of fewer than 2^24.  No column is
\* longer than column 1 (NumRowsIsLongest of Storage).
Fits(n, width) == Rests(n, width)[width] = 0
ASSUME FitsAssumption ==
  \A t \in Tables :
    /\ Fits(Len(t.cols[1]), Long) /\ Fits(Len(t.cols), Word)
    /\ Fits(Len(flush(t)), Long) /\ Fits(Len(Footer(t)), Word)
    /\ \A c \in DOMAIN t.cols :
         /\ Len(t.cols[c]) <= Len(t.cols[1])
         /\ t.types[c] = STRING_ =>
              \A r \in DOMAIN t.cols[c] : Fits(Len(t.cols[c][r]), Word)

----------------------------------------------------------------------------
(* The stream of load_segment *)

\* n bytes, k behind where the stream stands at p
Read(p, failed, k, n) ==
  [i \in 1 .. n |-> IF ~failed /\ p + k + i \in DOMAIN file
                    THEN file[p + k + i] ELSE 0]
Got(k, n) == Read(pos, fail, k, n)

\* the stream after n bytes have been read
Skip(n) == pos' = pos + n /\ fail' = (fail \/ pos + n > Len(file))

Seek(p) ==
  IF fail THEN UNCHANGED stream ELSE pos' = p /\ fail' = (p < 0)

Init ==
  /\ table \in Tables
  /\ file = << >> /\ pos = 0 /\ fail = FALSE
  /\ num_rows = 0 /\ num_cols = 0 /\ metas = << >> /\ columns = << >>
  /\ pc = "flush"

\* what is left of the file that flush writes
Flush ==
  /\ pc = "flush"
  /\ \E n \in 0 .. Len(flush(table)) : file' = SubSeq(flush(table), 1, n)
  /\ pc' = "magic"
  /\ UNCHANGED <<table, stream, footers, columns>>

\* Mutant of magic: it is read from the start of the file.
magic_first == Read(0, FALSE, 0, Word)

\* the last bytes; a file that is shorter has none of them
magic == Read(Len(file) - Word, Len(file) < Word, 0, Word)

CheckMagic ==
  /\ pc = "magic"
  /\ pc' = IF magic = MAGIC THEN "footer" ELSE "threw"
  /\ UNCHANGED <<table, file, stream, footers, columns>>

\* the footer's size, and the two numbers it begins with
ReadFooter ==
  /\ pc = "footer"
  /\ LET sizeAt == Len(file) - 2 * Word
         footer_size == Num(Read(sizeAt, sizeAt < 0, 0, Word))
         start == sizeAt - footer_size
         failed == sizeAt < 0 \/ start < 0
     IN /\ num_rows' = Num(Read(start, failed, 0, Long))
        /\ num_cols' = Num(Read(start, failed, Long, Word))
        /\ pos' = start + Long + Word
        /\ fail' = (failed \/ pos' > Len(file))
  /\ pc' = "metas"
  /\ UNCHANGED <<table, file, metas, columns>>

ReadMeta ==
  /\ pc = "metas" /\ Len(metas) < num_cols
  /\ LET n == Num(Got(0, 1))
     IN /\ metas' = Append(metas,
             [name |-> Got(1, n), type |-> Num(Got(1 + n, 1)),
              offset |-> Num(Got(2 + n, Long)),
              size |-> Num(Got(2 + n + Long, Long))])
        /\ Skip(2 + n + 2 * Long)
  /\ UNCHANGED <<table, file, num_rows, num_cols, columns, pc>>

\* the next column, which is read from its offset on
SeekColumn ==
  /\ pc \in {"metas", "columns"}
  /\ Len(metas) = num_cols /\ Len(columns) < num_cols
  /\ columns # << >> => Len(Last(columns)) = num_rows
  /\ Seek(metas[Len(columns) + 1].offset)
  /\ columns' = Append(columns, << >>)
  /\ pc' = "columns"
  /\ UNCHANGED <<table, file, footers>>

\* read_column's loop.  A type no DataType has leaves the variant of a Column
\* with its first alternative, the integers.
ReadValue ==
  /\ pc = "columns" /\ Len(Last(columns)) < num_rows
  /\ LET type == metas[Len(columns)].type
         len == Num(Got(0, Word))
         value == CASE type = STRING_  -> Got(Word, len)
                    [] type = BOOLEAN_ -> Got(0, 1) # <<0>>
                    [] OTHER -> Got(0, Long)
     IN /\ columns' = [columns EXCEPT ![Len(columns)] = Append(@, value)]
        /\ Skip(CASE type = STRING_  -> Word + len
                  [] type = BOOLEAN_ -> 1
                  [] OTHER -> Long)
  /\ UNCHANGED <<table, file, footers, pc>>

Return ==
  /\ pc \in {"metas", "columns"}
  /\ Len(metas) = num_cols /\ Len(columns) = num_cols
  /\ columns # << >> => Len(Last(columns)) = num_rows
  /\ pc' = "loaded"
  /\ UNCHANGED <<table, file, stream, footers, columns>>

Load == CheckMagic \/ ReadFooter \/ ReadMeta \/ SeekColumn \/ ReadValue \/ Return

Next == Flush \/ Load

Spec == Init /\ [][Next]_vars

----------------------------------------------------------------------------
(* Properties *)

Whole == pc # "flush" /\ file = flush(table)
Loaded == pc = "loaded"
Short(c) == Len(table.cols[c]) < Len(table.cols[1])

\* MAGIC among the bytes of the columns or of the footer
Stray(bytes) ==
  \E i \in 1 .. Len(bytes) - Word - 1 : SubSeq(bytes, i + 1, i + Word) = MAGIC

\* A segment that was not written to its end is refused, or it is the stub
\* that has only got its first MAGIC and is loaded as a table without columns.
\* Of a table that has the bytes of MAGIC in a value or in its footer this says
\* nothing: a cut right behind them would be taken for the end.
LoadsOnlyWhole ==
  Loaded => \/ Whole
            \/ file = MAGIC /\ metas = << >> /\ columns = << >>
            \/ Stray(flush(table))

\* A whole segment comes back as the table it was written from: its columns,
\* with names cut to what one byte can count, and of every column the values
\* it has, each in its place, as far as the first column that is shorter than
\* column 1.  All columns are then as long as column 1.
ComesBack ==
  Loaded /\ Whole =>
    /\ [c \in DOMAIN metas |-> metas[c].type] = table.types
    /\ \A c \in DOMAIN metas :
         LET name == table.names[c]
         IN /\ IsPrefix(metas[c].name, name)
            /\ Len(name) < Base => metas[c].name = name
    /\ \A c \in DOMAIN table.cols :
         /\ Len(columns[c]) = Len(table.cols[1])
         /\ ~(\E d \in 1 .. c - 1 : Short(d)) => IsPrefix(table.cols[c], columns[c])

\* A segment of columns of one length is read without a failure, and what is
\* read of a column are the bytes its offset and size say.
InExtent ==
  Whole /\ columns # << >> /\ (\A c \in DOMAIN table.cols : ~Short(c)) =>
    LET meta == metas[Len(columns)]
    IN ~fail /\ (Len(Last(columns)) = num_rows => pos = meta.offset + meta.size)
=============================================================================
