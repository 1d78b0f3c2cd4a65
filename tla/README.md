# A TLA+ model of felwood

felwood is a small columnar SQL engine: it speaks the MySQL wire protocol, keeps
its tables in memory, rewrites a table's segment file after every change, and
runs SELECTs through a pull pipeline of operators over batches of 1024 rows.
These modules model it from the bytes on the socket to the bytes in the files. TLC
checks them on small instances, and TLAPS proves for every instance what the storage
engine, the segment's tail, the query pipeline, the session with its packets, the
parser's cursor and the unlocked threads keep to.

Paths are relative to the repository (`src/storage/...`); `PROJECT.json` names the
lines of code behind every definition.

## 1. The system

| Component | State | Operations | Works with |
|---|---|---|---|
| Table, Column (`src/storage/table.hpp`, `src/common/column.hpp`) | schema, one vector per column | `append_row`, `num_rows`, `get_column` | Catalog, operators |
| Catalog (`src/storage/catalog.hpp`) | `tables_`: name to Table | load, `create_table`, `insert_row`, `get_table`, `all` | SegmentManager, Planner, server |
| SegmentManager (`src/storage/segment_manager.hpp`) | `name_to_id_`, `next_id_`; files `catalog.dat`, `<id>/segment.seg` | `assign_id`, `save_catalog`, `load_catalog`, `flush`, `load_segment`, `load_all` | the file system |
| Operators (`src/operators/`) | cursor of the scan, hash table and order of groups, collected chunks | `open`, `next`, `close` | pulled by each other and by `drain` |
| Planner (`src/sql/planner.hpp`) | none | one `execute` per statement kind; builds scan, filter, aggregate, sort | Catalog, operators |
| Lexer, Parser, AST (`src/sql/`) | a position in the source, a cursor over tokens, the statement so far | `tokenize`, `parse` | `dispatch_query`, Planner |
| Server (`src/server/mysql_server.hpp`) | one detached thread per connection, sequence number | `run`, `handle_connection`, `dispatch_query`, `drain`, `merge` | everything above |
| Wire protocol (`src/server/mysql_proto.hpp`) | none | `send_raw`, `recv_packet`, the packets of a reply, `send_result_set` | sockets |

What is hard about it:

* **Files are rewritten in place.** `std::ofstream` truncates a file when it opens
  it and nothing is renamed. A process that is killed in between leaves a torn file,
  and the two kinds of file are read back with different tolerance: a torn segment
  stops the whole server, a torn `catalog.dat` is read without complaint, and a file
  that cannot be opened for reading is taken for one that is not there. No stream
  state is looked at, when writing or when reading.
* **Statements fail half-way.** A row is appended one column at a time and the
  first value of a wrong type throws; a flush throws after memory has changed; a
  failed write is not noticed at all.
* **Nothing is locked.** Every connection has a thread, and all threads share one
  Catalog, its Tables and its SegmentManager.
* **Answers are put together from batches.** The filter drops empty batches,
  groups are made across batches, and the sort merges them; the exceptions
  operators raise depend on which rows reach them.
* **Packets are told apart by their first byte,** sequence numbers wrap, sockets take
  and return any part of what they are asked for, and a client may send on, or leave,
  in the middle of a reply.
* **The parser takes what it can.** Nothing checks that a statement ends where it
  stops, and it moves its cursor past the END token in places.

What makes each component correct:

* Storage: tables have identities of their own on disk; what was acknowledged is
  in memory and on disk; a restart brings it back; OK is sent for nothing less.
* Segments: what `load_segment` reads is what `flush` wrote, or it throws.
* Queries: the answer, or the error, is a function of the statement and the table
  and not of how rows fall into batches; every SELECT ends.
* Front end: the tokens are the source, the statement is what the grammar says of
  the tokens, and an error comes where no statement could go on.
* Wire and session: packets arrive whole and in order; the client can always tell
  what it is reading, and is told of each command, in order, what it came to.
* Threads: no two threads touch one object at the same time with one of them
  writing; what is stored and returned consists of whole rows.

The full list of hazards, with lines and the properties that cover them, is in
`PROJECT.json` under `hazards`.

## 2. The modules

How they fit: `Sql` composes `Lexer` and `Parser` and compares them with
`SqlGrammar`; `Session` sends packets over two instances of `Channel` and implements
`Service`; `Wire` implements `Channel` with bytes. A statement is an outcome to
`Session`; what it does is modelled by `Storage` (CREATE, INSERT, restarts), by `Query`
(SELECT) and, for several connections, by `Connections`. `Storage` sees of a
segment what `Segment` says that `load_segment` makes of its bytes. Modules named
`MC...` have the instances for TLC, modules named `...Proofs` the theorems, and
`DataLemmas.tla` what these need of sums, flattened sequences, ranks, orders and lists.

### Storage

`Storage.tla` models Catalog, Table and SegmentManager under the statements of one
connection at a time. Three kinds of state correspond to the code: memory
(`tables_`, `name_to_id_`, `next_id_`), files (`catalog_dat`, `segment_seg`) and the
running statement (`pc`, `cur`, `reply`).

| Code | Actions |
|---|---|
| `create_table` up to the opening of `catalog.dat` | `CreateTable`, `CreateExisting` |
| `save_catalog` | `SaveOpen`, `SaveClose`; `SaveOpenFails`, `SaveCloseShort` |
| `insert_row` with `append_row` | `InsertRow`, `InsertMistyped`, `InsertRefused` |
| `flush` | `FlushOpen`, `FlushClose`; `FlushOpenFails`, `FlushCloseShort` |
| end of the process at any point | `Kill` |
| the constructor: `load_catalog`, `load_all` | `LoadAll`, `LoadAborts` |

A file is seen through what the loader makes of it. A segment is absent, torn (it
does not end in MAGIC: loading throws), a stub (only its leading MAGIC got there,
which loads as a table without columns) or whole. A `catalog.dat` is the map and the
counter that `load_catalog` reads from it; `CutCatalogs` is everything it can read from
one that was cut short: nothing, the entries before the cut, and perhaps one name
cut short, which comes back padded with NULs (`Scraps`: names no statement can
spell). A closed file survives `Kill`: the crashes here are those of the process,
not of the machine. Two bounds make this exact: ids fit one byte (`MaxId` at most
254), so that a number cut short comes back as nothing or as itself, and names are
shorter than 256 characters.

A row is one value that is pushed into every column, so a cell tells which row it
belongs to. `InsertMistyped` picks the column whose value has the wrong type. A column
that is shorter than column 1 is read into the bytes behind it (`ReadUpTo`): what comes
is `Garbage`, and the stream may have failed by then (`FailsAt`), after which every later
column is read as zeros. `Faults` says which file errors may happen: files that
cannot be opened, and writes that do not fit.

A start that cannot open a file does not fail. `load_catalog` returns with no names and
ids from 1 on (`LoadedCatalogs`), `load_segment` with no table (`Unopened`, `LoadedTable`),
and the server runs without tables that are whole on disk. So three ghosts keep what
clients were promised:

* `acked` is what they were last told of each table, by an OK or, where the files could be
  read, by what was there at the start. It follows that a restart can only break
  `AckedInMemory` or `AckedOnDisk` by moving or losing what it has itself read; that it reads
  what was acknowledged is for `RestartKeepsAcked` to say, which looks at both sides of
  the start.
* `unread` is the tables whose files this process could not open. `acked` keeps what clients
  were told of them; `AckedInMemory` exempts them, as nothing can be said of a server that
  has not read them, but `AckedOnDisk` does not.
* `cut` says that `catalog.dat` has been cut short since it was loaded.

The loss is real and the model has it: a CREATE in a server that could not read some
files empties `catalog.dat` and writes it without the names it does not know, gives the
ids from 1 on out again if it was `catalog.dat` that could not be opened, and puts a new table
in the place of an unread one of the same name. `SaveOpen` then withdraws what was
acknowledged of just those tables (`Orphaned`), and no property claims more for them. If such
a CREATE is killed before its flush, the new table may even show the old segment of its id.

### Segment

`Segment.tla` has the bytes of one `segment.seg`: `flush` writes them, any prefix of them
is left, and `load_segment` reads the last four bytes, the footer and the columns, over a
stream with its position and its fail bit. Bytes have `Base` values, `uint32_t` has
`Word` bytes and the eight-byte types have `Long`; a number is written byte by byte, the
lowest first, and what does not fit is lost (`Put`). It shows what Storage takes from it:
which prefixes are refused, and what short columns are read as.

### Query

`Query.tla` models one SELECT from the planner to the merged chunk that is sent. One
step is one `next()` of one operator: the scan cuts a batch, the filter compacts or
drops it, the aggregation or the collecting loop of sort and `drain` takes it; at the
end groups are produced, sorted and merged. Every exception is an action
(`FilterThrows`, `AccumulateThrows`, `SortThrowsUp`, and the failing branch of `Open`).

What the planner hands to the operators it builds, `project_cols_` and `agg_specs_`, is
computed once and kept (`plan`), as in the code. `BatchSize` stands for `BATCH_SIZE`.
Strings are numbers under a STRING tag, with the order of the numbers; doubles are exact,
multiples of one unit in the table and fractions where they are averages, so rounding and
the loss of precision from INT64 to double are abstracted from. `std::stable_sort` is
external: it is described by how many rows come before each (`Comes`). Which pairs it compares is left open, except
that it has to compare rows that end up next to each other, which decides when a
missing ORDER BY column is noticed (`SortThrows`).

`QueryAnswer.tla` defines the answer without batches, hash table or order of
evaluation (`UnorderedAnswer`, `IsStableOrder`, `Fails`) and states that the pipeline
computes it. What it takes from the code is the columns of an answer without GROUP BY:
those the scan reads (`project_cols`), under their own names, so that the columns that WHERE
names come with it and the AS of a plain column is without effect, although
`docs/impl/sql.md` calls the alias the output name. Of a statement with an aggregate and no
GROUP BY, which the code answers with the plain rows, `AnswerIsWhole` and
`AnswerIsOrdered` say nothing (`Answerable`); that such a statement should be answered with
its aggregates is `AggregatesAreAnswered`, which does not hold. A GROUP BY column that is no
string is an error in the code, and here, though `docs/challenges/06-limits.md` groups by numbers.

### Lexer, Numbers, Parser, Splitting, SqlGrammar, Sql

`Lexer.tla` is the loop of `tokenize`, a token per step. Letters, digits, white space,
`toupper` and the keywords are constants, so that TLC can do with keywords of one or two
letters. The literal of a token is the text its value is computed from. Which numbers
`std::stoll` and `std::stod` throw for is in `Numbers.tla`: an integer whose value is above
`MaxInt` (9223372036854775807 in the code, 100 in the runs), however many digits it has, and
a double that is one of `NoDoubles`.

`Parser.tla` is the cursor with `expect`, `consume`, `match` and `peek`. The parser's
methods do not recurse, so where it stands is a label, and each method is a table: the
token types it asks for at a label, and where it goes on with and without them.
`expect` throws with the cursor on the token, `consume` behind it, END included. `stmt`
is the statement as far as it has been read.

`SqlGrammar.tla` says without cursor or loop what a statement is (`IsStmt`), what it
means (`Meaning`), and which characters belong to no token (`Misplaced`): the tokens of the
code, without a sign or an exponent, which the documentation uses
(`DocumentedRowsAreStored`). It does so by
what stands between the words that clauses begin with and, with `Splitting.tla`, between
separators. `Sql.tla` runs lexer and parser one after the other, as `dispatch_query` does, and states that
they agree with it.

### Wire and Channel

`Wire.tla` is one direction of a connection: `send_raw` puts a header of three bytes of
length and one of sequence number in front of a payload; `send()` takes any part of the
header, then of the payload; `recv()` returns any part of what has arrived. Either end
may close at any byte, the connection may be lost, and both loops throw then.
`Channel.tla` is what both ends think of it: a sequence of packets.

### Session and Service

`Session.tla` is `handle_connection` with `dispatch_query`, and a client (external) that
reads replies as the MySQL protocol says, may pipeline commands, and may leave at any
time.

| Code | Actions |
|---|---|
| `run`, the greeting | `Accept`, `SendRaw` |
| `recv_packet` for authentication and commands | `RecvAuth`, `RecvCommand`, `RecvFails` |
| `dispatch_query`: SET, USE, SELECT 1, variables, SHOW, statements; OK to other commands | `Dispatch` |
| `send_result_set`, OK, ERR, one packet after the other | `SendRaw`, `SendFails` |
| a client | `ClientReads`, `Authenticate`, `Ask`, `Leave` |

A payload is its first byte, its size and the number in front of it: what a client tells
packets apart by. `OneByte`, `TwoBytes` and `ThreeBytes` are where `write_lenenc_int`
changes its form (251, 2^16 and 2^24). `in_try` says whether an exception of `send` falls to the catch clause
that answers it with an ERR packet. `Service.tla` is the promise: commands are
carried out in order, at most once, and the client is told the outcomes in order.

### Connections

`Connections.tla` models several threads on one catalog. A statement is cut at every
access to an object or file that another thread may use: `next_id_++` is a read and a
write, `append_row` one step per column, `flush` an opening, one step per column, the
footer and the closing, a scan the count and one step per column, SHOW TABLES a walk
through the map and its answer. Two accesses to one container at the same time are
undefined behaviour in C++: `RaceFree` says where they can meet (`Reads` and `Writes`
are the footprint of a thread's next step). Beyond that point the module goes on with
the mildest outcome, every container operation being atomic, so the violations it finds
are the least that can happen.

What clients do is described by constants, as nothing in the server enforces it:
`Home`, the connections a table is used from, and `AloneToCreate`, that tables are
created only while nothing else runs. Without that discipline `RaceFree` fails: two
CREATEs of one name may both be answered OK, a scan may read past the end of a column
that is being appended to, and two INSERTs pair values of different rows (the run
`ConnectionsWriters`). Crashes, file errors and refused rows belong to Storage and are
left out here.

## 3. The runs

| Run | Shows | Bounds |
|---|---|---|
| `StorageTables` | `TypeOK`, `TableIdentity`, `NumRowsIsLongest`, `AckedInMemory`, `AckedOnDisk`, `OkMeansWritten`, `RestartKeepsAcked` with kills, failing opens and short writes anywhere | 2 names (symmetric) and a scrap, 3 columns, 2 ids, 2 rows |
| `SegmentBytes` | `LoadsOnlyWhole`, `ComesBack`, `InExtent` for every prefix of every file | bytes of 8 values, numbers of 2 and 3 bytes, up to 3 columns of every type, up to 2 rows, equally long or not, names at and over what one byte counts, strings that hold MAGIC |
| `QueryAnswers` | `TypeOK`, `AnswerIsWhole`, `AnswerIsOrdered`, `ErrorsAreWhole`, `NoRowInBetween`, `Terminates` | batches of 2, every table of up to 3 rows over 3 row values and of 4 rows over 2, over 600 statements |
| `SqlParses` | `TokensAreTheSource`, `TokensAreLongest`, `LexerErrors`, `PeekInBounds`, `StmtIsWritten`, `ThrowsAtFirstWrong`, `Terminates` | 6 sentences of all statement kinds with every edit of one character, and all sources of up to 4 of 10 characters |
| `WireDelivers` | `Framed`, `IsChannel`, `AllArrives` | bytes of 2 values, 2 packets, payloads of 0, 1, 3 and 5 bytes |
| `ServerReplies` | `InStep`, `WritesAreTold`, `IsService`, `AllAnswered`, `ThreadEnds` | 2 commands of 10 kinds, results of up to 3 rows and 2 columns, sequence numbers modulo 4, 4 packets in flight |
| `ConnectionsApart` | `TypeOK`, `RaceFree`, `QuietIsDurable`, `ReadsAcked` for clients that keep apart | 2 connections with a table each, 3 rows, 2 reads |

Why the bounds are enough: two ids let one be wasted by a failed CREATE and a table be
created after it, a table be lost and created again, and, after a `catalog.dat` that could not
be read, both ids be given out a second time over the old segments; two rows let a
mistyped row stand before a good one, whose values then lie in two row numbers, or behind
one; three columns give a short column one in front of it and one behind. Nothing tells the
two names apart (`MCSymmetry`), and every property is of all names.
Four rows in batches of two give an empty table, a short batch, an exact batch, a full
and a short one, and two full ones, with every way a filter can empty the first, the last
or both. An edit of one character in a sentence reaches every branch of the lexer and a
wrong token at every place of the parser. A payload of five bytes takes the third digit of a
length in base 2, and two packets let the bytes of one be taken for the other's.
Sequence numbers modulo 4 wrap within one reply. Two threads are enough for every race
of a pair of accesses.

Five runs end in a violation, each of something the documentation says:

| Run | The sentence | What happens |
|---|---|---|
| `StorageCrash` | "a crash mid-flush loses at most one row" | the segment is truncated first: all rows are lost, and the next start fails |
| `StorageRagged` | "Verify that data survives process restart" | a mistyped INSERT leaves a short column; it is read past its end, the stream fails, and the columns behind come back as zeros |
| `ConnectionsWriters` | "No partial/corrupt rows" | two INSERTs interleave and the segment pairs values of different rows |
| `SqlLiterals` | the INSERTs of 9223372036854775807 and 1.7976931348623157e+308, of -9223372036854775808 and 5e-324, and of 1 into a BOOLEAN column | the lexer throws at the + of the first and the -s of the second, and no literal has a value that a BOOLEAN column takes; the run stops at the second, and fails for each of the three alone |
| `QueryAggregates` | `SELECT ... AGG(col) [AS alias] ... [GROUP BY col]`, "SELECT COUNT" | without GROUP BY the aggregates are dropped and the rows come back under the names of their columns |

Fairness is assumed where a loop of one thread goes on by itself. `Query` and `Sql`:
`WF(Next)`, as a statement runs in one thread that waits for nobody. `Wire`: `WF(Sends)`
and `WF(Recvs)`, as the loops of `send_raw` and `recv_packet` go on as long as `send()` and
`recv()` return; nothing makes a caller send. `Session`: `WF(Server)` for the thread, and
`WF(ClientReads)` and `WF(Authenticate)` for a client that reads what it is sent; it
need not ask for anything and may leave. Storage, Segment and Connections claim safety
only. Runs in which every statement ends, or bounds run out, do not ask for a next step;
`StorageTables` does: whatever happened, the server can be killed and started again.

Two refinements are checked: `Wire` implements `Channel`, with the packets of
`send_raw` and `recv_packet` for its variables, and `Session` implements `Service`, with
the commands on the channel for what was asked.

Every property of a passing run comes with a mutant in `PROJECT.json`: a definition that
is changed the way a bug would change it (the newest row not written, a batch that starts
one row late, an offset without the leading MAGIC, a short send given up, a statement run
again when its reply cannot be sent), under which TLC finds the property violated.

## 4. What is proved

`StorageProofs.tla`, for every number of names, scraps, columns, values, ids (up to
254) and rows, and for any set of faults:

| Theorem | Property |
|---|---|
| `TypeCorrect` | `TypeOK` |
| `IdentityIsSafe` | `TableIdentity`: no two tables share an id, even after a start from a cut `catalog.dat` |
| `NumRowsIsSafe` | `NumRowsIsLongest`: column 1 counts every row |
| `AckedStaysInMemory` | `AckedInMemory` |
| `AckedIsSafe` | `AckedOnDisk`: of tables that could not be read, too |
| `RestartIsSafe` | `RestartKeepsAcked`, an action property: as far as the first short column, unless a file could not be opened, and then the table is left to a later start |
| `OkIsSafe` | `OkMeansWritten` |

The assumptions are the four named ones of `Storage.tla`. The argument is an inductive
invariant `IInv`. None of the properties is inductive alone: that a flush keeps
acknowledged rows on disk needs that memory covers them (`AckedInMemory`) and that the
segment it rewrites is the one its name leads to (`TableIdentity`); that saving
`catalog.dat` restores the way to every acknowledged table, after it was emptied, needs
that memory maps the name to a segment that holds the rows (`AckedMapped`); and each step
of a statement relies on what the steps before it have established (`InProgress`).
There is a lemma for each operator that writes or reads columns (append, write, pad,
load, cut), and one for each action. `OkIsSafe` adds its property to `IInv`.

`ConnectionsProofs.tla`, for every number of connections, tables, columns and rows:

| Theorem | Property |
|---|---|
| `TypeHolds` | `TypeOK`: also, no thread works on a table that is not there |
| `NoRaces` | `RaceFree` |
| `Durable` | `QuietIsDurable` |
| `ReadsHold` | `ReadsAcked` |

They assume, besides the named assumptions of `Connections.tla`, the `Discipline` of the
clients: every table is used from at most one connection, and a CREATE runs while
nothing else does. `ConnectionsApart` is an instance that keeps to it, so it is not
empty; without it the properties are false. The invariant says what a thread may rely
on between its steps (`NewTable`, `Working`): the table it works on is there, what it
has copied is still what is there, the segment it has truncated is still empty. A step of
another thread keeps that because no two threads at work use one table (`Ours`), no two
tables share an id (`Identity`), and a CREATE is alone (`Lone`); a table that nobody is
changing is equal to its segment (`Contents`).

`WireProofs.tla`, for every size of a byte, all payloads whose length fits the header and
every way of cutting the bytes: `FramedIsSafe` (`Framed`, which is inductive as it stands)
and `WireIsChannel` (`IsChannel`: every step of the bytes is a step of the channel or
none). The arithmetic behind both is that the three digits of a length give it back.

`SqlProofs.tla`, for every source, alphabet and set of keywords:

| Theorem | Property |
|---|---|
| `CursorIsSafe` | `PeekInBounds`: the parser never looks behind the tokens |
| `ThrowsForMisplaced` | `LexerErrors`: the lexer throws for just the sources with a misplaced character, or a number whose value is out of range |
| `NothingLostOrMadeUp` | `TokensAreTheSource` |
| `LongestTokens` | `TokensAreLongest` |
| `ThrowsFirst` | `ThrowsAtFirstWrong`: the parser throws at the first wrong token, and only there |
| `StatementIsWritten` | `StmtIsWritten`: the statement that is built is the one the grammar reads |

For the first: the tokens end with END, no method goes on with END, and one that takes END
without having looked at it throws. The others assume that no character is of two kinds
(`CharactersAssumption`) and that no keyword has the type of another token
(`KeywordsAssumption`). The grammar says of a character what it is from all that is in
front of it (how many quotes, whether a word or a number goes on), while the lexer knows only
where it stands. What joins the two (`LexInv`) is that every round of the loop starts at
a `Boundary`, outside of strings, words and numbers, and that no character before it is
misplaced (`Clean`). For the texts (`TextInv`) the invariant counts places: the texts of the first
tokens are as long as there are solid places up to where the last of them ended, plus one if
that is a string which the source leaves open, and each solid place has its character at its
number. A round covers the places it reads, and the next character would not have gone on it.

The last two compare a table of token tests with a grammar of whole sequences. The parser
sees one token at a time, the grammar splits what is between two words of a SELECT,
wherever they are, and so the invariants say of a sentence that is only begun what the
grammar says of a whole one:

* `ParseInv`: at each label what has been read is what the label stands for (`State`): the
  first words of a statement, or clauses that are complete and a list that `IsOpen`,
  its last piece begun by just the types that `ItemOpen`, `ConditionOpen` and the like name
  there. A token that is asked for leads to such a state of the next label (`StateRead`), and
  so does going on without one (`StateGoesOn`).
* For throwing too late or too early there are two more facts. From every label a
  fixed ending makes a statement of what has been read (`AllOpen`), so no token before
  was wrong. And the token ahead, if any method has passed it over, is one that no statement
  goes on with there (`Sound`): whatever may follow in the grammar is accepted, at this
  label or at one reached from it without taking a token (`FreshFollow`).
* `BuildInv`: `stmt` is what the tokens in front of the cursor say (`Said`): the rows that the
  pieces of each list make, the last one as far as it goes (`PieceRows`). Every token
  changes `Said` as it changes `stmt` (`Tells`), which needs that a word changes no
  clause but its own, and that no word of a SELECT is in a CREATE or INSERT (`Quiet`). Of a
  statement that is complete, `Said` is `Meaning` (`StmtMeans`).

Neither property is inductive. What the pieces of a sequence are, and how they go on when a
token is appended, is in `DataLemmas.tla`, for any sequence, separator
and shapes.

`SessionProofs.tla`, for all commands, results and names, any sequence modulus above 1
and any bounds of the length-encoded integers with `OneByte` at most 251:

| Theorem | Property |
|---|---|
| `ClientInStep` | `InStep`: the client is never confused |
| `WritesTold` | `WritesAreTold` |
| `SessionIsService` | `IsService`: a session implements `Service` |
| `SessionUsesChannels` | every step is one of the two `Channel`s or leaves them alone |

The invariant lays the replies out one behind the other: there are places `start[k]`, which
the specification does not keep, such that what has been sent is what the replies have at
these places (`Laid`), what the server still has to send is the rest of the last reply
(`Serving`), and the client, which has read so many packets, is at the packet that what
it waits for stands for (`Reading`). The client never looks at the replies, so it has to
be shown that of the packets that can come at its place, each is told from the others by
its first byte and its size; that is where the bounds of the length-encoded integers and
results with at least one column are needed. The invariant does not mention the channels'
windows. As `Session` uses its channels as `Channel` says and `Wire` implements that, the
session's properties rest on the bytes only through `Channel`.

`SegmentProofs.tla`, for every table and all sizes of bytes and numbers:

| Theorem | Property |
|---|---|
| `OnlyWholeIsLoaded` | `LoadsOnlyWhole`: of the cut files only the stub is taken, if no value or footer has the bytes of MAGIC |
| `WholeComesBack` | `ComesBack`: a whole file is read as the table it was written from |
| `ReadsItsExtent` | `InExtent`: of each column exactly the bytes its offset and size say |

A file that is cut ends in MAGIC only if the cut is behind the leading MAGIC, or MAGIC is
among the bytes in front of it. For the first, the argument follows `load_segment` over the
four bytes: the footer is then looked for in front of the file, the stream fails, and
everything comes back as zero.

For a whole file the proof has three layers. A number that fits its width is read back as it
was written (`NumPut`; the fold over the bytes undoes the repeated division). Each piece of
what `flush` writes lies in the file where it belongs (`Lies`): the columns behind MAGIC at
their offsets, the values of a column one behind the other, the footer's entries behind its
two counts. Each read of `load_segment` then takes the piece at which the stream stands
(`FooterRead`, `MetaRead`, `ValueRead`). The invariant (`Known`) says which piece that is: the
next entry of the footer, or the next value of the column. It says it of a column only as far
as no column before it is short, and as far as the column itself goes: `num_rows` is that of
column 1, so a short column is read on into the bytes of the next, and possibly past the end,
and after a failure of the stream every later seek is void. What is lost is just
what `ComesBack` does not promise. Besides the sizes, the theorems assume
(`FitsAssumption`) that what is counted fits its number and that no column is longer than column 1; the
latter is `NumRowsIsLongest`, proved of Storage.

`QueryProofs.tla`, for every schema, table, statement and batch size:

| Theorem | Property |
|---|---|
| `ErrorsOfTheTable` | `ErrorsAreWhole`: a SELECT fails exactly if the table as a whole says so |
| `AnswerOfTheTable` | `AnswerIsWhole`, for statements that are `Answerable` |
| `RowsAreAccountedFor` | `NoRowInBetween` |
| `AnswerIsSorted` | `AnswerIsOrdered` |
| `ChunksAreTyped` | `TypeOK` |

They assume the named assumptions of `Query.tla`: at least one row to a batch, cells of
the type of their column, statements as the parser builds them. The invariant relates
what the operators hold to the passing rows of the table up to a row number (`Upto`):
collected chunks are these rows in their order, the hash table has for each of their keys
the aggregates over the rows with that key, and the order of groups is that of the first of them;
in front of the consumer the chunk in hand has the passing rows that the cursor has gone over
and the consumer has not had yet. None of the five properties is inductive: a chunk may
be partly accumulated, and that a batch without passing rows may be dropped, or that a
condition can throw only if it throws for the table, needs all of this. `AnswerIsSorted`
adds that comparing keys in turn is a strict weak order (`LexIsOrder`), that ties are broken by
position, and that a finite set in a total order is listed by how many come before each.

`DataLemmas.tla` has what these need about data: how the pieces of a sequence go on when an
element is appended, the sum of a function grows by what is added, flattening a longer
sequence appends, what lies in a file as a flattened sequence lies there element by element,
a set of numbers has a least element, a finite strict total order ranks its elements from 0
on, and the lexicographic combination of weak orders is one. Induction is by the least
counterexample: a set of naturals that is not empty has a least member, so a claim that is
kept from each number to the next cannot fail first anywhere. That needs no operator as a
parameter, and brings folds over finite data (`SumFunction`, `FlattenSeq`) within reach of
the provers.

Every invariant that a passing run checks is stated by a theorem. Only model-checked are the
liveness properties (`Terminates`, `AllArrives`, `AllAnswered`, `ThreadEnds`): fairness
and ENABLED are out of the prover's reach.

## 5. What is not modelled

* `value_to_string` and `type_name` (formatting: doubles are sent with six digits), the
  entry point, and the ImHex pattern, which nothing executes.
* Floating point: rounding, INT64 values a double cannot hold, and which numbers exactly
  `std::stod` throws for (`NoDoubles` is any set).
* Packets of 16 MB and more: `Wire` assumes payloads whose length fits three bytes, which
  `make_text_row` does not see to.
* Values that hold the bytes of MAGIC, in Storage: `Segment` has them, and shows that a
  file cut behind them is taken for whole.
* Loss of closed files by a crash of the machine (nothing calls fsync), memory that runs
  out, and connections of which one end never learns that the other is gone.
* The text of column definitions and error messages.
* The in-memory catalog without a SegmentManager, which `main.cpp` does not use.

## 6. Plan

1. Done: Storage, Segment, Query with its answer, Connections, the front end with its
   grammar, Wire, Channel, Session and Service; proofs of Storage, Connections, Wire,
   Session, Query, Segment, the lexer and the parser.
2. `Durable`: the table store that clients may rely on (a map from names to rows,
   changed by whole statements), implemented by Storage under a refinement mapping when
   there are no faults and no kill falls between an opening and a closing.
