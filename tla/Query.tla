------------------------------- MODULE Query -------------------------------
(***************************************************************************)
(* One SELECT from Planner::execute (sql/planner.hpp) to the merged chunk  *)
(* that dispatch_query sends (server/mysql_server.hpp), through the pull   *)
(* pipeline of operators/: scan, filter, aggregate, sort.  One step is one *)
(* next() of one operator: a batch of at most BatchSize rows is pulled out *)
(* of the table, travels up to the operator that consumes it, and the next *)
(* one is pulled.  Any operator may throw, depending on the rows it meets. *)
(*                                                                         *)
(* A chunk holds its rows as a sequence of rows.  All columns of the table *)
(* have one length here; Storage says when that is so.  Doubles are        *)
(* fractions: rounding is abstracted from.                                 *)
(***************************************************************************)
EXTENDS Integers, Sequences, FiniteSets, SequencesExt

CONSTANTS
  BatchSize,  \* BATCH_SIZE, 1024 in the code
  Schema,     \* the columns of the table: a sequence of [name, type]
  Tables,     \* the contents a table may have: sequences of rows
  Stmts,      \* the SELECT statements
  DblMax      \* bound: above every number, as numeric_limits<double>::max()

ASSUME BatchAssumption == BatchSize \in Nat \ {0}
ASSUME DblMaxAssumption == DblMax \in Nat

VARIABLES
  table_,        \* the rows of the table that is scanned
  stmt,          \* SelectStmt: star, items, where, group_by, order_by
  project_cols_, \* ScanOperator::project_cols_
  agg_specs_,    \* AggregateOperator::agg_specs_
  pc,            \* which next() runs, or "done", "error"
  projected_,    \* ScanOperator::projected_indices_
  current_row_,  \* ScanOperator::current_row_
  chunk,         \* the chunk that is on its way up
  hash_table_,   \* AggregateOperator::hash_table_: key -> AggStates
  group_order_,  \* AggregateOperator::group_order_
  chunks,        \* the chunks SortOperator::next or drain has collected
  result         \* what drain returns

plan == <<stmt, project_cols_, agg_specs_>>
vars == <<table_, plan, pc, projected_, current_row_, chunk, hash_table_,
          group_order_, chunks, result>>

----------------------------------------------------------------------------
(* Values (common/types.hpp): a type and, for a number, a fraction *)

V(type, n) == [type |-> type, n |-> n, d |-> 1]

\* The doubles of a table are multiples of one unit, which n counts.
Type == {"INT64", "FLOAT64", "STRING", "BOOLEAN"}
CellOf(type) == {V(type, n) : n \in -DblMax .. DblMax}

\* an Operand, and what parse_select returns
OperandType ==
  [kind : {"col"}, name : STRING]
  \cup [kind : {"lit"}, val : [type : Type, n : Int, d : Nat \ {0}]]
StmtType ==
  [star : BOOLEAN,
   items : Seq([agg : {"none", "SUM", "COUNT", "MIN", "MAX", "AVG"},
                col : STRING, alias : STRING]),
   where : Seq([left : OperandType, op : {"=", "!=", "<", ">", "<=", ">="},
                right : OperandType]),
   group_by : Seq(STRING),
   order_by : Seq([col : STRING, asc : BOOLEAN])]

ASSUME SchemaAssumption == Schema \in Seq([name : STRING, type : Type])
ASSUME TablesAssumption ==
  \A t \in Tables :
    /\ t \in Seq([DOMAIN Schema -> UNION {CellOf(type) : type \in Type}])
    /\ \A r \in DOMAIN t, c \in DOMAIN Schema : t[r][c] \in CellOf(Schema[c].type)
ASSUME StmtsAssumption ==
  /\ Stmts \subseteq StmtType
  /\ \A s \in Stmts : s.star <=> s.items = << >>

\* to_double: what is not a number counts as 0
to_double(x) ==
  IF x.type \in {"INT64", "FLOAT64"} THEN <<x.n, x.d>> ELSE <<0, 1>>

\* Planner::compare_values and SortOperator::compare: -1, 0 or 1
compare(x, y) ==
  LET strings == x.type = "STRING" /\ y.type = "STRING"
      a == IF strings THEN <<x.n, 1>> ELSE to_double(x)
      b == IF strings THEN <<y.n, 1>> ELSE to_double(y)
      less(p, q) == p[1] * q[2] < q[1] * p[2]
  IN IF less(a, b) THEN -1 ELSE IF less(b, a) THEN 1 ELSE 0

----------------------------------------------------------------------------
(* Chunks and columns *)

NotFound == 0
NoChunk == [cols |-> << >>, rows |-> << >>]

\* the numbers of a set from the smallest on, and what a sequence has there
InOrder[S \in SUBSET Nat] ==
  [k \in 1 .. Cardinality(S) |->
     CHOOSE x \in S : Cardinality({y \in S : y < x}) = k - 1]
Selected(s, S) ==
  LET places == InOrder[S] IN [k \in DOMAIN places |-> s[places[k]]]

\* find_column, TableSchema::find: the first column of that name
find_column(cols, name) == SelectInSeq(cols, LAMBDA c : c.name = name)

\* Mutant of merge: the chunks after the first are forgotten.
merge_first_only(cs) == cs[1]

\* SortOperator::merge and MysqlServer::merge
merge(cs) ==
  [cols |-> cs[1].cols, rows |-> FlattenSeq([i \in DOMAIN cs |-> cs[i].rows])]

----------------------------------------------------------------------------
(* Planner *)

Names(s) == [i \in DOMAIN s |-> s[i].name]
OperandNames(o) == IF o.kind = "col" THEN <<o.name>> ELSE << >>

\* the columns that the select list, WHERE and GROUP BY name, in that order,
\* each once
collect_columns(s) ==
  LET named == [i \in DOMAIN s.items |-> s.items[i].col]
               \o FlattenSeq([i \in DOMAIN s.where |->
                                OperandNames(s.where[i].left)
                                \o OperandNames(s.where[i].right)])
               \o s.group_by
  IN Selected(named,
              {i \in DOMAIN named : \A j \in 1 .. i - 1 : named[j] # named[i]})

project_cols(s) == IF s.star THEN Names(Schema) ELSE collect_columns(s)

Grouped == stmt.group_by # << >>
Ordered == stmt.order_by # << >>
AggItems(s) ==
  Selected(s.items, {i \in DOMAIN s.items : s.items[i].agg # "none"})

\* eval_operand; the caller has checked that the column is there
Resolves(cols, o) == o.kind = "col" => find_column(cols, o.name) # NotFound
eval_operand(cols, row, o) ==
  IF o.kind = "col" THEN row[find_column(cols, o.name)] ELSE o.val

eval_condition(cols, row, cond) ==
  LET cmp == compare(eval_operand(cols, row, cond.left),
                     eval_operand(cols, row, cond.right))
  IN CASE cond.op = "="  -> cmp = 0
       [] cond.op = "!=" -> cmp # 0
       [] cond.op = "<"  -> cmp < 0
       [] cond.op = ">"  -> cmp > 0
       [] cond.op = "<=" -> cmp <= 0
       [] cond.op = ">=" -> cmp >= 0

\* The predicate the planner hands to the filter.  It stops at the first
\* condition that is false, and throws at a column that is not there.
CondResolves(cols, cond) ==
  Resolves(cols, cond.left) /\ Resolves(cols, cond.right)
CondsHold(cols, row, conds) ==
  \A i \in DOMAIN conds :
    CondResolves(cols, conds[i]) /\ eval_condition(cols, row, conds[i])
CondsThrow(cols, row, conds) ==
  \E i \in DOMAIN conds : /\ ~CondResolves(cols, conds[i])
                          /\ CondsHold(cols, row, SubSeq(conds, 1, i - 1))

----------------------------------------------------------------------------
(* AggState *)

NoState == [sum |-> 0, count |-> 0, min_val |-> DblMax, max_val |-> -DblMax]

update(st, v) ==
  [sum |-> st.sum + v,
   count |-> st.count + 1,
   min_val |-> IF v < st.min_val THEN v ELSE st.min_val,
   max_val |-> IF v > st.max_val THEN v ELSE st.max_val]

\* finalize, and the type of the output column
finalize(st, agg) ==
  CASE agg = "SUM"   -> V("FLOAT64", st.sum)
    [] agg = "COUNT" -> V("INT64", st.count)
    [] agg = "MIN"   -> V("FLOAT64", st.min_val)
    [] agg = "MAX"   -> V("FLOAT64", st.max_val)
    [] agg = "AVG"   -> [type |-> "FLOAT64", n |-> st.sum, d |-> st.count]

\* Mutant of Seen: a key is listed for every row it has.
SeenAgain(order, key) == Append(order, key)

\* the order of groups once a row with the key has been seen
Seen(order, key) == IF Contains(order, key) THEN order ELSE Append(order, key)

\* accumulate for one row: the group is made when its key is first seen
GroupKey(cols, row) == row[find_column(cols, stmt.group_by[1])]
AccumulateRow(cols, row) ==
  LET key == GroupKey(cols, row)
      old == IF key \in DOMAIN hash_table_ THEN hash_table_[key]
             ELSE [i \in DOMAIN agg_specs_ |-> NoState]
      new == [i \in DOMAIN agg_specs_ |->
                update(old[i], row[find_column(cols, agg_specs_[i].col)].n)]
  IN [k \in DOMAIN hash_table_ \cup {key} |->
        IF k = key THEN new ELSE hash_table_[k]]

\* the checks accumulate makes of the columns of every chunk
Aggregable(cols, specs) ==
  LET typed(name, types) ==
        /\ find_column(cols, name) # NotFound
        /\ cols[find_column(cols, name)].type \in types
  IN /\ typed(stmt.group_by[1], {"STRING"})
     /\ \A i \in DOMAIN specs : typed(specs[i].col, {"INT64", "FLOAT64"})

\* produce_result for at least one group
GroupColumns(specs) ==
  <<[name |-> stmt.group_by[1], type |-> "STRING"]>>
  \o [i \in DOMAIN specs |->
        [name |-> specs[i].alias,
         type |-> IF specs[i].agg = "COUNT" THEN "INT64" ELSE "FLOAT64"]]
GroupRow(key) ==
  <<key>> \o [i \in DOMAIN agg_specs_ |->
                finalize(hash_table_[key][i], agg_specs_[i].agg)]

----------------------------------------------------------------------------
(* SortOperator *)

\* the comparator of sort_chunk, its keys all being there
SortKey(cols, row, key) == row[find_column(cols, key.col)]
TiesUpTo(cols, keys, x, y, k) ==
  \A i \in 1 .. k :
    compare(SortKey(cols, x, keys[i]), SortKey(cols, y, keys[i])) = 0
Before(cols, keys, x, y) ==
  \E i \in DOMAIN keys :
    /\ TiesUpTo(cols, keys, x, y, i - 1)
    /\ LET cmp == compare(SortKey(cols, x, keys[i]), SortKey(cols, y, keys[i]))
       IN IF keys[i].asc THEN cmp < 0 ELSE cmp > 0

\* std::stable_sort compares, among others, every two rows that end up next
\* to each other; so it meets a key that is not there exactly when two rows
\* tie on all the keys before it
SortThrows(c) ==
  \E i \in DOMAIN stmt.order_by :
    /\ find_column(c.cols, stmt.order_by[i].col) = NotFound
    /\ \A j \in 1 .. i - 1 :
         find_column(c.cols, stmt.order_by[j].col) # NotFound
    /\ \E x, y \in DOMAIN c.rows :
         x # y /\ TiesUpTo(c.cols, stmt.order_by, c.rows[x], c.rows[y], i - 1)

\* std::stable_sort (external), when it does not throw: no two rows get to a
\* key that is not there, and rows that tie keep their order
Comes(c, i, j) ==
  LET before(p, q) == Before(c.cols, stmt.order_by, c.rows[p], c.rows[q])
  IN before(i, j) \/ (i < j /\ ~before(j, i))
stable_sort(c) ==
  LET places == DOMAIN c.rows
      ahead(i) == {j \in places \ {i} : Comes(c, j, i)}
      at(k) == CHOOSE i \in places : Cardinality(ahead(i)) = k - 1
  IN [k \in places |-> c.rows[at(k)]]

\* Mutant of sort_chunk: with a sort that is not stable, rows that tie may come
\* out in reverse order.
sort_chunk_unstable(c) ==
  [c EXCEPT !.rows = stable_sort([c EXCEPT !.rows = Reverse(@)])]

sort_chunk(c) == [c EXCEPT !.rows = stable_sort(c)]

----------------------------------------------------------------------------
\* A connection without a statement, over a table with some content.
NoStmt == [star |-> FALSE, items |-> << >>, where |-> << >>, group_by |-> << >>,
           order_by |-> << >>]
Init ==
  /\ table_ \in Tables
  /\ stmt = NoStmt /\ project_cols_ = << >> /\ agg_specs_ = << >>
  /\ pc = "idle"
  /\ projected_ = << >>
  /\ current_row_ = 0
  /\ chunk = NoChunk
  /\ hash_table_ = << >> /\ group_order_ = << >>
  /\ chunks = << >>
  /\ result = NoChunk

\* plan: the statement the parser returns becomes a tree of operators
Plan(s) ==
  /\ pc = "idle"
  /\ stmt' = s
  /\ project_cols_' = project_cols(s)
  /\ agg_specs_' = AggItems(s)
  /\ pc' = "open"
  /\ UNCHANGED <<table_, projected_, current_row_, chunk, hash_table_,
                 group_order_, chunks, result>>

Throw == pc' = "error"

\* drain opens the operators; the scan resolves the projected columns
Open ==
  /\ pc = "open"
  /\ projected_' = [i \in DOMAIN project_cols_ |->
                      find_column(Schema, project_cols_[i])]
  /\ IF \A i \in DOMAIN projected_' : projected_'[i] # NotFound
     THEN pc' = "scan" ELSE Throw
  /\ UNCHANGED <<table_, plan, current_row_, chunk, hash_table_,
                 group_order_, chunks, result>>

\* where the batch that follows the given number of rows ends
batch_end(row) ==
  LET total == Len(table_)
  IN IF row + BatchSize < total THEN row + BatchSize ELSE total

\* Mutant of Batch: a batch after the first starts one row late.
BatchLate(row) ==
  LET rows == SubSeq(table_, IF row = 0 THEN 1 ELSE row + 2, batch_end(row))
  IN [r \in DOMAIN rows |->
        [i \in DOMAIN projected_ |-> rows[r][projected_[i]]]]

\* its rows, and of these the projected columns
Batch(row) ==
  LET rows == SubSeq(table_, row + 1, batch_end(row))
  IN [r \in DOMAIN rows |->
        [i \in DOMAIN projected_ |-> rows[r][projected_[i]]]]

\* ScanOperator::next with rows left
ScanNext ==
  /\ pc = "scan"
  /\ current_row_ < Len(table_)
  /\ chunk' =
       [cols |-> [i \in DOMAIN projected_ |-> Schema[projected_[i]]],
        rows |-> Batch(current_row_)]
  /\ current_row_' = batch_end(current_row_)
  /\ pc' = IF stmt.where = << >> THEN "consume" ELSE "filter"
  /\ UNCHANGED <<table_, plan, projected_, hash_table_, group_order_, chunks,
                 result>>

\* ScanOperator::next at the end of the table
ScanExhausted ==
  /\ pc = "scan"
  /\ current_row_ >= Len(table_)
  /\ pc' = IF Grouped THEN "produce" ELSE IF Ordered THEN "sort" ELSE "merge"
  /\ UNCHANGED <<table_, plan, projected_, current_row_, chunk, hash_table_,
                 group_order_, chunks, result>>

\* Mutant of BatchThrows: only the first row of a batch is looked at.
FirstRowThrows(c) ==
  c.rows # << >> /\ CondsThrow(c.cols, c.rows[1], stmt.where)

\* the predicate throws for a row of the batch
BatchThrows(c) ==
  \E r \in DOMAIN c.rows : CondsThrow(c.cols, c.rows[r], stmt.where)

\* Mutant of AfterFilter: the filter does not pull the batch after one it has
\* dropped.
AfterFilterStuck(sel) == IF sel = << >> THEN "filter" ELSE "consume"

\* where a filtered batch goes: up, or nowhere if no row of it has passed
AfterFilter(sel) == IF sel = << >> THEN "scan" ELSE "consume"

\* FilterOperator::next for one chunk of its child: compacted, or dropped if
\* no row passes, in which case the next one is pulled
FilterNext ==
  /\ pc = "filter"
  /\ ~BatchThrows(chunk)
  /\ LET sel == Selected(chunk.rows,
                         {r \in DOMAIN chunk.rows :
                            CondsHold(chunk.cols, chunk.rows[r], stmt.where)})
     IN /\ pc' = AfterFilter(sel)
        /\ chunk' = [chunk EXCEPT !.rows = sel]
  /\ UNCHANGED <<table_, plan, projected_, current_row_, hash_table_,
                 group_order_, chunks, result>>

FilterThrows ==
  /\ pc = "filter"
  /\ BatchThrows(chunk)
  /\ Throw
  /\ UNCHANGED <<table_, plan, projected_, current_row_, chunk, hash_table_,
                 group_order_, chunks, result>>

\* AggregateOperator::accumulate: one row of the loop over a chunk, after which the next chunk is pulled
Accumulate ==
  /\ pc = "consume"
  /\ Grouped
  /\ Aggregable(chunk.cols, agg_specs_)
  /\ LET row == Head(chunk.rows)
     IN /\ hash_table_' = AccumulateRow(chunk.cols, row)
        /\ group_order_' = Seen(group_order_, GroupKey(chunk.cols, row))
  /\ IF Len(chunk.rows) > 1
     THEN chunk' = [chunk EXCEPT !.rows = Tail(@)] /\ UNCHANGED pc
     ELSE chunk' = NoChunk /\ pc' = "scan"
  /\ UNCHANGED <<table_, plan, projected_, current_row_, chunks, result>>

AccumulateThrows ==
  /\ pc = "consume"
  /\ Grouped
  /\ ~Aggregable(chunk.cols, agg_specs_)
  /\ Throw
  /\ UNCHANGED <<table_, plan, projected_, current_row_, chunk, hash_table_,
                 group_order_, chunks, result>>

\* SortOperator::next or drain keeps the chunk and pulls the next one
Collect ==
  /\ pc = "consume"
  /\ ~Grouped
  /\ chunks' = Append(chunks, chunk)
  /\ chunk' = NoChunk
  /\ pc' = "scan"
  /\ UNCHANGED <<table_, plan, projected_, current_row_, hash_table_,
                 group_order_, result>>

\* AggregateOperator::produce_result: one chunk, or none without groups
ProduceResult ==
  /\ pc = "produce"
  /\ chunks' = IF group_order_ = << >> THEN << >>
               ELSE <<[cols |-> GroupColumns(agg_specs_),
                       rows |-> [i \in DOMAIN group_order_ |->
                                   GroupRow(group_order_[i])]]>>
  /\ pc' = IF Ordered THEN "sort" ELSE "merge"
  /\ UNCHANGED <<table_, plan, projected_, current_row_, chunk, hash_table_,
                 group_order_, result>>

\* SortOperator::next once its child is exhausted
SortNext ==
  /\ pc = "sort"
  /\ \/ chunks = << >> /\ UNCHANGED chunks
     \/ /\ chunks # << >>
        /\ \E merged \in {merge(chunks)} :
             ~SortThrows(merged) /\ chunks' = <<sort_chunk(merged)>>
  /\ pc' = "merge"
  /\ UNCHANGED <<table_, plan, projected_, current_row_, chunk, hash_table_,
                 group_order_, result>>

SortThrowsUp ==
  /\ pc = "sort"
  /\ chunks # << >> /\ SortThrows(merge(chunks))
  /\ Throw
  /\ UNCHANGED <<table_, plan, projected_, current_row_, chunk, hash_table_,
                 group_order_, chunks, result>>

\* the end of drain; no chunk at all is answered like a statement without rows
Drained ==
  /\ pc = "merge"
  /\ result' = IF chunks = << >> THEN NoChunk ELSE merge(chunks)
  /\ pc' = "done"
  /\ UNCHANGED <<table_, plan, projected_, current_row_, chunk, hash_table_,
                 group_order_, chunks>>

Next ==
  \/ \E s \in Stmts : Plan(s)
  \/ Open
  \/ ScanNext \/ ScanExhausted
  \/ FilterNext \/ FilterThrows
  \/ Accumulate \/ AccumulateThrows \/ Collect
  \/ ProduceResult
  \/ SortNext \/ SortThrowsUp
  \/ Drained

\* A connection's thread keeps running its statement.
Spec == Init /\ [][Next]_vars /\ WF_vars(Next)
=============================================================================
