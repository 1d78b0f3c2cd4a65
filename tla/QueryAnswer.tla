---------------------------- MODULE QueryAnswer ----------------------------
(***************************************************************************)
(* What the answer to a SELECT should be, said of the table as a whole and *)
(* without any batch, hash table or order of evaluation, and the claim     *)
(* that the pipeline of Query computes it.                                 *)
(***************************************************************************)
EXTENDS Query

Rows == DOMAIN table_
ColumnOf(name) == find_column(Schema, name)

\* WHERE: the rows that satisfy every condition
Passing == {r \in Rows : CondsHold(Schema, table_[r], stmt.where)}

\* GROUP BY: the first row of each group, the groups in the order of these
KeyOf(r) == table_[r][ColumnOf(stmt.group_by[1])]
GroupOf(r) == {q \in Passing : KeyOf(q) = KeyOf(r)}
FirstRows == {r \in Passing : \A q \in GroupOf(r) : r <= q}

\* an aggregate over the rows S
AggregateOf(item, S) ==
  LET number == [r \in S |-> table_[r][ColumnOf(item.col)].n]
      numbers == {number[r] : r \in S}
  IN CASE item.agg = "SUM"   -> V("FLOAT64", SumFunction(number))
       [] item.agg = "COUNT" -> V("INT64", Cardinality(S))
       [] item.agg = "MIN"   -> V("FLOAT64", Min(numbers))
       [] item.agg = "MAX"   -> V("FLOAT64", Max(numbers))
       [] item.agg = "AVG"   -> [type |-> "FLOAT64",
                                 n |-> SumFunction(number),
                                 d |-> Cardinality(S)]

\* the answer before ORDER BY.  Without GROUP BY its columns are those the scan
\* reads for the statement, under their own names: the planner looks neither at
\* the aggregates of the select list nor at the names behind AS then.
UnorderedAnswer ==
  IF Passing = {} THEN NoChunk
  ELSE IF Grouped
  THEN LET first == InOrder[FirstRows]
           aggs == AggItems(stmt)
       IN [cols |-> GroupColumns(aggs),
           rows |-> [i \in DOMAIN first |->
                       <<KeyOf(first[i])>>
                       \o [a \in DOMAIN aggs |->
                             AggregateOf(aggs[a], GroupOf(first[i]))]]]
  ELSE LET names == project_cols(stmt)
           rows == Selected(table_, Passing)
       IN [cols |-> [c \in DOMAIN names |-> Schema[ColumnOf(names[c])]],
           rows |-> [i \in DOMAIN rows |->
                       [c \in DOMAIN names |-> rows[i][ColumnOf(names[c])]]]]

\* ORDER BY: the first key on which two rows of c differ puts x before y
Precedes(c, x, y) ==
  LET keys == stmt.order_by
      at(i) == find_column(c.cols, keys[i].col)
      differ == {i \in DOMAIN keys :
                   at(i) # NotFound /\ compare(x[at(i)], y[at(i)]) # 0}
  IN /\ differ # {}
     /\ LET i == Min(differ)
        IN keys[i].asc = (compare(x[at(i)], y[at(i)]) = -1)

\* perm puts the rows of c in that order, and rows that tie in the order they
\* had
IsStableOrder(c, perm) ==
  \A i, j \in DOMAIN c.rows : i < j =>
    LET x == c.rows[perm[i]]
        y == c.rows[perm[j]]
    IN Precedes(c, x, y) \/ (~Precedes(c, y, x) /\ perm[i] < perm[j])

\* What the statements with an aggregate but no GROUP BY are answered is no
\* answer to them: the aggregates are left out (AggregatesAreAnswered).
Answerable == Grouped \/ AggItems(stmt) = << >>

\* When a SELECT fails: a projected column that the table does not have; a
\* condition on a missing column that some row gets to; a group or an
\* aggregate over a column of another type, if any row passes; a missing
\* ORDER BY column, if two rows of the answer tie on the keys before it.
ColumnMissing ==
  \E i \in DOMAIN project_cols(stmt) : ColumnOf(project_cols(stmt)[i]) = NotFound
WhereFails == \E r \in Rows : CondsThrow(Schema, table_[r], stmt.where)
GroupFails == Grouped /\ Passing # {} /\ ~Aggregable(Schema, AggItems(stmt))
OrderFails == Ordered /\ SortThrows(UnorderedAnswer)
Fails == ColumnMissing \/ WhereFails \/ GroupFails \/ OrderFails

----------------------------------------------------------------------------
(* Properties *)

ChunkType ==
  {c \in {chunk, result} :
     \A r \in DOMAIN c.rows :
       /\ DOMAIN c.rows[r] = DOMAIN c.cols
       /\ \A i \in DOMAIN c.cols : c.rows[r][i].type = c.cols[i].type}

\* Chunks are rectangular and their cells have the type of their column; the
\* cursor of the scan stays inside the table; a group is in the hash table
\* exactly when it is in the order of groups, which holds it once.
TypeOK ==
  /\ chunk \in ChunkType /\ result \in ChunkType
  /\ current_row_ \in 0 .. Len(table_)
  /\ DOMAIN hash_table_ = ToSet(group_order_)
  /\ Cardinality(DOMAIN hash_table_) = Len(group_order_)
  /\ pc \in {"idle", "open", "scan", "filter", "consume", "produce", "sort",
             "merge", "done", "error"}

\* However the rows fall into batches, the answer to a SELECT without ORDER BY
\* is the answer over the whole table: no row is lost or repeated at the edge
\* of a batch or by a dropped chunk, and groups are in first-seen order
\* (docs/challenges/02-aggregation.md, "Felwood preserves insertion order").
\* Of the statements with an aggregate but no GROUP BY this says nothing.
AnswerIsWhole ==
  pc = "done" /\ Answerable /\ ~Ordered => result = UnorderedAnswer

\* ORDER BY permutes that answer, by its keys in turn, each ascending or
\* descending, and keeps rows that tie on all of them in their order.
AnswerIsOrdered ==
  pc = "done" /\ Answerable /\ Ordered =>
    /\ result.cols = UnorderedAnswer.cols
    /\ \E perm \in Bijection(DOMAIN UnorderedAnswer.rows,
                             DOMAIN UnorderedAnswer.rows) :
         /\ result.rows = [i \in DOMAIN perm |-> UnorderedAnswer.rows[perm[i]]]
         /\ IsStableOrder(UnorderedAnswer, perm)

\* A select list of aggregates without GROUP BY, which docs/impl/sql.md puts in
\* brackets, gets one row: the aggregates over all passing rows, under their
\* aliases (docs/challenges/04-persistence.md counts the rows of a table so).
\* The code does not keep this: execute builds an AggregateOperator only for a
\* GROUP BY, and the rows come back as they are.
AggregatesAreAnswered ==
  LET items == stmt.items
  IN pc = "done" /\ ~Grouped /\ Passing # {} /\ items # << >>
       /\ AggItems(stmt) = items =>
     /\ Names(result.cols) = [i \in DOMAIN items |-> items[i].alias]
     /\ result.rows = <<[i \in DOMAIN items |-> AggregateOf(items[i], Passing)]>>

\* Whether a SELECT fails depends on the statement and the rows of the table,
\* never on how the rows fall into batches.
ErrorsAreWhole ==
  /\ pc = "error" => Fails
  /\ pc = "done" => ~Fails

\* While a SELECT runs, the rows that have been consumed are the passing ones
\* among those scanned: every row is counted in one group or kept in one chunk
\* as soon as its batch has gone up the pipeline.
NoRowInBetween ==
  pc = "scan" =>
    LET scanned == {r \in Passing : r <= current_row_}
    IN IF ~Grouped
       THEN SumFunction([i \in DOMAIN chunks |-> Len(chunks[i].rows)])
              = Cardinality(scanned)
       ELSE /\ DOMAIN hash_table_ = {KeyOf(r) : r \in scanned}
            /\ AggItems(stmt) # << >> =>
                 SumFunction([k \in DOMAIN hash_table_ |-> hash_table_[k][1].count])
                   = Cardinality(scanned)

\* Every SELECT ends, with a result or an error, also when the filter drops
\* every batch.
Terminates == pc = "open" ~> pc \in {"done", "error"}
=============================================================================
