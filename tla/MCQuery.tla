------------------------------ MODULE MCQuery ------------------------------
(***************************************************************************)
(* Query on every table of a few rows over two columns, for TLC.           *)
(***************************************************************************)
EXTENDS QueryAnswer

CONSTANT MaxTableRows

MCSchema == <<[name |-> "k", type |-> "STRING"], [name |-> "x", type |-> "INT64"]>>
MCRows == {<<V("STRING", 1), V("INT64", 0)>>, <<V("STRING", 1), V("INT64", 2)>>,
           <<V("STRING", 2), V("INT64", -1)>>}
\* tables of any rows, and twice as long as a batch of rows of two kinds
MCTables == UNION {[1 .. n -> MCRows] : n \in 0 .. MaxTableRows}
            \cup [1 .. 2 * BatchSize -> {r \in MCRows : r[2].n # 0}]

Col(name) == [kind |-> "col", name |-> name]
Lit(val) == [kind |-> "lit", val |-> val]
Cond(left, op, right) == [left |-> left, op |-> op, right |-> right]
XIsPositive == Cond(Col("x"), ">", Lit(V("INT64", 0)))
KIsOne == Cond(Col("k"), "=", Lit(V("STRING", 1)))
OnGhost == Cond(Col("ghost"), "!=", Col("x"))

Plain(name) == [agg |-> "none", col |-> name, alias |-> name]
Agg(agg, name, alias) == [agg |-> agg, col |-> name, alias |-> alias]
Key(name, asc) == [col |-> name, asc |-> asc]

Wheres == {<< >>, <<XIsPositive>>, <<XIsPositive, OnGhost>>,
           <<Cond(Col("x"), "<=", Lit(V("INT64", 0))), KIsOne>>,
           <<Cond(Col("k"), "<", Col("x"))>>}
ItemLists == {<<Plain("x"), Plain("k")>>,
              <<Plain("k"), Agg("SUM", "x", "s"), Agg("AVG", "x", "a")>>,
              <<Agg("MIN", "x", "lo"), Agg("MAX", "x", "hi"),
                Agg("COUNT", "x", "x")>>,
              <<Agg("COUNT", "k", "n")>>}
GroupLists == {<< >>, <<"k">>, <<"x">>, <<"k", "x">>, <<"ghost">>}
OrderLists == {<< >>, <<Key("x", TRUE)>>, <<Key("k", FALSE), Key("x", TRUE)>>,
               <<Key("k", TRUE), Key("ghost", TRUE)>>, <<Key("a", FALSE)>>}

MCStmts ==
  [star : {FALSE}, items : ItemLists, where : Wheres, group_by : GroupLists,
   order_by : OrderLists]
  \cup [star : {TRUE}, items : {<< >>}, where : Wheres, group_by : GroupLists,
        order_by : OrderLists]
=============================================================================
