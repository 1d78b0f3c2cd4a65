------------------------------- MODULE Parser -------------------------------
(***************************************************************************)
(* Parser (sql/parser.hpp): a cursor over the tokens of the lexer, moved   *)
(* by expect, consume, match and peek.  Its methods call each other        *)
(* without recursion, so where the parser stands is a label, and a method  *)
(* is a table: for each label the token types that are asked for, and      *)
(* where the parser goes on if the token is one of them and if it is not.  *)
(* stmt is the statement as far as it has been read (sql/ast.hpp).         *)
(***************************************************************************)
EXTENDS Integers, Sequences

VARIABLES tokens_, pos_, stmt, pc

parser == <<tokens_, pos_, stmt, pc>>

Literals == {"INT_LIT", "FLOAT_LIT", "STRING_LIT"}
Operands == {"IDENT"} \cup Literals
TypeNames == {"KW_INT64", "KW_FLOAT64", "KW_STRING", "KW_BOOLEAN"}
Operators == {"EQ", "NEQ", "LT", "GT", "LEQ", "GEQ"}

\* Mutant of is_agg: AVG, the last aggregate, is missing.
is_agg_but_avg == {"SUM", "COUNT", "MIN", "MAX"}

is_agg == {"SUM", "COUNT", "MIN", "MAX", "AVG"}

----------------------------------------------------------------------------
(* What is asked for at a label.  expect throws with the cursor on the     *)
(* token; parse_type, parse_literal and parse_op take the token first, and *)
(* throw with the cursor behind it; match goes on without it.              *)

Expect(types, next) ==
  [types |-> types, next |-> next, otherwise |-> "error", taken |-> FALSE]
\* Mutant of Consume: the default of the switch does not throw.
ConsumeAny(types, next) ==
  [types |-> types, next |-> next, otherwise |-> next, taken |-> TRUE]
Consume(types, next) ==
  [types |-> types, next |-> next, otherwise |-> "error", taken |-> TRUE]
Match(types, next, otherwise) ==
  [types |-> types, next |-> next, otherwise |-> otherwise, taken |-> FALSE]

\* parse looks at the first token, which the method it calls then takes
parse ==
  [parse |-> Match({"CREATE"}, "table", "insert"),
   insert |-> Match({"INSERT"}, "into", "select"),
   select |-> Expect({"SELECT"}, "star")]

parse_create ==
  [table |-> Expect({"TABLE"}, "create_name"),
   create_name |-> Expect({"IDENT"}, "create_open"),
   create_open |-> Expect({"LPAREN"}, "col_name"),
   col_name |-> Expect({"IDENT"}, "col_type"),
   col_type |-> Consume(TypeNames, "col_more"),
   col_more |-> Match({"COMMA"}, "col_name", "create_close"),
   create_close |-> Expect({"RPAREN"}, "done")]

parse_insert ==
  [into |-> Expect({"INTO"}, "insert_name"),
   insert_name |-> Expect({"IDENT"}, "values"),
   values |-> Expect({"VALUES"}, "insert_open"),
   insert_open |-> Expect({"LPAREN"}, "value"),
   value |-> Consume(Literals, "value_more"),
   value_more |-> Match({"COMMA"}, "value", "insert_close"),
   insert_close |-> Expect({"RPAREN"}, "done")]

parse_select ==
  [star |-> Match({"STAR"}, "from", "item"),
   from |-> Expect({"FROM"}, "from_name"),
   from_name |-> Expect({"IDENT"}, "where"),
   where |-> Match({"WHERE"}, "left", "group"),
   where_more |-> Match({"AND"}, "left", "group"),
   group |-> Match({"GROUP"}, "group_by", "order"),
   group_by |-> Expect({"BY"}, "group_col"),
   group_col |-> Expect({"IDENT"}, "group_more"),
   group_more |-> Match({"COMMA"}, "group_col", "order"),
   order |-> Match({"ORDER"}, "order_by", "done"),
   order_by |-> Expect({"BY"}, "order_col"),
   order_col |-> Expect({"IDENT"}, "order_desc"),
   order_desc |-> Match({"DESC"}, "order_more", "order_asc"),
   order_asc |-> Match({"ASC"}, "order_more", "order_more"),
   order_more |-> Match({"COMMA"}, "order_col", "done")]

parse_select_item ==
  [item |-> Match(is_agg, "agg_open", "item_col"),
   agg_open |-> Expect({"LPAREN"}, "agg_col"),
   agg_col |-> Expect({"IDENT"}, "agg_close"),
   agg_close |-> Expect({"RPAREN"}, "as"),
   item_col |-> Expect({"IDENT"}, "as"),
   as |-> Match({"AS"}, "alias", "item_more"),
   alias |-> Expect({"IDENT"}, "item_more"),
   item_more |-> Match({"COMMA"}, "item", "from")]

\* Mutant of parse_condition: the loop over AND is not a loop.
parse_condition_once ==
  [left |-> Expect(Operands, "op"),
   op |-> Consume(Operators, "right"),
   right |-> Expect(Operands, "group")]

parse_condition ==
  [left |-> Expect(Operands, "op"),
   op |-> Consume(Operators, "right"),
   right |-> Expect(Operands, "where_more")]

Methods == {parse, parse_create, parse_insert, parse_select,
            parse_select_item, parse_condition}
Labels == UNION {DOMAIN m : m \in Methods}
Rule(label) == (CHOOSE m \in Methods : label \in DOMAIN m)[label]

----------------------------------------------------------------------------
(* The statement *)

NoStmt == [kind |-> "none", name |-> << >>, cols |-> << >>, values |-> << >>,
           star |-> FALSE, items |-> << >>, where |-> << >>,
           group_by |-> << >>, order_by |-> << >>]

push_back(s, list, x) == [s EXCEPT ![list] = Append(@, x)]
SetLast(s, list, field, x) == [s EXCEPT ![list][Len(s[list])][field] = x]

\* the statement once token t has been taken at the label
Built(s, label, t) ==
  CASE label = "parse"  -> [s EXCEPT !.kind = "create"]
    [] label = "insert" -> [s EXCEPT !.kind = "insert"]
    [] label = "select" -> [s EXCEPT !.kind = "select"]
    [] label \in {"create_name", "insert_name", "from_name"} ->
         [s EXCEPT !.name = t.text]
    [] label = "col_name" -> push_back(s, "cols", [name |-> t.text, type |-> ""])
    [] label = "col_type" -> SetLast(s, "cols", "type", t.type)
    [] label = "value"    -> push_back(s, "values", t)
    [] label = "star"     -> [s EXCEPT !.star = TRUE]
    [] label = "item"     ->
         push_back(s, "items", [agg |-> t.type, col |-> << >>, alias |-> << >>])
    [] label = "agg_col"  ->
         SetLast(SetLast(s, "items", "col", t.text), "items", "alias", t.text)
    [] label = "item_col" ->
         push_back(s, "items", [agg |-> "none", col |-> t.text, alias |-> t.text])
    [] label = "alias"    -> SetLast(s, "items", "alias", t.text)
    [] label = "left"     ->
         push_back(s, "where", [left |-> t, op |-> "", right |-> t])
    [] label = "op"       -> SetLast(s, "where", "op", t.type)
    [] label = "right"    -> SetLast(s, "where", "right", t)
    [] label = "group_col" -> push_back(s, "group_by", t.text)
    [] label = "order_col" ->
         push_back(s, "order_by", [col |-> t.text, asc |-> TRUE])
    [] label = "order_desc" -> SetLast(s, "order_by", "asc", FALSE)
    [] OTHER -> s

----------------------------------------------------------------------------
peek == tokens_[pos_]
consume == pos_' = pos_ + 1

\* the token is one of those asked for
Take ==
  /\ pc \in Labels
  /\ peek.type \in Rule(pc).types
  /\ consume
  /\ stmt' = Built(stmt, pc, peek)
  /\ pc' = Rule(pc).next
  /\ UNCHANGED tokens_

\* it is not: match goes on, the others throw
GoOn ==
  /\ pc \in Labels
  /\ peek.type \notin Rule(pc).types
  /\ IF Rule(pc).taken THEN consume ELSE UNCHANGED pos_
  /\ pc' = Rule(pc).otherwise
  /\ UNCHANGED <<tokens_, stmt>>

Next == Take \/ GoOn
=============================================================================
