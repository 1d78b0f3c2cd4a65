----------------------------- MODULE SqlGrammar -----------------------------
(***************************************************************************)
(* What the statements of felwood are, said of whole sequences of          *)
(* characters and of tokens: by what stands between commas and between     *)
(* keywords, with no cursor and no loop.  Sql compares the lexer and the   *)
(* parser with it.  (docs/impl/sql.md, "Supported SQL".)                   *)
(***************************************************************************)
EXTENDS Splitting, Numbers

CONSTANTS Spaces, Digits, Letters

----------------------------------------------------------------------------
(* Characters *)

\* a character is in a string, its closing quote included, when the number of
\* quotes before it is odd
Quotes(src, i) == Cardinality({k \in 1 .. i : src[k] = "'"})
InString(src, i) == Quotes(src, i - 1) % 2 = 1

\* the places that belong to tokens
Solid(src) == {i \in DOMAIN src : src[i] \notin Spaces \/ InString(src, i)}

\* the longest run of such characters around i
RunStart(src, i, chars) ==
  Min({j \in 1 .. i : \A k \in j .. i : src[k] \in chars})
RunStop(src, i, chars) ==
  Max({j \in i .. Len(src) : \A k \in i .. j : src[k] \in chars})
Run(src, i, chars) ==
  SubSeq(src, RunStart(src, i, chars), RunStop(src, i, chars))
InNumber(src, i) ==
  LET s == RunStart(src, i, Digits \cup {"."})
  IN src[s] \in Digits /\ (s = 1 \/ src[s - 1] \notin Letters)

\* No token can be read at i: a character that starts none, a ! without =, a
\* dot outside a number, or a number that is out of range.  These are the
\* tokens of the code: + and - start none, and a number has no exponent.  The
\* documentation writes such numbers (DocumentedRowsAreStored).
Misplaced(src, i) ==
  /\ ~InString(src, i)
  /\ \/ src[i] \notin Spaces \cup Digits \cup Letters
                      \cup {"'", "(", ")", ",", ";", "*", "=", "<", ">", "!", "."}
     \/ src[i] = "!" /\ (i = Len(src) \/ src[i + 1] # "=")
     \/ src[i] = "." /\ ~InNumber(src, i)
     \/ /\ src[i] \in Digits /\ InNumber(src, i)
        /\ OutOfRange(Run(src, i, Digits \cup {"."}))

\* the character c would have gone on the token t
Continues(t, c) ==
  \/ t.type \in {"LT", "GT"} /\ c = "="
  \/ t.type \in {"INT_LIT", "FLOAT_LIT"} /\ c \in Digits \cup {"."}
  \/ t.text[1] \in Letters /\ c \in Letters \cup Digits

----------------------------------------------------------------------------
(* Tokens *)

\* the words that clauses of a SELECT begin with, and their order
Rank == [SELECT |-> 1, FROM |-> 2, WHERE |-> 3, GROUP |-> 4, ORDER |-> 5]
Heads(s) == {h \in DOMAIN s : s[h].type \in DOMAIN Rank}
Clause(s, h) ==
  SubSeq(s, h, Min({i \in Heads(s) : i > h} \cup {Len(s) + 1}) - 1)

TypeNames == {"KW_INT64", "KW_FLOAT64", "KW_STRING", "KW_BOOLEAN"}
Literals == {"INT_LIT", "FLOAT_LIT", "STRING_LIT"}
Aggregates == {"SUM", "COUNT", "MIN", "MAX", "AVG"}
Comparisons == {"EQ", "NEQ", "LT", "GT", "LEQ", "GEQ"}
Operands == {"IDENT"} \cup Literals

Columns == {<<"IDENT", t>> : t \in TypeNames}
Values == {<<l>> : l \in Literals}
Plain == {<<"IDENT">>} \cup {<<a, "LPAREN", "IDENT", "RPAREN">> : a \in Aggregates}
Aliased == {<<"IDENT", "AS", "IDENT">>}
           \cup {<<a, "LPAREN", "IDENT", "RPAREN", "AS", "IDENT">> : a \in Aggregates}
Items == Plain \cup Aliased
Conditions == {<<a, o, b>> : a \in Operands, o \in Comparisons, b \in Operands}
Keys == {<<"IDENT">>, <<"IDENT", "ASC">>, <<"IDENT", "DESC">>}

IsClause(c) ==
  CASE c[1].type = "SELECT" ->
         Types(After(c, 1)) = <<"STAR">> \/ IsList(After(c, 1), "COMMA", Items)
    [] c[1].type = "FROM"  -> Types(After(c, 1)) = <<"IDENT">>
    [] c[1].type = "WHERE" -> IsList(After(c, 1), "AND", Conditions)
    [] c[1].type = "GROUP" ->
         Len(c) > 1 /\ c[2].type = "BY" /\ IsList(After(c, 2), "COMMA", {<<"IDENT">>})
    [] c[1].type = "ORDER" ->
         Len(c) > 1 /\ c[2].type = "BY" /\ IsList(After(c, 2), "COMMA", Keys)

IsCreate(s) ==
  /\ StartsWith(s, <<"CREATE", "TABLE", "IDENT", "LPAREN">>)
  /\ Last(s).type = "RPAREN" /\ IsList(Inside(s, 4), "COMMA", Columns)
IsInsert(s) ==
  /\ StartsWith(s, <<"INSERT", "INTO", "IDENT", "VALUES", "LPAREN">>)
  /\ Last(s).type = "RPAREN" /\ IsList(Inside(s, 5), "COMMA", Values)
IsSelect(s) ==
  /\ s # << >> /\ s[1].type = "SELECT"
  /\ \E h \in Heads(s) : s[h].type = "FROM"
  /\ \A g, h \in Heads(s) : g < h => Rank[s[g].type] < Rank[s[h].type]
  /\ \A h \in Heads(s) : IsClause(Clause(s, h))
IsStmt(s) == IsCreate(s) \/ IsInsert(s) \/ IsSelect(s)

----------------------------------------------------------------------------
(* What a statement says *)

Each(pieces, f(_)) == [k \in DOMAIN pieces |-> f(pieces[k])]

\* the pieces of a clause behind its first n tokens
ListOf(s, word, n, separator) ==
  LET heads == {h \in Heads(s) : s[h].type = word}
  IN IF heads = {} THEN << >> ELSE Pieces(After(Clause(s, Min(heads)), n), separator)

ColumnOf(p) == [name |-> p[1].text, type |-> p[2].type]
ItemOf(p) ==
  LET plain == p[1].type = "IDENT"
      col == IF plain THEN p[1].text ELSE p[3].text
  IN [agg |-> IF plain THEN "none" ELSE p[1].type, col |-> col,
      alias |-> IF Last(p).type = "IDENT" THEN Last(p).text ELSE col]
ConditionOf(p) == [left |-> p[1], op |-> p[2].type, right |-> p[3]]
KeyOf(p) == [col |-> p[1].text, asc |-> Last(p).type # "DESC"]
NameOf(p) == p[1].text

Meaning(s) ==
  LET star == IsSelect(s) /\ s[2].type = "STAR"
  IN [kind |-> IF IsCreate(s) THEN "create" ELSE IF IsInsert(s) THEN "insert" ELSE "select",
      name |-> IF IsSelect(s) THEN ListOf(s, "FROM", 1, "COMMA")[1][1].text ELSE s[3].text,
      cols |-> IF IsCreate(s) THEN Each(Pieces(Inside(s, 4), "COMMA"), ColumnOf) ELSE << >>,
      values |-> IF IsInsert(s) THEN Each(Pieces(Inside(s, 5), "COMMA"), Head) ELSE << >>,
      star |-> star,
      items |-> IF star THEN << >> ELSE Each(ListOf(s, "SELECT", 1, "COMMA"), ItemOf),
      where |-> Each(ListOf(s, "WHERE", 1, "AND"), ConditionOf),
      group_by |-> Each(ListOf(s, "GROUP", 2, "COMMA"), NameOf),
      order_by |-> Each(ListOf(s, "ORDER", 2, "COMMA"), KeyOf)]
=============================================================================
