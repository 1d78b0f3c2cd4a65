-------------------------------- MODULE Sql --------------------------------
(***************************************************************************)
(* The front end as dispatch_query runs it (server/mysql_server.hpp): the  *)
(* lexer makes a vector of tokens of the source, the parser a statement of *)
(* the tokens; either may throw.  Its results are compared with            *)
(* SqlGrammar.                                                             *)
(***************************************************************************)
EXTENDS SqlGrammar

CONSTANTS
  Sources, toupper, Keywords,
  Documented  \* INSERTs of the documentation -> the types of their table

ASSUME SourcesAssumption == \A s \in Sources : s \in Seq({s[i] : i \in DOMAIN s})

\* No character is of two kinds.
Signs == {"'", "(", ")", ",", ";", "*", "=", "<", ">", "!", "."}
ASSUME CharactersAssumption ==
  /\ Spaces \cap (Digits \cup Letters \cup Signs) = {}
  /\ Digits \cap (Letters \cup Signs) = {} /\ Letters \cap Signs = {}
ASSUME DigitsAssumption == Digits \subseteq ToSet(Figures) /\ MaxInt \in Nat
\* The types of tokens that are no keywords.
OtherTypes ==
  {"EQ", "NEQ", "LT", "GT", "LEQ", "GEQ", "LPAREN", "RPAREN", "COMMA", "SEMICOLON",
   "STAR", "INT_LIT", "FLOAT_LIT", "STRING_LIT", "IDENT", "EOF_TOK"}
ASSUME KeywordsAssumption ==
  \A word \in DOMAIN Keywords : Keywords[word] \notin OtherTypes

VARIABLES src_, pos_, tokens, cursor, stmt, pc

vars == <<src_, pos_, tokens, cursor, stmt, pc>>

L == INSTANCE Lexer
P == INSTANCE Parser WITH tokens_ <- tokens, pos_ <- cursor

Init == L!Init /\ cursor = 1 /\ stmt = P!NoStmt

Lex == L!Next /\ UNCHANGED <<cursor, stmt>>
Parse == P!Next /\ UNCHANGED <<src_, pos_>>

Next == Lex \/ Parse

\* A connection's thread keeps running its statement.
Spec == Init /\ [][Next]_vars /\ WF_vars(Next)

\* Column::append: the value a literal has is of one type, and std::get throws
\* for a column of another.
ValueType(t) ==
  CASE t.type = "INT_LIT" -> "KW_INT64"
    [] t.type = "FLOAT_LIT" -> "KW_FLOAT64"
    [] t.type = "STRING_LIT" -> "KW_STRING"
Appends(types, values) == \A c \in DOMAIN types : ValueType(values[c]) = types[c]

----------------------------------------------------------------------------
(* Properties *)

Texts == [k \in DOMAIN tokens |-> tokens[k].text]
Lexed == L!EofToken \in ToSet(tokens)

\* Nothing of a source is lost or made up by the lexer: the texts of the
\* tokens are its characters without the white space outside strings, and the
\* quote that a string at the end may lack.
TokensAreTheSource ==
  pc = "lex" \/ Lexed =>
    LET text == FlattenSeq(Texts)
        solid == Solid(src_)
        missing == IF Quotes(src_, pos_ - 1) % 2 = 1 THEN 1 ELSE 0
    IN /\ Len(text) = UpTo(solid, pos_ - 1) + missing
       /\ \A i \in solid : i < pos_ => text[UpTo(solid, i)] = src_[i]
       /\ missing = 1 => text[Len(text)] = "'"

\* Every token is as long as it can be: what follows it without white space
\* would not have gone on it, so that x<=1 is never read as x, <, =, 1.
TokensAreLongest ==
  LET solid == Solid(src_)
  IN \A k \in DOMAIN tokens, i \in solid :
       /\ i + 1 \in solid
       /\ UpTo(solid, i) = Len(FlattenSeq(SubSeq(Texts, 1, k)))
       => ~Continues(tokens[k], src_[i + 1])

\* The lexer throws for exactly those sources that have a character no token
\* starts with, a ! without =, a stray dot or a number that is out of range.
LexerErrors ==
  /\ Lexed => \A i \in DOMAIN src_ : ~Misplaced(src_, i)
  /\ pc = "error" /\ ~Lexed => \E i \in DOMAIN src_ : Misplaced(src_, i)

\* The cursor never leaves the tokens: parse_type, parse_literal and parse_op
\* take END like any other token, but nothing looks at a token after that.
PeekInBounds == pc \in P!Labels => cursor \in DOMAIN tokens

\* Some statement begins with these tokens.
Dummy(types) ==
  [i \in DOMAIN types |-> [type |-> types[i], text |-> << >>, literal |-> << >>]]
Endings ==
  UNION {Suffixes(Dummy(types)) : types \in
    {<<"CREATE", "TABLE", "IDENT", "LPAREN", "IDENT", "KW_INT64", "RPAREN">>,
     <<"INSERT", "INTO", "IDENT", "VALUES", "LPAREN", "INT_LIT", "RPAREN">>,
     <<"SELECT", "SUM", "LPAREN", "IDENT", "RPAREN", "FROM", "IDENT">>,
     <<"SELECT", "IDENT", "FROM", "IDENT">>,
     <<"IDENT", "EQ", "IDENT">>, <<"BY", "IDENT">>}}
CanBegin(s) == \E e \in Endings : IsStmt(s \o e)

Taken(i) == SubSeq(tokens, 1, IF i <= Len(tokens) THEN i ELSE Len(tokens))

\* A statement that is parsed says what was written: it is what the tokens up
\* to the cursor mean.  The token behind them, and with it everything that
\* follows, is only left unread if no statement could have gone on with it.
StmtIsWritten ==
  pc = "done" =>
    /\ IsStmt(Taken(cursor - 1))
    /\ stmt = Meaning(Taken(cursor - 1))
    /\ ~CanBegin(Taken(cursor))

\* The parser throws at the first token with which no statement can go on, and
\* never before.
ThrowsAtFirstWrong ==
  /\ pc \in P!Labels => CanBegin(Taken(cursor - 1))
  /\ pc = "error" /\ Lexed => ~CanBegin(Taken(cursor))

\* Every statement is answered: lexer and parser come to an end.
Terminates == <>(pc \in {"done", "error"})

----------------------------------------------------------------------------
(* What the documentation says *)

\* The INSERTs of the documentation can be parsed, and the columns of their
\* tables take the values: docs/challenges/06-limits.md:45-46, after CREATE
\* TABLE extremes (big INT64, small FLOAT64), "INSERT INTO extremes VALUES
\* (9223372036854775807, 1.7976931348623157e+308);" and "... VALUES
\* (-9223372036854775808, 5e-324);"; and docs/challenges/05-types.md:35, after
\* CREATE TABLE flags (id INT64, active BOOLEAN), "INSERT INTO flags VALUES
\* (1, 1);".  None of the three is stored.
DocumentedRowsAreStored ==
  /\ pc # "error"
  /\ pc = "done" => Appends(Documented[src_], stmt.values)
=============================================================================
