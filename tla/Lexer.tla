------------------------------- MODULE Lexer -------------------------------
(***************************************************************************)
(* Lexer (sql/lexer.hpp): the loop of tokenize, one token per step.        *)
(*                                                                         *)
(* A source is a sequence of characters.  Which characters are letters,    *)
(* digits and white space, and how keywords are spelled, are constants, so *)
(* that instances may be small.  The literal of a token is the text its    *)
(* value is computed from.                                                 *)
(***************************************************************************)
EXTENDS Numbers

CONSTANTS
  Sources,    \* the statements that are lexed
  Spaces, Digits, Letters,
  toupper,    \* letter -> letter
  Keywords    \* word in upper case -> TokenType

VARIABLES
  src_, pos_,
  tokens,     \* the vector tokenize builds
  pc          \* "lex", then "parse" or "error"

lexer == <<src_, pos_, tokens, pc>>

EofToken == [type |-> "EOF_TOK", text |-> << >>, literal |-> << >>]
NoToken == EofToken

At(i, chars) == i <= Len(src_) /\ src_[i] \in chars

\* where the longest run of such characters from i on ends
RunEnd(i, chars) ==
  CHOOSE j \in i .. Len(src_) + 1 :
    ~At(j, chars) /\ \A k \in i .. j - 1 : At(k, chars)

\* Mutant of skip_whitespace: if where the code has while.
skip_whitespace_once(i) == IF At(i, Spaces) THEN i + 1 ELSE i

skip_whitespace(i) == RunEnd(i, Spaces)

\* A token, and where the source goes on after it.
Read(type, text, literal, end) ==
  [token |-> [type |-> type, text |-> text, literal |-> literal], end |-> end]
Unreadable(i) == [token |-> NoToken, end |-> i]
Text(from, end) == SubSeq(src_, from, end - 1)

\* a string goes to the next quote, or to the end of the source
Close(i) ==
  CHOOSE j \in i + 1 .. Len(src_) + 1 :
    /\ j > Len(src_) \/ src_[j] = "'"
    /\ \A k \in i + 1 .. j - 1 : src_[k] # "'"
StringTo(i, end) ==
  LET val == Text(i + 1, Close(i))
  IN Read("STRING_LIT", <<"'">> \o val \o <<"'">>, val, end)

\* Mutant of read_string: the quote that closes the string is left standing.
read_string_open(i) == StringTo(i, Close(i))

read_string(i) ==
  StringTo(i, IF Close(i) <= Len(src_) THEN Close(i) + 1 ELSE Close(i))

\* digits and dots, unless std::stoll or std::stod throws
read_number(i) ==
  LET end == RunEnd(i, Digits \cup {"."})
      num == Text(i, end)
  IN IF OutOfRange(num) THEN Unreadable(end)
     ELSE IF HasDot(num) THEN Read("FLOAT_LIT", num, stod(num), end)
     ELSE Read("INT_LIT", num, num, end)

read_ident_or_keyword(i) ==
  LET end == RunEnd(i, Letters \cup Digits)
      word == Text(i, end)
      upper == [k \in DOMAIN word |->
                  IF word[k] \in DOMAIN toupper THEN toupper[word[k]]
                  ELSE word[k]]
  IN Read(IF upper \in DOMAIN Keywords THEN Keywords[upper] ELSE "IDENT",
          word, << >>, end)

Symbols ==
  {<<"(", "LPAREN">>, <<")", "RPAREN">>, <<",", "COMMA">>, <<";", "SEMICOLON">>,
   <<"*", "STAR">>, <<"=", "EQ">>, <<"<", "LT">>, <<">", "GT">>}
BeforeEq == {<<"<", "LEQ">>, <<">", "GEQ">>, <<"!", "NEQ">>}

\* Mutant of read_symbol: the second character of an operator is forgotten.
read_symbol_short(i) ==
  IF \E s \in Symbols : s[1] = src_[i]
  THEN LET s == CHOOSE s \in Symbols : s[1] = src_[i]
       IN Read(s[2], <<src_[i]>>, << >>, i + 1)
  ELSE Unreadable(i + 1)

read_symbol(i) ==
  LET wide == {s \in BeforeEq : s[1] = src_[i] /\ At(i + 1, {"="})}
      narrow == {s \in Symbols : s[1] = src_[i]}
      type(S) == (CHOOSE s \in S : TRUE)[2]
  IN IF wide # {} THEN Read(type(wide), Text(i, i + 2), << >>, i + 2)
     ELSE IF narrow # {} THEN Read(type(narrow), Text(i, i + 1), << >>, i + 1)
     ELSE Unreadable(i + 1)

next_token(i) ==
  IF src_[i] = "'" THEN read_string(i)
  ELSE IF src_[i] \in Digits THEN read_number(i)
  ELSE IF src_[i] \in Letters THEN read_ident_or_keyword(i)
  ELSE read_symbol(i)

----------------------------------------------------------------------------
Init ==
  /\ src_ \in Sources
  /\ pos_ = 1
  /\ tokens = << >>
  /\ pc = "lex"

\* one round of the loop: skip_whitespace, then a token or the end
Tokenize ==
  /\ pc = "lex"
  /\ LET i == skip_whitespace(pos_) IN
     /\ i <= Len(src_)
     /\ next_token(i).token # NoToken
     /\ tokens' = Append(tokens, next_token(i).token)
     /\ pos_' = next_token(i).end
  /\ UNCHANGED <<src_, pc>>

EndOfSource ==
  /\ pc = "lex"
  /\ LET i == skip_whitespace(pos_) IN i > Len(src_) /\ pos_' = i
  /\ tokens' = Append(tokens, EofToken)
  /\ pc' = "parse"
  /\ UNCHANGED src_

\* Mutant of LexerThrows: the bad character is skipped by nobody and met again.
LexerRetries ==
  /\ pc = "lex"
  /\ LET i == skip_whitespace(pos_) IN
     /\ i <= Len(src_)
     /\ next_token(i).token = NoToken
     /\ pos_' = i
  /\ UNCHANGED <<src_, tokens, pc>>

LexerThrows ==
  /\ pc = "lex"
  /\ LET i == skip_whitespace(pos_) IN
     /\ i <= Len(src_)
     /\ next_token(i).token = NoToken
     /\ pos_' = next_token(i).end
  /\ pc' = "error"
  /\ UNCHANGED <<src_, tokens>>

Next == Tokenize \/ EndOfSource \/ LexerThrows
=============================================================================
