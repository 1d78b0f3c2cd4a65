------------------------------- MODULE MCSql -------------------------------
(***************************************************************************)
(* Sql for TLC: keywords of one or two letters, a few sentences with every *)
(* edit of one character, and all short sources.                           *)
(***************************************************************************)
EXTENDS Sql, TLC

CONSTANTS MaxShort

Chars(s) == [i \in 1 .. Len(s) |-> SubSeq(s, i, i)]

MCSpaces == {" "}
MCDigits == {"0", "1"}
MCtoupper == ("s" :> "S") @@ ("f" :> "F") @@ ("x" :> "X") @@ ("t" :> "T")
MCLetters == {"x", "t", "s", "f", "S", "F", "W", "G", "B", "O", "A", "N", "D",
              "M", "V", "C", "E", "I", "L", "R", "Z", "e"}
MCKeywords ==
  (<<"S">> :> "SELECT") @@ (<<"F">> :> "FROM") @@ (<<"W">> :> "WHERE")
  @@ (<<"G">> :> "GROUP") @@ (<<"B">> :> "BY") @@ (<<"O">> :> "ORDER")
  @@ (<<"A">> :> "AS") @@ (<<"A", "A">> :> "ASC") @@ (<<"D">> :> "DESC")
  @@ (<<"N">> :> "AND") @@ (<<"M">> :> "SUM") @@ (<<"V", "G">> :> "AVG")
  @@ (<<"C">> :> "CREATE") @@ (<<"E">> :> "TABLE") @@ (<<"I">> :> "INSERT")
  @@ (<<"I", "O">> :> "INTO") @@ (<<"V">> :> "VALUES") @@ (<<"L">> :> "KW_INT64")
  @@ (<<"R">> :> "KW_STRING")

Sentences ==
  {"C E t(x L,f1 R)", "I IO t V(1,'x ',0.1)", "S*F t W x!=1", "s x,M(x)A t F t",
   "S VG(x)F x W t<='' N 1>x G B x,t", "S x A x F x G B x O B x D,t AA,x"}

\* one character inserted, replaced or deleted
EditChars == {" ", "'", "1", ".", "-", "x", "A", "=", "<", "!", ",", "(", ")", "*"}
Edits(s) ==
  LET before(i) == SubSeq(s, 1, i)
      after(i) == SubSeq(s, i + 1, Len(s))
  IN {s} \cup UNION {{before(i - 1) \o after(i)}
                     \cup {before(i - 1) \o <<c>> \o after(i) : c \in EditChars}
                     \cup {before(i) \o <<c>> \o after(i) : c \in EditChars} :
                       i \in 1 .. Len(s)}
ShortChars == {" ", "'", "1", "0", ".", "A", "x", "<", "=", "!"}
MCSources ==
  UNION {Edits(Chars(s)) : s \in Sentences}
  \cup UNION {[1 .. n -> ShortChars] : n \in 0 .. MaxShort}

\* beyond DBL_MAX, and too near to 0
MCNoDoubles == {Chars("11."), Chars("10.1"), Chars("0.01")}

MCNothing == << >>
\* with x for both tables, and short numbers for the long ones
MCDocumented ==
  (Chars("I IO x V(100,1.1e+10)") :> <<"KW_INT64", "KW_FLOAT64">>)
  @@ (Chars("I IO x V(-101,1e-10)") :> <<"KW_INT64", "KW_FLOAT64">>)
  @@ (Chars("I IO x V(1,1)") :> <<"KW_INT64", "KW_BOOLEAN">>)
MCInserts == DOMAIN MCDocumented
=============================================================================
