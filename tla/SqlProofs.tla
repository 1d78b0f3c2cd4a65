----------------------------- MODULE SqlProofs -----------------------------
(***************************************************************************)
(* For every source and every choice of the lexer's constants.             *)
(*                                                                         *)
(* The parser never looks behind the tokens it was given: the vector ends  *)
(* with END, no method goes on with END, and a method which takes END      *)
(* without having looked at it throws.                                     *)
(*                                                                         *)
(* The lexer throws for just the sources with a misplaced character, and   *)
(* the tokens are the source, each as long as it can be: a round of the    *)
(* lexer always starts at a Boundary, outside of strings, words and        *)
(* numbers, and covers what it reads.                                      *)
(*                                                                         *)
(* The parser throws at the first wrong token (ParseInv): what has been    *)
(* read is always what the label it stands at says (State), and from every *)
(* label one of the endings makes a statement; where no method goes on,    *)
(* nothing that begins with what has been read and the next token is one.  *)
(*                                                                         *)
(* And what it builds is what the tokens say (BuildInv): Said reads the    *)
(* statement in the tokens up to the cursor, every token that is taken     *)
(* changes both alike (Tells), and of a whole statement Said is Meaning.   *)
(***************************************************************************)
EXTENDS Sql, DataLemmas

----------------------------------------------------------------------------
(* The methods *)

\* What is asked for at a label is not END, what takes the token anyway throws,
\* and the lexer is never gone back to.
Refuses(r) ==
  /\ "EOF_TOK" \notin r.types
  /\ r.taken => r.otherwise = "error"
  /\ r.next # "lex" /\ r.otherwise # "lex"

\* No method goes on with END.
LEMMA MethodsRefuse ==
  ASSUME NEW m \in P!Methods, NEW l \in DOMAIN m
  PROVE  Refuses(m[l])
<1> USE DEF Refuses, P!Expect, P!Match
<1>1. CASE m = P!parse
  BY <1>1 DEF P!parse
<1>2. CASE m = P!parse_create
  BY <1>2 DEF P!parse_create, P!Consume, P!TypeNames
<1>3. CASE m = P!parse_insert
  BY <1>3 DEF P!parse_insert, P!Consume, P!Literals
<1>4. CASE m = P!parse_select
  BY <1>4 DEF P!parse_select
<1>5. CASE m = P!parse_select_item
  BY <1>5 DEF P!parse_select_item, P!is_agg
<1>6. CASE m = P!parse_condition
  BY <1>6 DEF P!parse_condition, P!Consume, P!Operands, P!Operators, P!Literals
<1> QED  BY <1>1, <1>2, <1>3, <1>4, <1>5, <1>6 DEF P!Methods

\* So does the parser at any label.
LEMMA RuleRefuses ==
  ASSUME NEW l \in P!Labels
  PROVE  Refuses(P!Rule(l))
<1>1. PICK m \in P!Methods : l \in DOMAIN m  BY DEF P!Labels
<1> DEFINE n == CHOOSE m_1 \in P!Methods : l \in DOMAIN m_1
<1>2. n \in P!Methods /\ l \in DOMAIN n  BY <1>1
<1>3. P!Rule(l) = n[l]  BY DEF P!Rule
<1> QED  BY <1>2, <1>3, MethodsRefuse

\* "error", "done" and "lex" are places where no token is asked for.
LEMMA NoLabels == {"error", "done", "lex"} \cap P!Labels = {}
  BY DEF P!Labels, P!Methods, P!parse, P!parse_create, P!parse_insert,
         P!parse_select, P!parse_select_item, P!parse_condition

----------------------------------------------------------------------------
(* The invariant *)

\* Whatever is parsed ends with END, and the cursor has not gone past it.
EndsWithEnd == tokens # << >> /\ tokens[Len(tokens)].type = "EOF_TOK"

CursorInv ==
  /\ \E S : tokens \in Seq(S)
  /\ pc = "lex" => cursor = 1
  /\ pc \in P!Labels => EndsWithEnd /\ cursor \in 1 .. Len(tokens)

\* The lexer only hands over to the parser after it has appended END.
LEMMA LexStep ==
  ASSUME CursorInv, Lex
  PROVE  CursorInv'
<1> USE DEF CursorInv, Lex, L!Next
<1>1. PICK S : tokens \in Seq(S)  OBVIOUS
<1>2. pc = "lex" /\ cursor' = cursor /\ cursor = 1
  BY DEF L!Tokenize, L!EndOfSource, L!LexerThrows
<1>3. CASE L!Tokenize
  <2>1. PICK t : tokens' = Append(tokens, t)  BY <1>3 DEF L!Tokenize
  <2>2. tokens' \in Seq(S \cup {t})  BY <1>1, <2>1
  <2>3. pc' = "lex"  BY <1>3 DEF L!Tokenize
  <2> QED  BY <1>2, <2>2, <2>3, NoLabels
<1>4. CASE L!EndOfSource
  <2>1. tokens' = Append(tokens, L!EofToken) /\ pc' = "parse"
    BY <1>4 DEF L!EndOfSource
  <2>2. /\ tokens' \in Seq(S \cup {L!EofToken})
        /\ Len(tokens') \in Nat \ {0}
        /\ tokens'[Len(tokens')] = L!EofToken
    BY <1>1, <2>1
  <2>3. EndsWithEnd'  BY <2>2 DEF EndsWithEnd, L!EofToken
  <2> QED  BY <1>2, <2>1, <2>2, <2>3
<1>5. CASE L!LexerThrows
  <2>1. pc' = "error" /\ tokens' = tokens  BY <1>5 DEF L!LexerThrows
  <2> QED  BY <1>1, <2>1, NoLabels
<1> QED  BY <1>3, <1>4, <1>5

\* A token that is taken is not END, so there is one behind it.
LEMMA ParseStep ==
  ASSUME CursorInv, Parse
  PROVE  CursorInv'
<1> USE DEF CursorInv, Parse, P!Next, P!peek, P!consume
<1>1. PICK S : tokens \in Seq(S)  OBVIOUS
<1>2. /\ pc \in P!Labels /\ tokens' = tokens
      /\ EndsWithEnd /\ cursor \in 1 .. Len(tokens)
  BY DEF P!Take, P!GoOn
<1>3. Refuses(P!Rule(pc))  BY <1>2, RuleRefuses
<1>4. EndsWithEnd'  BY <1>2 DEF EndsWithEnd
<1>5. pc' # "lex"  BY <1>3 DEF P!Take, P!GoOn, Refuses
<1>6. CASE P!Take
  <2>1. tokens[cursor].type # "EOF_TOK"  BY <1>3, <1>6 DEF P!Take, Refuses
  <2>2. cursor # Len(tokens)  BY <1>2, <2>1 DEF EndsWithEnd
  <2>3. cursor' \in 1 .. Len(tokens')
    BY <1>1, <1>2, <1>6, <2>2 DEF P!Take
  <2> QED  BY <1>1, <1>2, <1>4, <1>5, <2>3
<1>7. CASE P!GoOn
  <2>1. CASE P!Rule(pc).taken
    <3>1. pc' = "error"  BY <1>3, <1>7, <2>1 DEF P!GoOn, Refuses
    <3> QED  BY <1>1, <1>2, <3>1, NoLabels
  <2>2. CASE ~P!Rule(pc).taken
    <3>1. cursor' = cursor  BY <1>7, <2>2 DEF P!GoOn
    <3> QED  BY <1>1, <1>2, <1>4, <1>5, <3>1
  <2> QED  BY <2>1, <2>2
<1> QED  BY <1>6, <1>7

\* The cursor never leaves the tokens, whatever the source.
THEOREM CursorIsSafe == Spec => []PeekInBounds
<1>1. Init => CursorInv
  <2> SUFFICES ASSUME Init  PROVE CursorInv  OBVIOUS
  <2>1. tokens \in Seq({}) /\ pc = "lex" /\ cursor = 1
    BY DEF Init, L!Init
  <2> QED  BY <2>1, NoLabels DEF CursorInv
<1>2. CursorInv /\ [Next]_vars => CursorInv'
  <2> SUFFICES ASSUME CursorInv, [Next]_vars  PROVE CursorInv'  OBVIOUS
  <2>1. CASE UNCHANGED vars
    BY <2>1 DEF CursorInv, EndsWithEnd, vars
  <2> QED  BY <2>1, LexStep, ParseStep DEF Next
<1>3. CursorInv => PeekInBounds
  <2> SUFFICES ASSUME CursorInv  PROVE PeekInBounds  OBVIOUS
  <2>1. PICK S : tokens \in Seq(S)  BY DEF CursorInv
  <2>2. DOMAIN tokens = 1 .. Len(tokens)  BY <2>1
  <2> QED  BY <2>2 DEF CursorInv, PeekInBounds
<1> QED  BY <1>1, <1>2, <1>3, PTL DEF Spec

----------------------------------------------------------------------------
(* Runs of characters *)

Numeric == Digits \cup {"."}

Place(i) == i \in 1 .. Len(src_)

LEMMA SourceIs ==
  ASSUME src_ \in Sources
  PROVE  Len(src_) \in Nat /\ DOMAIN src_ = 1 .. Len(src_)
<1>1. PICK S : src_ \in Seq(S)  BY SourcesAssumption
<1> QED  BY <1>1

LEMMA RunEndIs ==
  ASSUME src_ \in Sources, NEW i \in 1 .. Len(src_) + 1, NEW chars
  PROVE  LET j == L!RunEnd(i, chars)
         IN /\ j \in i .. Len(src_) + 1
            /\ Place(j) => src_[j] \notin chars
            /\ \A k \in i .. j - 1 : Place(k) /\ src_[k] \in chars
<1>1. PICK n : n = Len(src_)  OBVIOUS
<1>2. n \in Nat /\ i \in Nat  BY <1>1, SourceIs
<1>3. PICK T : T = {j \in i .. n + 1 : ~L!At(j, chars)}  OBVIOUS
<1>4. n + 1 \in T  BY <1>1, <1>2, <1>3 DEF L!At
<1>5. PICK x \in T : \A k \in i .. x - 1 : k \notin T
  <2>1. T \subseteq i .. n + 1 /\ n + 1 \in Nat  BY <1>2, <1>3
  <2> QED  BY <1>2, <1>4, <2>1, FirstIn
<1>6. x \in i .. n + 1 /\ ~L!At(x, chars) /\ \A k \in i .. x - 1 : L!At(k, chars)
  <2>1. x \in i .. n + 1 /\ ~L!At(x, chars)  BY <1>3
  <2>2. \A k \in i .. x - 1 : k \in i .. n + 1  BY <1>2, <2>1
  <2> QED  BY <1>3, <1>5, <2>1, <2>2
<1>7. PICK j : j = L!RunEnd(i, chars)  OBVIOUS
<1>8. /\ j \in i .. n + 1 /\ ~L!At(j, chars)
      /\ \A k \in i .. j - 1 : L!At(k, chars)
  BY <1>1, <1>6, <1>7 DEF L!RunEnd
<1>9. Place(j) => src_[j] \notin chars  BY <1>1, <1>2, <1>8 DEF L!At, Place
<1>10. \A k \in i .. j - 1 : Place(k) /\ src_[k] \in chars
  BY <1>1, <1>2, <1>8 DEF L!At, Place
<1> QED  BY <1>1, <1>7, <1>8, <1>9, <1>10

LEMMA CloseIs ==
  ASSUME src_ \in Sources, NEW i \in 1 .. Len(src_)
  PROVE  LET j == L!Close(i)
         IN /\ j \in i + 1 .. Len(src_) + 1
            /\ Place(j) => src_[j] = "'"
            /\ \A k \in i + 1 .. j - 1 : src_[k] # "'"
<1>1. PICK n : n = Len(src_)  OBVIOUS
<1>2. n \in Nat /\ i \in Nat /\ i + 1 \in Nat /\ i <= n  BY <1>1, SourceIs
<1>3. PICK T : T = {j \in i + 1 .. n + 1 : j > n \/ src_[j] = "'"}  OBVIOUS
<1>4. n + 1 \in T  BY <1>2, <1>3
<1>5. PICK x \in T : \A k \in i + 1 .. x - 1 : k \notin T
  <2>1. T \subseteq i + 1 .. n + 1 /\ n + 1 \in Nat  BY <1>2, <1>3
  <2> QED  BY <1>2, <1>4, <2>1, FirstIn
<1>6. x \in i + 1 .. n + 1 /\ (x > n \/ src_[x] = "'")
      /\ \A k \in i + 1 .. x - 1 : src_[k] # "'"
  <2>1. x \in i + 1 .. n + 1 /\ (x > n \/ src_[x] = "'")  BY <1>3
  <2>2. \A k \in i + 1 .. x - 1 : k \in i + 1 .. n + 1  BY <1>2, <2>1
  <2> QED  BY <1>3, <1>5, <2>1, <2>2
<1>7. PICK j : j = L!Close(i)  OBVIOUS
<1>8. /\ j \in i + 1 .. n + 1 /\ (j > n \/ src_[j] = "'")
      /\ \A k \in i + 1 .. j - 1 : src_[k] # "'"
  BY <1>1, <1>6, <1>7 DEF L!Close
<1>9. Place(j) => src_[j] = "'"  BY <1>1, <1>2, <1>8 DEF Place
<1> QED  BY <1>1, <1>7, <1>8, <1>9

\* Where a number starts.
LEMMA RunStartIs ==
  ASSUME src_ \in Sources, NEW i, Place(i), NEW s \in 1 .. i,
         \A k \in s .. i : src_[k] \in Numeric,
         s # 1 => src_[s - 1] \notin Numeric
  PROVE  InNumber(src_, i) <=> src_[s] \in Digits /\ (s = 1 \/ src_[s - 1] \notin Letters)
<1>1. i \in Nat /\ s \in Nat /\ s <= i /\ s >= 1  BY SourceIs DEF Place
<1>2. PICK T : T = {j \in 1 .. i : \A k \in j .. i : src_[k] \in Numeric}  OBVIOUS
<1>3. s \in T  BY <1>2
<1>4. \A j \in T : s <= j
  <2> SUFFICES ASSUME NEW j \in T, j < s  PROVE FALSE
    BY <1>1, <1>2
  <2>1. s # 1 /\ s - 1 \in j .. i  BY <1>1, <1>2
  <2> QED  BY <1>2, <2>1
<1>5. PICK m : m = RunStart(src_, i, Numeric)  OBVIOUS
<1>6. m \in T /\ \A j \in T : m <= j
  BY <1>2, <1>3, <1>4, <1>5 DEF RunStart, Min
<1>7. m = s  BY <1>1, <1>2, <1>3, <1>4, <1>6
<1> QED  BY <1>5, <1>7 DEF InNumber, Numeric

\* The run of digits and dots around a place, from where it starts to where the
\* lexer finds its end.
LEMMA RunIs ==
  ASSUME src_ \in Sources, NEW i, Place(i), NEW s \in 1 .. i,
         NEW e \in i + 1 .. Len(src_) + 1,
         \A k \in s .. e - 1 : src_[k] \in Numeric,
         s # 1 => src_[s - 1] \notin Numeric,
         Place(e) => src_[e] \notin Numeric
  PROVE  Run(src_, i, Numeric) = L!Text(s, e)
<1>1. PICK n : n = Len(src_)  OBVIOUS
<1>2. /\ n \in Nat /\ i \in 1 .. n /\ i \in Nat /\ s \in Nat /\ s <= i /\ s >= 1
      /\ e \in Nat /\ i <= e - 1 /\ e - 1 <= n /\ e - 1 \in i .. n
  BY <1>1, SourceIs DEF Place
<1>3. PICK T : T = {j \in 1 .. i : \A k \in j .. i : src_[k] \in Numeric}  OBVIOUS
<1>4. s \in T  BY <1>2, <1>3
<1>5. \A j \in T : s <= j
  <2> SUFFICES ASSUME NEW j \in T, j < s  PROVE FALSE
    BY <1>2, <1>3
  <2>1. s # 1 /\ s - 1 \in j .. i  BY <1>2, <1>3
  <2> QED  BY <1>3, <2>1
<1>6. PICK a : a = RunStart(src_, i, Numeric)  OBVIOUS
<1>7. a \in T /\ \A j \in T : a <= j
  BY <1>3, <1>4, <1>5, <1>6 DEF RunStart, Min
<1>8. a = s  BY <1>2, <1>3, <1>4, <1>5, <1>7
<1>9. PICK U : U = {j \in i .. n : \A k \in i .. j : src_[k] \in Numeric}  OBVIOUS
<1>10. e - 1 \in U  BY <1>2, <1>9
<1>11. \A j \in U : j <= e - 1
  <2> SUFFICES ASSUME NEW j \in U, ~(j <= e - 1)  PROVE FALSE
    OBVIOUS
  <2>1. e \in i .. j /\ e \in 1 .. n  BY <1>2, <1>9
  <2> QED  BY <1>1, <1>9, <2>1 DEF Place
<1>12. PICK b : b = RunStop(src_, i, Numeric)  OBVIOUS
<1>13. b \in U /\ \A j \in U : b >= j
  BY <1>1, <1>9, <1>10, <1>11, <1>12 DEF RunStop, Max
<1>14. b = e - 1
  <2>1. b \in i .. n  BY <1>9, <1>13
  <2>2. b <= e - 1 /\ b >= e - 1  BY <1>10, <1>11, <1>13
  <2> QED  BY <1>2, <2>1, <2>2
<1> QED  BY <1>6, <1>8, <1>12, <1>14 DEF Run, L!Text

\* The lexer and the grammar read numbers alike.
LEMMA RangesAgree ==
  ASSUME NEW num
  PROVE  L!OutOfRange(num) <=> OutOfRange(num)
BY DEF L!OutOfRange, OutOfRange, L!HasDot, HasDot, L!stod, stod, L!Value, Value,
       L!Figure, Figure, L!Figures, Figures

----------------------------------------------------------------------------
(* Quotes *)

LEMMA QuotesStep ==
  ASSUME NEW s, NEW i \in Nat
  PROVE  /\ Quotes(s, i) \in Nat
         /\ s[i + 1] # "'" => Quotes(s, i + 1) = Quotes(s, i)
         /\ s[i + 1] = "'" => Quotes(s, i + 1) = Quotes(s, i) + 1
<1>1. PICK a : a = {k \in 1 .. i : s[k] = "'"}  OBVIOUS
<1>2. PICK b : b = {k \in 1 .. i + 1 : s[k] = "'"}  OBVIOUS
<1>3. Quotes(s, i) = Cardinality(a) /\ Quotes(s, i + 1) = Cardinality(b)
  BY <1>1, <1>2 DEF Quotes, Cardinality, Cardinality
<1>4. IsFiniteSet(a)
  <2>1. IsFiniteSet(1 .. i)  BY FS_Interval
  <2> QED  BY <1>1, <2>1, FS_Subset
<1>5. Cardinality(a) \in Nat  BY <1>4, FS_CardinalityType
<1>6. CASE s[i + 1] # "'"
  <2>1. a = b  BY <1>1, <1>2, <1>6
  <2> QED  BY <1>3, <1>5, <1>6, <2>1
<1>7. CASE s[i + 1] = "'"
  <2>1. b = a \cup {i + 1} /\ i + 1 \notin a  BY <1>1, <1>2, <1>7
  <2>2. Cardinality(b) = Cardinality(a) + 1  BY <1>4, <2>1, FS_AddElement
  <2> QED  BY <1>3, <1>5, <1>7, <2>2
<1> QED  BY <1>6, <1>7

LEMMA NoQuotes ==
  ASSUME NEW s
  PROVE  Quotes(s, 0) = 0
<1>1. {k \in 1 .. 0 : s[k] = "'"} = {}  OBVIOUS
<1> QED  BY <1>1, FS_EmptySet DEF Quotes, Cardinality, Cardinality

LEMMA QuotesSame ==
  ASSUME NEW s, NEW i \in Nat, NEW j \in Nat, i <= j,
         \A k \in i + 1 .. j : s[k] # "'"
  PROVE  Quotes(s, j) = Quotes(s, i)
<1> DEFINE S == {d \in Nat : i + d <= j => Quotes(s, i + d) = Quotes(s, i)}
<1>1. 0 \in S
  <2>1. i + 0 = i  OBVIOUS
  <2> QED  BY <2>1
<1>2. ASSUME NEW d \in Nat, d \in S  PROVE d + 1 \in S
  <2> SUFFICES ASSUME i + (d + 1) <= j
               PROVE  Quotes(s, i + (d + 1)) = Quotes(s, i)
    OBVIOUS
  <2>1. PICK k : k = i + d  OBVIOUS
  <2>2. k \in Nat /\ k + 1 \in i + 1 .. j /\ k + 1 = i + (d + 1) /\ i + d <= j
    BY <2>1
  <2>3. Quotes(s, k) = Quotes(s, i)  BY <1>2, <2>1, <2>2
  <2>4. Quotes(s, k + 1) = Quotes(s, k)  BY <2>2, QuotesStep
  <2> QED  BY <2>2, <2>3, <2>4
<1>3. \A d \in Nat : d \in S
  <2> HIDE DEF S
  <2> QED  BY <1>1, <1>2, Induction
<1>4. j - i \in Nat /\ i + (j - i) = j  OBVIOUS
<1> QED  BY <1>3, <1>4

----------------------------------------------------------------------------
(* Characters that are not misplaced *)

LEMMA PlainIs ==
  ASSUME NEW k, src_[k] \in Spaces \cup Letters \cup (Signs \ {"!", "."})
  PROVE  ~Misplaced(src_, k)
<1>1. src_[k] # "!" /\ src_[k] # "." /\ src_[k] \notin Digits
  BY CharactersAssumption DEF Signs
<1>2. src_[k] \in Spaces \cup Digits \cup Letters
                  \cup {"'", "(", ")", ",", ";", "*", "=", "<", ">", "!", "."}
  BY DEF Signs
<1> QED  BY <1>1, <1>2 DEF Misplaced

\* A token may begin at i: i is in no string, and a number that begins here or
\* a dot that stands here does not go on anything.
Boundary(i) ==
  /\ i \in 1 .. Len(src_) + 1
  /\ Place(i) => Quotes(src_, i - 1) % 2 = 0
  /\ Place(i) /\ src_[i] \in Digits /\ i # 1 => src_[i - 1] \notin Letters \cup Numeric
  /\ Place(i) /\ src_[i] = "." => ~InNumber(src_, i)

Clean(i) == \A k \in 1 .. i - 1 : ~Misplaced(src_, k)

\* Behind what goes on in no token a token may begin.
LEMMA BeginsBehind ==
  ASSUME src_ \in Sources, NEW j, Place(j), src_[j] \notin Letters \cup Numeric,
         Quotes(src_, j) % 2 = 0
  PROVE  Boundary(j + 1)
<1>1. Len(src_) \in Nat /\ j \in Nat /\ j \in 1 .. Len(src_)  BY SourceIs DEF Place
<1>2. (j + 1) - 1 = j /\ j + 1 \in 1 .. Len(src_) + 1 /\ j + 1 # 1  BY <1>1
<1>3. ASSUME Place(j + 1), src_[j + 1] = "."
      PROVE  ~InNumber(src_, j + 1)
  <2>1. src_[j + 1] \in Numeric /\ src_[j + 1] \notin Digits
    BY <1>3, CharactersAssumption DEF Numeric, Signs
  <2>2. j + 1 \in 1 .. j + 1 /\ \A k \in j + 1 .. j + 1 : k = j + 1  BY <1>1
  <2>3. \A k \in j + 1 .. j + 1 : src_[k] \in Numeric  BY <2>1, <2>2
  <2> QED  BY <1>2, <1>3, <2>1, <2>2, <2>3, RunStartIs
<1> QED  BY <1>2, <1>3 DEF Boundary

LEMMA CleanOn ==
  ASSUME src_ \in Sources, NEW i \in 1 .. Len(src_) + 1, NEW j \in i .. Len(src_) + 1,
         Clean(i), \A k \in i .. j - 1 : ~Misplaced(src_, k)
  PROVE  Clean(j)
<1>1. Len(src_) \in Nat  BY SourceIs
<1>2. \A k \in 1 .. j - 1 : k \in 1 .. i - 1 \/ k \in i .. j - 1  BY <1>1
<1> QED  BY <1>2 DEF Clean

LEMMA SpacesSkipped ==
  ASSUME src_ \in Sources, NEW p, Boundary(p), Clean(p)
  PROVE  LET i == L!skip_whitespace(p)
         IN /\ i \in 1 .. Len(src_) + 1 /\ Boundary(i) /\ Clean(i)
            /\ Place(i) => src_[i] \notin Spaces
<1>1. PICK i : i = L!skip_whitespace(p)  OBVIOUS
<1>2. PICK n : n = Len(src_)  OBVIOUS
<1>3. n \in Nat /\ p \in Nat /\ p \in 1 .. n + 1  BY <1>2, SourceIs DEF Boundary
<1>4. /\ i \in p .. n + 1
      /\ Place(i) => src_[i] \notin Spaces
      /\ \A k \in p .. i - 1 : Place(k) /\ src_[k] \in Spaces
  BY <1>1, <1>2, <1>3, RunEndIs DEF L!skip_whitespace
<1>5. Clean(i)
  <2>1. \A k \in p .. i - 1 : ~Misplaced(src_, k)  BY <1>4, PlainIs
  <2> QED  BY <1>2, <1>3, <1>4, <2>1, CleanOn
<1>6. Boundary(i)
  <2>1. CASE i = p  BY <2>1
  <2>2. CASE i # p
    <3>1. /\ i - 1 \in p .. i - 1 /\ i - 1 \in Nat /\ p - 1 \in Nat /\ p - 1 <= i - 1
          /\ (p - 1) + 1 = p /\ (i - 1) + 1 = i /\ p \in p .. i - 1
      BY <1>3, <1>4, <2>2
    <3>2. Place(i - 1) /\ src_[i - 1] \in Spaces /\ Place(p)  BY <1>4, <3>1
    <3>3. src_[i - 1] \notin Letters \cup Numeric
      BY <3>2, CharactersAssumption DEF Numeric, Signs
    <3>4. \A k \in p .. i - 1 : src_[k] # "'"
      BY <1>4, CharactersAssumption DEF Signs
    <3>5. Quotes(src_, i - 1) = Quotes(src_, p - 1)  BY <3>1, <3>4, QuotesSame
    <3>6. Quotes(src_, i - 1) % 2 = 0  BY <3>2, <3>5 DEF Boundary
    <3>7. Boundary((i - 1) + 1)  BY <3>2, <3>3, <3>6, BeginsBehind
    <3> QED  BY <3>1, <3>7
  <2> QED  BY <2>1, <2>2
<1>7. i \in 1 .. n + 1  BY <1>3, <1>4
<1> QED  BY <1>1, <1>2, <1>4, <1>5, <1>6, <1>7

----------------------------------------------------------------------------
(* Tokens *)

\* What a read from i on comes to: a token with which nothing misplaced is
\* passed, or something misplaced.
ReadsWell(r) ==
  IF r.token # L!NoToken
  THEN Boundary(r.end) /\ Clean(r.end)
  ELSE \E k \in DOMAIN src_ : Misplaced(src_, k)

\* Between the quote that opens a string and the next there is no other.
LEMMA StringIs ==
  ASSUME src_ \in Sources, NEW i, Place(i), Boundary(i), src_[i] = "'"
  PROVE  LET j == L!Close(i)
         IN /\ j \in i + 1 .. Len(src_) + 1
            /\ \A k \in i .. j - 1 : Quotes(src_, k) % 2 = 1
            /\ Place(j) => src_[j] = "'" /\ Quotes(src_, j) % 2 = 0
<1>1. PICK n : n = Len(src_)  OBVIOUS
<1>2. /\ n \in Nat /\ i \in Nat /\ i \in 1 .. n /\ i - 1 \in Nat /\ (i - 1) + 1 = i
  BY <1>1, SourceIs DEF Place
<1>3. PICK j : j = L!Close(i)  OBVIOUS
<1>4. /\ j \in i + 1 .. n + 1 /\ (Place(j) => src_[j] = "'")
      /\ \A k \in i + 1 .. j - 1 : src_[k] # "'"
  BY <1>1, <1>2, <1>3, CloseIs
<1>5. PICK q \in Nat : q = Quotes(src_, i - 1)  BY <1>2, QuotesStep
<1>6. q % 2 = 0  BY <1>5 DEF Boundary
<1>7. Quotes(src_, i) = q + 1  BY <1>2, <1>5, QuotesStep
<1>8. \A k \in i .. j - 1 : Quotes(src_, k) = q + 1
  <2> TAKE k \in i .. j - 1
  <2>1. k \in Nat /\ i <= k /\ \A m \in i + 1 .. k : m \in i + 1 .. j - 1
    BY <1>2, <1>4
  <2>2. \A m \in i + 1 .. k : src_[m] # "'"  BY <1>4, <2>1
  <2> QED  BY <1>2, <1>7, <2>1, <2>2, QuotesSame
<1>9. (q + 1) % 2 = 1 /\ ((q + 1) + 1) % 2 = 0  BY <1>6
<1>10. Place(j) => Quotes(src_, j) = (q + 1) + 1
  <2>1. j - 1 \in i .. j - 1 /\ j - 1 \in Nat /\ (j - 1) + 1 = j  BY <1>2, <1>4
  <2>2. Quotes(src_, j - 1) = q + 1  BY <1>8, <2>1
  <2> QED  BY <1>4, <2>1, <2>2, QuotesStep
<1> QED  BY <1>1, <1>3, <1>4, <1>8, <1>9, <1>10

LEMMA StringRead ==
  ASSUME src_ \in Sources, NEW i, Place(i), Boundary(i), Clean(i), src_[i] = "'"
  PROVE  ReadsWell(L!read_string(i))
<1>1. PICK n : n = Len(src_)  OBVIOUS
<1>2. n \in Nat /\ i \in Nat /\ i \in 1 .. n /\ i \in 1 .. n + 1
  BY <1>1, SourceIs DEF Place
<1>3. PICK j : j = L!Close(i)  OBVIOUS
<1>4. /\ j \in i + 1 .. n + 1 /\ j \in Nat
      /\ \A k \in i .. j - 1 : Quotes(src_, k) % 2 = 1
      /\ Place(j) => src_[j] = "'" /\ Quotes(src_, j) % 2 = 0
  <2>1. j \in i + 1 .. n + 1
    BY <1>1, <1>3, StringIs
  <2> QED  BY <1>2, <1>3, <2>1, StringIs
<1>5. \A k \in i + 1 .. j : ~Misplaced(src_, k)
  <2> TAKE k \in i + 1 .. j
  <2>1. k - 1 \in i .. j - 1  BY <1>2, <1>4
  <2> QED  BY <1>4, <2>1 DEF Misplaced, InString
<1>6. ~Misplaced(src_, i)  BY PlainIs DEF Signs
<1>7. PICK e : e = IF j <= n THEN j + 1 ELSE j  OBVIOUS
<1>8. e \in i .. n + 1 /\ e \in 1 .. n + 1  BY <1>2, <1>4, <1>7
<1>9. Clean(e)
  <2>1. \A k \in i .. e - 1 : k = i \/ k \in i + 1 .. j  BY <1>2, <1>4, <1>7, <1>8
  <2>2. \A k \in i .. e - 1 : ~Misplaced(src_, k)  BY <1>5, <1>6, <2>1
  <2> QED  BY <1>1, <1>2, <1>8, <2>2, CleanOn
<1>10. Boundary(e)
  <2>1. CASE j <= n
    <3>1. Place(j)  BY <1>1, <1>2, <1>4, <2>1 DEF Place
    <3>2. src_[j] \notin Letters \cup Numeric
      BY <1>4, <3>1, CharactersAssumption DEF Numeric, Signs
    <3> QED  BY <1>4, <1>7, <2>1, <3>1, <3>2, BeginsBehind
  <2>2. CASE ~(j <= n)
    <3>1. e = j /\ ~Place(e)  BY <1>1, <1>2, <1>4, <1>7, <2>2 DEF Place
    <3> QED  BY <1>1, <1>8, <3>1 DEF Boundary
  <2> QED  BY <2>1, <2>2
<1>11. /\ L!read_string(i).token.type = "STRING_LIT"
       /\ L!read_string(i).end = e
  BY <1>1, <1>3, <1>7 DEF L!read_string, L!StringTo, L!Read
<1>12. L!read_string(i).token # L!NoToken
  BY <1>11 DEF L!NoToken, L!EofToken
<1> QED  BY <1>9, <1>10, <1>11, <1>12 DEF ReadsWell

LEMMA TextIs ==
  ASSUME src_ \in Sources, NEW i \in 1 .. Len(src_) + 1, NEW e \in i .. Len(src_) + 1
  PROVE  LET t == L!Text(i, e)
         IN /\ DOMAIN t = 1 .. e - i /\ Len(t) = e - i
            /\ \A m \in 1 .. e - i : t[m] = src_[i + m - 1]
            /\ \A k \in i .. e - 1 : k - i + 1 \in 1 .. e - i /\ t[k - i + 1] = src_[k]
<1>1. PICK S : src_ \in Seq(S)  BY SourcesAssumption
<1>2. PICK n : n = Len(src_)  OBVIOUS
<1>3. n \in Nat /\ i \in Nat /\ e \in Nat /\ i <= n + 1 /\ i >= 1 /\ i <= e /\ e <= n + 1
  BY <1>2, SourceIs
<1>4. PICK t : t = SubSeq(src_, i, e - 1)  OBVIOUS
<1>5. /\ DOMAIN t = 1 .. e - i /\ Len(t) = e - i
      /\ \A m \in 1 .. e - i : t[m] = src_[i + m - 1]
  BY <1>1, <1>2, <1>3, <1>4
<1>6. ASSUME NEW k \in i .. e - 1
      PROVE  k - i + 1 \in 1 .. e - i /\ t[k - i + 1] = src_[k]
  <2>1. k - i + 1 \in 1 .. e - i /\ i + (k - i + 1) - 1 = k  BY <1>3
  <2> QED  BY <1>5, <2>1
<1> QED  BY <1>4, <1>5, <1>6 DEF L!Text

\* The places of a number that is read: each of them is in the number.
LEMMA NumberIs ==
  ASSUME src_ \in Sources, NEW i, Place(i), Boundary(i), src_[i] \in Digits
  PROVE  LET e == L!RunEnd(i, Numeric)
         IN /\ e \in i + 1 .. Len(src_) + 1
            /\ Place(e) => src_[e] \notin Numeric
            /\ \A k \in i .. e - 1 : /\ Place(k) /\ src_[k] \in Numeric
                                     /\ InNumber(src_, k) /\ ~InString(src_, k)
            /\ Quotes(src_, e - 1) % 2 = 0
            /\ i # 1 => src_[i - 1] \notin Letters \cup Numeric
<1>1. PICK n : n = Len(src_)  OBVIOUS
<1>2. n \in Nat /\ i \in Nat /\ i \in 1 .. n /\ i \in 1 .. n + 1 /\ i - 1 \in Nat /\ (i - 1) + 1 = i
  BY <1>1, SourceIs DEF Place
<1>3. PICK e : e = L!RunEnd(i, Numeric)  OBVIOUS
<1>4. /\ e \in i .. n + 1
      /\ Place(e) => src_[e] \notin Numeric
      /\ \A k \in i .. e - 1 : Place(k) /\ src_[k] \in Numeric
  BY <1>1, <1>2, <1>3, RunEndIs
<1>5. e # i  BY <1>4 DEF Numeric
<1>6. i # 1 => src_[i - 1] \notin Letters \cup Numeric  BY DEF Boundary
<1>7. \A k \in i .. e - 1 : InNumber(src_, k)
  <2> TAKE k \in i .. e - 1
  <2>1. Place(k) /\ i \in 1 .. k /\ \A m \in i .. k : m \in i .. e - 1
    BY <1>2, <1>4
  <2>2. \A m \in i .. k : src_[m] \in Numeric  BY <1>4, <2>1
  <2>3. i # 1 => src_[i - 1] \notin Numeric  BY <1>6
  <2>4. InNumber(src_, k) <=> src_[i] \in Digits /\ (i = 1 \/ src_[i - 1] \notin Letters)
    BY <2>1, <2>2, <2>3, RunStartIs
  <2> QED  BY <1>6, <2>4
<1>8. \A k \in i .. e : Quotes(src_, k - 1) % 2 = 0
  <2> TAKE k \in i .. e
  <2>1. k - 1 \in Nat /\ i - 1 <= k - 1 /\ \A m \in (i - 1) + 1 .. k - 1 : m \in i .. e - 1
    BY <1>2, <1>4
  <2>2. \A m \in (i - 1) + 1 .. k - 1 : src_[m] # "'"
    BY <1>4, <2>1, CharactersAssumption DEF Numeric, Signs
  <2>3. Quotes(src_, k - 1) = Quotes(src_, i - 1)
    BY <1>2, <2>1, <2>2, QuotesSame
  <2> QED  BY <2>3 DEF Boundary
<1>9. \A k \in i .. e - 1 : ~InString(src_, k)
  <2> TAKE k \in i .. e - 1
  <2>1. k \in i .. e  BY <1>2, <1>4
  <2>2. Quotes(src_, k - 1) % 2 = 0  BY <1>8, <2>1
  <2> QED  BY <2>2 DEF InString
<1>10. e \in i .. e /\ e \in i + 1 .. n + 1  BY <1>2, <1>4, <1>5
<1> QED  BY <1>1, <1>3, <1>4, <1>6, <1>7, <1>8, <1>9, <1>10

\* What the run of digits and dots at i is made into.
LEMMA NumberToken ==
  ASSUME NEW i, NEW e, e = L!RunEnd(i, Numeric), NEW num, num = L!Text(i, e)
  PROVE  /\ L!read_number(i).token = L!NoToken <=> L!OutOfRange(num)
         /\ L!read_number(i).token # L!NoToken =>
              /\ L!read_number(i).end = e
              /\ L!read_number(i).token.type \in {"INT_LIT", "FLOAT_LIT"}
              /\ L!read_number(i).token.text = num
<1>1. PICK f : f = L!stod(num)  OBVIOUS
<1>2. L!read_number(i) = IF L!OutOfRange(num) THEN L!Unreadable(e)
                         ELSE IF L!HasDot(num) THEN L!Read("FLOAT_LIT", num, f, e)
                         ELSE L!Read("INT_LIT", num, num, e)
  BY <1>1 DEF L!read_number, Numeric
<1>3. CASE L!OutOfRange(num)
  <2>1. L!read_number(i) = L!Unreadable(e)  BY <1>2, <1>3
  <2> QED  BY <1>3, <2>1 DEF L!Unreadable
<1>4. CASE ~L!OutOfRange(num) /\ L!HasDot(num)
  <2>1. L!read_number(i) = L!Read("FLOAT_LIT", num, f, e)  BY <1>2, <1>4
  <2> QED  BY <1>4, <2>1 DEF L!Read, L!NoToken, L!EofToken
<1>5. CASE ~L!OutOfRange(num) /\ ~L!HasDot(num)
  <2>1. L!read_number(i) = L!Read("INT_LIT", num, num, e)  BY <1>2, <1>5
  <2> QED  BY <1>5, <2>1 DEF L!Read, L!NoToken, L!EofToken
<1> QED  BY <1>3, <1>4, <1>5

LEMMA NumberRead ==
  ASSUME src_ \in Sources, NEW i, Place(i), Boundary(i), Clean(i), src_[i] \in Digits
  PROVE  ReadsWell(L!read_number(i))
<1>1. PICK n : n = Len(src_)  OBVIOUS
<1>2. /\ n \in Nat /\ i \in Nat /\ i \in 1 .. n /\ i \in 1 .. n + 1
      /\ DOMAIN src_ = 1 .. n
  BY <1>1, SourceIs DEF Place
<1>3. PICK e : e = L!RunEnd(i, Numeric)  OBVIOUS
<1>4. /\ e \in i + 1 .. n + 1
      /\ Place(e) => src_[e] \notin Numeric
      /\ \A k \in i .. e - 1 : /\ Place(k) /\ src_[k] \in Numeric
                               /\ InNumber(src_, k) /\ ~InString(src_, k)
      /\ Quotes(src_, e - 1) % 2 = 0
      /\ i # 1 => src_[i - 1] \notin Letters \cup Numeric
  BY <1>1, <1>3, NumberIs
<1>5. PICK num : num = L!Text(i, e)  OBVIOUS
<1>6. \A k \in i .. e - 1 : Run(src_, k, Numeric) = num
  <2> TAKE k \in i .. e - 1
  <2>1. Place(k) /\ i \in 1 .. k /\ e \in k + 1 .. n + 1  BY <1>2, <1>4
  <2>2. \A m \in i .. e - 1 : src_[m] \in Numeric  BY <1>4
  <2> QED  BY <1>1, <1>4, <1>5, <2>1, <2>2, RunIs
<1>7. /\ L!read_number(i).token = L!NoToken <=> L!OutOfRange(num)
      /\ L!read_number(i).token # L!NoToken => L!read_number(i).end = e
  BY <1>3, <1>5, NumberToken
<1>8. Boundary(e)
  <2>1. e \in 1 .. n + 1  BY <1>2, <1>4
  <2> QED  BY <1>1, <1>4, <2>1 DEF Boundary, Numeric
<1>9. ASSUME ~OutOfRange(num)
      PROVE  Clean(e)
  <2>1. ASSUME NEW k \in i .. e - 1
        PROVE  ~Misplaced(src_, k)
    <3>1. src_[k] \in Numeric /\ InNumber(src_, k) /\ Run(src_, k, Numeric) = num
      BY <1>4, <1>6
    <3>2. src_[k] # "!" /\ src_[k] \in Digits \cup {"."}
      BY <3>1, CharactersAssumption DEF Numeric, Signs
    <3> QED  BY <1>9, <3>1, <3>2 DEF Misplaced, Numeric
  <2>2. e \in i .. n + 1  BY <1>2, <1>4
  <2> QED  BY <1>1, <1>2, <2>1, <2>2, CleanOn
<1>10. ASSUME OutOfRange(num)
       PROVE  \E k \in DOMAIN src_ : Misplaced(src_, k)
  <2>1. i \in i .. e - 1 /\ i \in DOMAIN src_  BY <1>2, <1>4
  <2>2. InNumber(src_, i) /\ ~InString(src_, i) /\ Run(src_, i, Numeric) = num
    BY <1>4, <1>6, <2>1
  <2>3. Misplaced(src_, i)  BY <1>10, <2>2 DEF Misplaced, Numeric
  <2> QED  BY <2>1, <2>3
<1> QED  BY <1>7, <1>8, <1>9, <1>10, RangesAgree DEF ReadsWell

\* Every digit and dot stands in a run of them that has a start.
LEMMA RunHasStart ==
  ASSUME src_ \in Sources, NEW k, Place(k), src_[k] \in Numeric
  PROVE  \E s \in 1 .. k : /\ \A m \in s .. k : src_[m] \in Numeric
                           /\ s # 1 => src_[s - 1] \notin Numeric
<1>1. k \in Nat /\ k \in 1 .. k  BY SourceIs DEF Place
<1>2. PICK T : T = {s \in 1 .. k : \A m \in s .. k : src_[m] \in Numeric}  OBVIOUS
<1>3. T \subseteq Nat /\ T # {}
  <2>1. \A m \in k .. k : m = k  BY <1>1
  <2>2. k \in T  BY <1>1, <1>2, <2>1
  <2> QED  BY <1>2, <2>2
<1>4. PICK s \in T : \A r \in T : s <= r  BY <1>3, LeastNat
<1>5. s \in 1 .. k /\ \A m \in s .. k : src_[m] \in Numeric  BY <1>2
<1>6. ASSUME s # 1, src_[s - 1] \in Numeric
      PROVE  FALSE
  <2>1. s - 1 \in 1 .. k /\ ~(s <= s - 1)  BY <1>1, <1>5, <1>6
  <2>2. \A m \in s - 1 .. k : m = s - 1 \/ m \in s .. k  BY <1>1, <1>5
  <2>3. s - 1 \in T  BY <1>2, <1>5, <1>6, <2>1, <2>2
  <2> QED  BY <1>4, <2>1, <2>3
<1> QED  BY <1>5, <1>6

\* Digits that go on a word, and a dot behind it, are in no number.
LEMMA NoNumberInWord ==
  ASSUME src_ \in Sources, NEW i, Place(i), src_[i] \in Letters,
         NEW k \in i + 1 .. Len(src_), src_[k] \in Numeric,
         \A m \in i .. k - 1 : src_[m] \in Letters \cup Digits,
         src_[k] \in Digits \/ src_[k] = "."
  PROVE  ~InNumber(src_, k)
<1>1. PICK n : n = Len(src_)  OBVIOUS
<1>2. n \in Nat /\ i \in 1 .. n /\ k \in i + 1 .. n  BY <1>1, SourceIs DEF Place
<1>3. Place(k)  BY <1>1, <1>2 DEF Place
<1>4. PICK s \in 1 .. k : /\ \A m \in s .. k : src_[m] \in Numeric
                          /\ s # 1 => src_[s - 1] \notin Numeric
  BY <1>3, RunHasStart
<1>5. src_[i] \notin Numeric  BY CharactersAssumption DEF Numeric, Signs
<1>6. ~(s <= i)
  <2>1. s <= i => i \in s .. k  BY <1>2
  <2> QED  BY <1>4, <1>5, <2>1
<1>7. s # 1 /\ s - 1 \in i .. k - 1  BY <1>2, <1>6
<1>8. src_[s - 1] \in Letters  BY <1>4, <1>7 DEF Numeric
<1> QED  BY <1>3, <1>4, <1>7, <1>8, RunStartIs

LEMMA IdentRead ==
  ASSUME src_ \in Sources, NEW i, Place(i), Boundary(i), Clean(i), src_[i] \in Letters
  PROVE  ReadsWell(L!read_ident_or_keyword(i))
<1>1. PICK n : n = Len(src_)  OBVIOUS
<1>2. n \in Nat /\ i \in Nat /\ i \in 1 .. n /\ i \in 1 .. n + 1 /\ i - 1 \in Nat
      /\ (i - 1) + 1 = i
  BY <1>1, SourceIs DEF Place
<1>3. PICK e : e = L!RunEnd(i, Letters \cup Digits)  OBVIOUS
<1>4. /\ e \in i .. n + 1
      /\ Place(e) => src_[e] \notin Letters \cup Digits
      /\ \A k \in i .. e - 1 : Place(k) /\ src_[k] \in Letters \cup Digits
  BY <1>1, <1>2, <1>3, RunEndIs
<1>5. e # i  BY <1>4
<1>6. Clean(e)
  <2>1. ASSUME NEW k \in i .. e - 1
        PROVE  ~Misplaced(src_, k)
    <3>1. CASE src_[k] \in Letters  BY <3>1, PlainIs
    <3>2. CASE src_[k] \notin Letters
      <4>1. src_[k] \in Digits /\ src_[k] \in Numeric  BY <1>4, <3>2 DEF Numeric
      <4>2. k # i /\ k \in i + 1 .. n  BY <1>2, <1>4, <3>2
      <4>3. \A m \in i .. k - 1 : m \in i .. e - 1  BY <1>2, <1>4
      <4>4. \A m \in i .. k - 1 : src_[m] \in Letters \cup Digits  BY <1>4, <4>3
      <4>5. ~InNumber(src_, k)  BY <1>1, <4>1, <4>2, <4>4, NoNumberInWord
      <4>6. src_[k] # "!" /\ src_[k] # "."  BY <4>1, CharactersAssumption DEF Signs
      <4> QED  BY <4>1, <4>5, <4>6 DEF Misplaced
    <3> QED  BY <3>1, <3>2
  <2> QED  BY <1>1, <1>2, <1>4, <2>1, CleanOn
<1>7. Boundary(e)
  <2>1. e \in 1 .. n + 1  BY <1>2, <1>4
  <2>2. Place(e) => Quotes(src_, e - 1) % 2 = 0
    <3>1. e - 1 \in Nat /\ i - 1 <= e - 1 /\ \A m \in (i - 1) + 1 .. e - 1 : m \in i .. e - 1
      BY <1>2, <1>4
    <3>2. \A m \in (i - 1) + 1 .. e - 1 : src_[m] # "'"
      BY <1>4, <3>1, CharactersAssumption DEF Signs
    <3>3. Quotes(src_, e - 1) = Quotes(src_, i - 1)
      BY <1>2, <3>1, <3>2, QuotesSame
    <3> QED  BY <3>3 DEF Boundary
  <2>3. ASSUME Place(e), src_[e] = "."
        PROVE  ~InNumber(src_, e)
    <3>1. e \in i + 1 .. n /\ src_[e] \in Numeric
      BY <1>1, <1>2, <1>4, <1>5, <2>3 DEF Place, Numeric
    <3> QED  BY <1>1, <1>4, <2>3, <3>1, NoNumberInWord
  <2> QED  BY <1>1, <1>4, <2>1, <2>2, <2>3 DEF Boundary
<1>8. /\ L!read_ident_or_keyword(i).token.type # "EOF_TOK"
      /\ L!read_ident_or_keyword(i).end = e
  <2>1. PICK word : word = L!Text(i, e)  OBVIOUS
  <2>2. PICK upper : upper = [k \in DOMAIN word |->
                                IF word[k] \in DOMAIN toupper THEN toupper[word[k]]
                                ELSE word[k]]
    OBVIOUS
  <2>3. PICK type : type = IF upper \in DOMAIN Keywords THEN Keywords[upper] ELSE "IDENT"
    OBVIOUS
  <2>4. type # "EOF_TOK"  BY <2>3, KeywordsAssumption DEF OtherTypes
  <2>5. L!read_ident_or_keyword(i) = L!Read(type, word, << >>, e)
    BY <1>3, <2>1, <2>2, <2>3 DEF L!read_ident_or_keyword
  <2> QED  BY <2>4, <2>5 DEF L!Read
<1>9. L!read_ident_or_keyword(i).token # L!NoToken
  BY <1>8 DEF L!NoToken, L!EofToken
<1> QED  BY <1>6, <1>7, <1>8, <1>9 DEF ReadsWell

LEMMA SymbolIs ==
  ASSUME NEW s \in L!Symbols
  PROVE  /\ s[1] \in {"(", ")", ",", ";", "*", "=", "<", ">"}
         /\ s[2] \notin {"EOF_TOK", "INT_LIT", "FLOAT_LIT"}
         /\ s[2] \in {"LT", "GT"} => s[1] \in {"<", ">"}
<1>1. CASE s = <<"(", "LPAREN">>  BY <1>1
<1>2. CASE s = <<")", "RPAREN">>  BY <1>2
<1>3. CASE s = <<",", "COMMA">>  BY <1>3
<1>4. CASE s = <<";", "SEMICOLON">>  BY <1>4
<1>5. CASE s = <<"*", "STAR">>  BY <1>5
<1>6. CASE s = <<"=", "EQ">>  BY <1>6
<1>7. CASE s = <<"<", "LT">>  BY <1>7
<1>8. CASE s = <<">", "GT">>  BY <1>8
<1> QED  BY <1>1, <1>2, <1>3, <1>4, <1>5, <1>6, <1>7, <1>8 DEF L!Symbols

LEMMA SymbolRead ==
  ASSUME src_ \in Sources, NEW i, Place(i), Boundary(i), Clean(i),
         src_[i] \notin Spaces \cup Digits \cup Letters, src_[i] # "'"
  PROVE  ReadsWell(L!read_symbol(i))
<1>1. PICK n : n = Len(src_)  OBVIOUS
<1>2. /\ n \in Nat /\ i \in Nat /\ i \in 1 .. n /\ i \in 1 .. n + 1 /\ i - 1 \in Nat
      /\ (i - 1) + 1 = i /\ DOMAIN src_ = 1 .. n
  BY <1>1, SourceIs DEF Place
<1>3. PICK c : c = src_[i]  OBVIOUS
<1> DEFINE wide == {s \in L!BeforeEq : s[1] = src_[i] /\ L!At(i + 1, {"="})}
           narrow == {s \in L!Symbols : s[1] = src_[i]}
           type(S) == (CHOOSE s \in S : TRUE)[2]
<1>4. wide # {} <=> c \in {"<", ">", "!"} /\ i + 1 <= n /\ src_[i + 1] = "="
  <2>1. L!At(i + 1, {"="}) <=> i + 1 <= n /\ src_[i + 1] = "="  BY <1>1 DEF L!At
  <2>2. (\E s \in L!BeforeEq : s[1] = c) <=> c \in {"<", ">", "!"}
    <3>1. \A s \in L!BeforeEq : s[1] \in {"<", ">", "!"}  BY DEF L!BeforeEq
    <3>2. /\ <<"<", "LEQ">> \in L!BeforeEq /\ <<">", "GEQ">> \in L!BeforeEq
          /\ <<"!", "NEQ">> \in L!BeforeEq
      BY DEF L!BeforeEq
    <3>3. c \in {"<", ">", "!"} => \E s \in L!BeforeEq : s[1] = c  BY <3>2
    <3> QED  BY <3>1, <3>3
  <2> QED  BY <1>3, <2>1, <2>2
<1>5. narrow # {} <=> c \in {"(", ")", ",", ";", "*", "=", "<", ">"}
  <2>1. \A s \in L!Symbols : s[1] \in {"(", ")", ",", ";", "*", "=", "<", ">"}
    BY SymbolIs
  <2>2. /\ <<"(", "LPAREN">> \in L!Symbols /\ <<")", "RPAREN">> \in L!Symbols
        /\ <<",", "COMMA">> \in L!Symbols /\ <<";", "SEMICOLON">> \in L!Symbols
        /\ <<"*", "STAR">> \in L!Symbols /\ <<"=", "EQ">> \in L!Symbols
        /\ <<"<", "LT">> \in L!Symbols /\ <<">", "GT">> \in L!Symbols
    BY DEF L!Symbols
  <2>3. c \in {"(", ")", ",", ";", "*", "=", "<", ">"} => \E s \in L!Symbols : s[1] = c
    BY <2>2
  <2> QED  BY <1>3, <2>1, <2>3
<1>6. \A S : S # {} /\ (S \subseteq L!BeforeEq \/ S \subseteq L!Symbols) => type(S) # "EOF_TOK"
  <2>1. \A s \in L!BeforeEq \cup L!Symbols : s[2] # "EOF_TOK"
    <3>1. \A s \in L!BeforeEq : s[2] # "EOF_TOK"  BY DEF L!BeforeEq
    <3> QED  BY <3>1, SymbolIs
  <2> TAKE S
  <2>2. S # {} => (CHOOSE s \in S : TRUE) \in S  OBVIOUS
  <2> QED  BY <2>1, <2>2
<1>7. L!read_symbol(i) =
        IF wide # {} THEN L!Read(type(wide), L!Text(i, i + 2), << >>, i + 2)
        ELSE IF narrow # {} THEN L!Read(type(narrow), L!Text(i, i + 1), << >>, i + 1)
        ELSE L!Unreadable(i + 1)
  BY DEF L!read_symbol
<1>8. wide \subseteq L!BeforeEq /\ narrow \subseteq L!Symbols  OBVIOUS
<1> HIDE DEF wide, narrow, type
<1>9. Quotes(src_, i) % 2 = 0 /\ Quotes(src_, i) \in Nat
  <2>1. Quotes(src_, i) = Quotes(src_, i - 1)  BY <1>2, QuotesStep
  <2> QED  BY <1>2, <2>1, QuotesStep DEF Boundary
<1>10. CASE wide # {}
  <2>1. L!read_symbol(i).token.type # "EOF_TOK" /\ L!read_symbol(i).end = i + 2
    BY <1>6, <1>7, <1>8, <1>10 DEF L!Read
  <2>2. L!read_symbol(i).token # L!NoToken  BY <2>1 DEF L!NoToken, L!EofToken
  <2>3. i + 1 \in 1 .. n /\ Place(i + 1) /\ src_[i + 1] = "=" /\ (i + 1) + 1 = i + 2
        /\ i + 2 \in i .. n + 1 /\ i + 1 \in Nat
    BY <1>1, <1>2, <1>4, <1>10 DEF Place
  <2>4. ~Misplaced(src_, i + 1)  BY <2>3, PlainIs DEF Signs
  <2>5. ~Misplaced(src_, i)
    <3>1. CASE c # "!"  BY <1>3, <1>4, <1>10, <3>1, PlainIs DEF Signs
    <3>2. CASE c = "!"
      <4>1. i # n /\ src_[i] = "!" /\ src_[i] \notin Digits
        BY <1>2, <1>3, <2>3, <3>2
      <4> QED  BY <1>1, <2>3, <4>1 DEF Misplaced
    <3> QED  BY <3>1, <3>2
  <2>6. Clean(i + 2)
    <3>1. \A k \in i .. (i + 2) - 1 : k = i \/ k = i + 1  BY <1>2
    <3>2. \A k \in i .. (i + 2) - 1 : ~Misplaced(src_, k)  BY <2>4, <2>5, <3>1
    <3> QED  BY <1>1, <1>2, <2>3, <3>2, CleanOn
  <2>7. Boundary(i + 2)
    <3>1. src_[i + 1] \notin Letters \cup Numeric
      BY <2>3, CharactersAssumption DEF Numeric, Signs
    <3>2. Quotes(src_, i + 1) % 2 = 0  BY <1>2, <1>9, <2>3, QuotesStep
    <3> QED  BY <2>3, <3>1, <3>2, BeginsBehind
  <2> QED  BY <2>1, <2>2, <2>6, <2>7 DEF ReadsWell
<1>11. CASE wide = {} /\ narrow # {}
  <2>1. L!read_symbol(i).token.type # "EOF_TOK" /\ L!read_symbol(i).end = i + 1
    BY <1>6, <1>7, <1>8, <1>11 DEF L!Read
  <2>2. L!read_symbol(i).token # L!NoToken  BY <2>1 DEF L!NoToken, L!EofToken
  <2>3. ~Misplaced(src_, i)  BY <1>3, <1>5, <1>11, PlainIs DEF Signs
  <2>4. Clean(i + 1)
    <3>1. \A k \in i .. (i + 1) - 1 : k = i  BY <1>2
    <3>2. i + 1 \in i .. n + 1  BY <1>2
    <3> QED  BY <1>1, <1>2, <2>3, <3>1, <3>2, CleanOn
  <2>5. src_[i] \notin Letters \cup Numeric
    BY <1>3, <1>5, <1>11 DEF Numeric
  <2>6. Boundary(i + 1)  BY <1>9, <2>5, BeginsBehind
  <2> QED  BY <2>1, <2>2, <2>4, <2>6 DEF ReadsWell
<1>12. CASE wide = {} /\ narrow = {}
  <2>1. L!read_symbol(i).token = L!NoToken  BY <1>7, <1>12 DEF L!Unreadable
  <2>2. ~InString(src_, i)
    <3>1. Quotes(src_, i - 1) % 2 = 0  BY DEF Boundary
    <3> QED  BY <3>1 DEF InString
  <2>3. c \notin {"(", ")", ",", ";", "*", "=", "<", ">", "'"}
    BY <1>3, <1>5, <1>12
  <2>4. CASE c = "!"
    <3>1. i = n \/ src_[i + 1] # "="  BY <1>2, <1>4, <1>12, <2>4
    <3> QED  BY <1>1, <1>2, <1>3, <2>1, <2>2, <2>4, <3>1 DEF Misplaced, ReadsWell
  <2>5. CASE c = "."
    <3>1. ~InNumber(src_, i)  BY <1>3, <2>5 DEF Boundary
    <3> QED  BY <1>2, <1>3, <2>1, <2>2, <2>5, <3>1 DEF Misplaced, ReadsWell
  <2>6. CASE c # "!" /\ c # "."
    <3>1. src_[i] \notin Spaces \cup Digits \cup Letters
                  \cup {"'", "(", ")", ",", ";", "*", "=", "<", ">", "!", "."}
      BY <1>3, <2>3, <2>6
    <3> QED  BY <1>2, <2>1, <2>2, <3>1 DEF Misplaced, ReadsWell
  <2> QED  BY <2>4, <2>5, <2>6
<1> QED  BY <1>10, <1>11, <1>12

LEMMA TokenRead ==
  ASSUME src_ \in Sources, NEW i, Place(i), Boundary(i), Clean(i), src_[i] \notin Spaces
  PROVE  ReadsWell(L!next_token(i))
<1>1. CASE src_[i] = "'"  BY <1>1, StringRead DEF L!next_token
<1>2. CASE src_[i] # "'" /\ src_[i] \in Digits
  BY <1>2, NumberRead DEF L!next_token
<1>3. CASE src_[i] # "'" /\ src_[i] \notin Digits /\ src_[i] \in Letters
  BY <1>3, IdentRead DEF L!next_token
<1>4. CASE src_[i] # "'" /\ src_[i] \notin Digits \cup Letters
  BY <1>4, SymbolRead DEF L!next_token
<1> QED  BY <1>1, <1>2, <1>3, <1>4

----------------------------------------------------------------------------
(* What the lexer throws for *)

\* Nothing misplaced has been passed, and when lexing is over the whole source
\* has been seen: it ends with END if and only if nothing in it is misplaced.
LexInv ==
  /\ src_ \in Sources /\ \E S : tokens \in Seq(S)
  /\ pc = "lex" => ~Lexed /\ Boundary(pos_) /\ Clean(pos_)
  /\ pc # "lex" /\ Lexed => Clean(Len(src_) + 1)
  /\ pc # "lex" /\ ~Lexed => pc = "error" /\ ~Clean(Len(src_) + 1)

LEMMA LexedOn ==
  ASSUME NEW S, tokens \in Seq(S), NEW t, tokens' = Append(tokens, t)
  PROVE  Lexed' <=> Lexed \/ t = L!EofToken
<1>1. PICK n : n = Len(tokens)  OBVIOUS
<1>2. n \in Nat /\ DOMAIN tokens = 1 .. n /\ DOMAIN tokens' = 1 .. n + 1
      /\ tokens'[n + 1] = t /\ \A k \in 1 .. n : tokens'[k] = tokens[k]
  BY <1>1
<1>3. \A k \in 1 .. n + 1 : k \in 1 .. n \/ k = n + 1  BY <1>2
<1>4. Lexed <=> \E k \in 1 .. n : tokens[k] = L!EofToken
  BY <1>2 DEF Lexed, ToSet
<1>5. Lexed' <=> \E k \in 1 .. n + 1 : tokens'[k] = L!EofToken
  BY <1>2 DEF Lexed, ToSet, L!EofToken
<1>6. n + 1 \in 1 .. n + 1 /\ \A k \in 1 .. n : k \in 1 .. n + 1  BY <1>2
<1> QED  BY <1>2, <1>3, <1>4, <1>5, <1>6

LEMMA LexKeepsLexInv ==
  ASSUME LexInv, Lex
  PROVE  LexInv'
<1>1. PICK S : tokens \in Seq(S)  BY DEF LexInv
<1>2. pc = "lex" /\ src_' = src_ /\ src_ \in Sources
  BY DEF LexInv, Lex, L!Next, L!Tokenize, L!EndOfSource, L!LexerThrows
<1>3. ~Lexed /\ Boundary(pos_) /\ Clean(pos_)  BY <1>2 DEF LexInv
<1>4. PICK n : n = Len(src_)  OBVIOUS
<1>5. n \in Nat /\ DOMAIN src_ = 1 .. n  BY <1>2, <1>4, SourceIs
<1>6. PICK i : i = L!skip_whitespace(pos_)  OBVIOUS
<1>7. /\ i \in 1 .. n + 1 /\ Boundary(i) /\ Clean(i)
      /\ Place(i) => src_[i] \notin Spaces
  BY <1>2, <1>3, <1>4, <1>6, SpacesSkipped
<1>8. i <= n => ReadsWell(L!next_token(i))
  <2>1. i <= n => Place(i)  BY <1>4, <1>5, <1>7 DEF Place
  <2> QED  BY <1>2, <1>7, <2>1, TokenRead
<1>9. CASE L!Tokenize
  <2>1. PICK r : r = L!next_token(i)  OBVIOUS
  <2>2. /\ i <= n /\ r.token # L!NoToken /\ tokens' = Append(tokens, r.token)
        /\ pos_' = r.end /\ pc' = "lex"
    BY <1>2, <1>4, <1>6, <1>9, <2>1 DEF L!Tokenize
  <2>3. Boundary(r.end) /\ Clean(r.end)  BY <1>8, <2>1, <2>2 DEF ReadsWell
  <2>4. Boundary(pos_)' /\ Clean(pos_)'
    BY <1>2, <2>2, <2>3 DEF Boundary, Clean, Place
  <2>5. ~Lexed'  BY <1>1, <1>3, <2>2, LexedOn DEF L!NoToken
  <2>6. tokens' \in Seq(S \cup {r.token})  BY <1>1, <2>2
  <2> QED  BY <1>2, <2>2, <2>4, <2>5, <2>6 DEF LexInv
<1>10. CASE L!EndOfSource
  <2>1. i > n /\ tokens' = Append(tokens, L!EofToken) /\ pc' = "parse"
    BY <1>4, <1>6, <1>10 DEF L!EndOfSource
  <2>2. i = n + 1  BY <1>5, <1>7, <2>1
  <2>3. Clean(Len(src_) + 1)'  BY <1>2, <1>4, <1>7, <2>2 DEF Clean
  <2>4. Lexed'  BY <1>1, <2>1, LexedOn
  <2>5. tokens' \in Seq(S \cup {L!EofToken})  BY <1>1, <2>1
  <2> QED  BY <1>2, <2>1, <2>3, <2>4, <2>5 DEF LexInv
<1>11. CASE L!LexerThrows
  <2>1. i <= n /\ L!next_token(i).token = L!NoToken /\ tokens' = tokens /\ pc' = "error"
    BY <1>4, <1>6, <1>11 DEF L!LexerThrows
  <2>2. \E k \in 1 .. n : Misplaced(src_, k)
    BY <1>5, <1>8, <2>1 DEF ReadsWell
  <2>3. \A k \in 1 .. n : k \in 1 .. (n + 1) - 1  BY <1>5
  <2>4. ~Clean(Len(src_) + 1)'  BY <1>2, <1>4, <2>2, <2>3 DEF Clean
  <2>5. ~Lexed'  BY <1>3, <2>1 DEF Lexed, L!EofToken
  <2> QED  BY <1>1, <1>2, <2>1, <2>4, <2>5 DEF LexInv
<1> QED  BY <1>9, <1>10, <1>11 DEF Lex, L!Next

LEMMA ParseKeepsLexInv ==
  ASSUME LexInv, Parse
  PROVE  LexInv'
<1>1. pc \in P!Labels /\ tokens' = tokens /\ src_' = src_
  BY DEF Parse, P!Next, P!Take, P!GoOn, P!peek, P!consume
<1>2. pc # "lex" /\ pc # "error"  BY <1>1, NoLabels
<1>3. Lexed /\ Clean(Len(src_) + 1) /\ src_ \in Sources /\ \E S : tokens \in Seq(S)
  BY <1>2 DEF LexInv
<1>4. Lexed' /\ Clean(Len(src_) + 1)'
  BY <1>1, <1>3 DEF Lexed, Clean, L!EofToken
<1>5. pc' # "lex"
  <2>1. Refuses(P!Rule(pc))  BY <1>1, RuleRefuses
  <2> QED  BY <2>1 DEF Parse, P!Next, P!Take, P!GoOn, Refuses
<1> QED  BY <1>1, <1>3, <1>4, <1>5 DEF LexInv

LEMMA LexStarts ==
  ASSUME Init
  PROVE  LexInv
<1>1. src_ \in Sources /\ pos_ = 1 /\ tokens = << >> /\ pc = "lex"
  BY DEF Init, L!Init
<1>2. tokens \in Seq({}) /\ ~Lexed  BY <1>1 DEF Lexed, ToSet
<1>3. Len(src_) \in Nat  BY <1>1, SourceIs
<1>4. Clean(1)
  <2>1. 1 .. 1 - 1 = {}  OBVIOUS
  <2> QED  BY <2>1 DEF Clean
<1>5. Boundary(1)
  <2>1. Quotes(src_, 1 - 1) % 2 = 0
    <3>1. Quotes(src_, 0) = 0 /\ 1 - 1 = 0 /\ 0 % 2 = 0  BY NoQuotes
    <3> QED  BY <3>1
  <2>2. ASSUME Place(1), src_[1] = "."  PROVE ~InNumber(src_, 1)
    <3>1. src_[1] \in Numeric /\ src_[1] \notin Digits
      BY <2>2, CharactersAssumption DEF Numeric, Signs
    <3>2. 1 \in 1 .. 1 /\ \A k \in 1 .. 1 : k = 1  OBVIOUS
    <3> QED  BY <1>1, <2>2, <3>1, <3>2, RunStartIs
  <2> QED  BY <1>3, <2>1, <2>2 DEF Boundary
<1> QED  BY <1>1, <1>2, <1>4, <1>5 DEF LexInv

LEMMA LexNext ==
  ASSUME LexInv, [Next]_vars
  PROVE  LexInv'
<1>1. CASE UNCHANGED vars
  BY <1>1 DEF LexInv, vars, Lexed, Boundary, Clean, Place, L!EofToken
<1> QED  BY <1>1, LexKeepsLexInv, ParseKeepsLexInv DEF Next

\* The lexer throws for exactly those sources that have a misplaced character.
THEOREM ThrowsForMisplaced == Spec => []LexerErrors
<1>1. Init => LexInv  BY LexStarts
<1>2. LexInv /\ [Next]_vars => LexInv'  BY LexNext
<1>3. LexInv => LexerErrors
  <2> SUFFICES ASSUME LexInv  PROVE LexerErrors  OBVIOUS
  <2>1. PICK n : n = Len(src_)  OBVIOUS
  <2>2. n \in Nat /\ DOMAIN src_ = 1 .. n  BY <2>1, SourceIs DEF LexInv
  <2>3. \A k : k \in 1 .. n <=> k \in 1 .. (n + 1) - 1  BY <2>2
  <2>4. Clean(Len(src_) + 1) <=> \A k \in DOMAIN src_ : ~Misplaced(src_, k)
    BY <2>1, <2>2, <2>3 DEF Clean
  <2>5. pc = "lex" => ~Lexed /\ pc # "error"  BY DEF LexInv
  <2> QED  BY <2>4, <2>5 DEF LexInv, LexerErrors
<1> QED  BY <1>1, <1>2, <1>3, PTL DEF Spec

----------------------------------------------------------------------------
(* Places of the source that tokens are made of *)

Solids(i) == UpTo(Solid(src_), i)

\* How many places between i and j belong to tokens.
LEMMA SolidsSplit ==
  ASSUME src_ \in Sources, NEW i \in Nat, NEW j \in Nat, i <= j
  PROVE  LET M == {k \in Solid(src_) : i < k /\ k <= j}
         IN /\ Solids(i) \in Nat /\ Solids(j) \in Nat
            /\ IsFiniteSet(M) /\ Cardinality(M) \in Nat
            /\ Solids(j) = Solids(i) + Cardinality(M)
<1>1. PICK n : n = Len(src_)  OBVIOUS
<1>2. n \in Nat /\ DOMAIN src_ = 1 .. n  BY <1>1, SourceIs
<1>3. PICK S : S = Solid(src_)  OBVIOUS
<1>4. S \subseteq 1 .. n  BY <1>2, <1>3 DEF Solid
<1>5. IsFiniteSet(S)
  <2>1. 1 \in Int /\ n \in Int  BY <1>2
  <2>2. IsFiniteSet(1 .. n)  BY <2>1, FS_Interval
  <2> QED  BY <1>4, <2>2, FS_Subset
<1>6. PICK A : A = {k \in S : k <= i}  OBVIOUS
<1>7. PICK B : B = {k \in S : k <= j}  OBVIOUS
<1>8. PICK M : M = {k \in S : i < k /\ k <= j}  OBVIOUS
<1>9. IsFiniteSet(A) /\ IsFiniteSet(B) /\ IsFiniteSet(M)
  <2>1. A \subseteq S /\ B \subseteq S /\ M \subseteq S  BY <1>6, <1>7, <1>8
  <2> QED  BY <1>5, <2>1, FS_Subset
<1>10. B = A \cup M /\ A \cap M = {}
  <2>1. \A k \in S : k \in Nat  BY <1>4
  <2> QED  BY <1>6, <1>7, <1>8, <2>1
<1>11. Cardinality(A) \in Nat /\ Cardinality(B) \in Nat /\ Cardinality(M) \in Nat
  BY <1>9, FS_CardinalityType
<1>12. Cardinality(B) = Cardinality(A) + Cardinality(M)
  <2>1. Cardinality(A \cup M) = Cardinality(A) + Cardinality(M) - Cardinality(A \cap M)
    BY <1>9, FS_Union
  <2>2. Cardinality(A \cap M) = 0  BY <1>10, FS_EmptySet
  <2> QED  BY <1>10, <1>11, <2>1, <2>2
<1>13. Solids(i) = Cardinality(A) /\ Solids(j) = Cardinality(B)
  BY <1>3, <1>6, <1>7 DEF Solids, UpTo, Cardinality, Cardinality
<1> QED  BY <1>3, <1>8, <1>9, <1>11, <1>12, <1>13

LEMMA SolidsAll ==
  ASSUME src_ \in Sources, NEW i \in Nat, NEW j \in Nat, i <= j,
         \A k \in i + 1 .. j : k \in Solid(src_)
  PROVE  Solids(j) = Solids(i) + (j - i)
<1>1. PICK M : M = {k \in Solid(src_) : i < k /\ k <= j}  OBVIOUS
<1>2. /\ Solids(i) \in Nat /\ Cardinality(M) \in Nat
      /\ Solids(j) = Solids(i) + Cardinality(M)
  BY <1>1, SolidsSplit
<1>3. M = i + 1 .. j
  <2>1. \A k \in Solid(src_) : k \in Nat  BY SourceIs DEF Solid
  <2> QED  BY <1>1, <2>1
<1>4. Cardinality(i + 1 .. j) = j - i
  <2>1. i + 1 \in Int /\ j \in Int  OBVIOUS
  <2>2. Cardinality(i + 1 .. j) = IF i + 1 > j THEN 0 ELSE j - (i + 1) + 1
    BY <2>1, FS_Interval
  <2> QED  BY <2>2
<1> QED  BY <1>2, <1>3, <1>4

LEMMA SolidsNone ==
  ASSUME src_ \in Sources, NEW i \in Nat, NEW j \in Nat, i <= j,
         \A k \in i + 1 .. j : k \notin Solid(src_)
  PROVE  Solids(j) = Solids(i)
<1>1. PICK M : M = {k \in Solid(src_) : i < k /\ k <= j}  OBVIOUS
<1>2. /\ Solids(i) \in Nat /\ Cardinality(M) \in Nat
      /\ Solids(j) = Solids(i) + Cardinality(M)
  BY <1>1, SolidsSplit
<1>3. M = {}
  <2>1. \A k \in Solid(src_) : k \in Nat  BY SourceIs DEF Solid
  <2> QED  BY <1>1, <2>1
<1> QED  BY <1>2, <1>3, FS_EmptySet

\* A place that belongs to a token has more of them up to it than any before.
LEMMA SolidsGrow ==
  ASSUME src_ \in Sources, NEW i \in Nat, NEW j \in Nat, i <= j
  PROVE  /\ Solids(i) \in Nat /\ Solids(j) \in Nat /\ Solids(i) <= Solids(j)
         /\ i < j /\ j \in Solid(src_) => Solids(i) < Solids(j)
<1>1. Solids(i) \in Nat /\ Solids(j) \in Nat /\ Solids(i) <= Solids(j)
  <2>1. PICK M : M = {k \in Solid(src_) : i < k /\ k <= j}  OBVIOUS
  <2> QED  BY <2>1, SolidsSplit
<1>2. ASSUME i < j, j \in Solid(src_)  PROVE Solids(i) < Solids(j)
  <2>1. j - 1 \in Nat /\ i <= j - 1 /\ j - 1 <= j /\ (j - 1) + 1 = j  BY <1>2
  <2>2. \A k \in (j - 1) + 1 .. j : k = j  BY <2>1
  <2>3. Solids(j) = Solids(j - 1) + (j - (j - 1))  BY <1>2, <2>1, <2>2, SolidsAll
  <2>4. Solids(j - 1) \in Nat /\ Solids(i) <= Solids(j - 1)
    <3>1. PICK M : M = {k \in Solid(src_) : i < k /\ k <= j - 1}  OBVIOUS
    <3> QED  BY <2>1, <3>1, SolidsSplit
  <2> QED  BY <1>1, <2>3, <2>4
<1> QED  BY <1>1, <1>2

----------------------------------------------------------------------------
(* What a token has of the source *)

\* The characters of the source, and the quote a string may lack.
Chars == {src_[k] : k \in DOMAIN src_} \cup {"'"}

Missing(e) == IF Quotes(src_, e - 1) % 2 = 1 THEN 1 ELSE 0

\* The token read from i on has the characters up to its end for its text, a
\* quote more if it is a string that is not closed, and would not go on there.
Covers(i, token, e) ==
  /\ e \in i + 1 .. Len(src_) + 1
  /\ \A k \in i .. e - 1 : k \in Solid(src_)
  /\ token.text \in Seq(Chars) /\ Len(token.text) = e - i + Missing(e)
  /\ \A m \in 1 .. e - i : token.text[m] = src_[i + m - 1]
  /\ Missing(e) = 1 => token.text[Len(token.text)] = "'"
  /\ Place(e) => ~Continues(token, src_[e])

LEMMA TextTyped ==
  ASSUME src_ \in Sources, NEW i \in 1 .. Len(src_) + 1, NEW e \in i .. Len(src_) + 1
  PROVE  L!Text(i, e) \in Seq(Chars)
<1>1. PICK n : n = Len(src_)  OBVIOUS
<1>2. n \in Nat /\ DOMAIN src_ = 1 .. n /\ i \in 1 .. n + 1 /\ e \in i .. n + 1
  BY <1>1, SourceIs
<1>3. PICK t : t = L!Text(i, e)  OBVIOUS
<1>4. /\ DOMAIN t = 1 .. e - i /\ Len(t) = e - i
      /\ \A m \in 1 .. e - i : t[m] = src_[i + m - 1]
  BY <1>1, <1>2, <1>3, TextIs
<1>5. \A m \in 1 .. e - i : t[m] \in Chars
  <2> TAKE m \in 1 .. e - i
  <2>1. i + m - 1 \in 1 .. n  BY <1>2
  <2> QED  BY <1>2, <1>4, <2>1 DEF Chars
<1>6. t = [m \in 1 .. e - i |-> t[m]]
  <2>1. PICK S : src_ \in Seq(S)  BY SourcesAssumption
  <2>2. t \in Seq(S)
    <3>1. t = SubSeq(src_, i, e - 1)  BY <1>3 DEF L!Text
    <3>2. i \in 1 .. Len(src_) + 1 /\ e - 1 \in 0 .. Len(src_)  BY <1>1, <1>2
    <3> QED  BY <1>1, <1>2, <2>1, <3>1, <3>2
  <2> QED  BY <1>4, <2>2
<1>7. e - i \in Nat  BY <1>2
<1>8. t \in [1 .. e - i -> Chars]  BY <1>5, <1>6
<1> QED  BY <1>3, <1>7, <1>8

LEMMA StringCovers ==
  ASSUME src_ \in Sources, NEW i, Place(i), Boundary(i), src_[i] = "'"
  PROVE  Covers(i, L!read_string(i).token, L!read_string(i).end)
<1>1. PICK n : n = Len(src_)  OBVIOUS
<1>2. n \in Nat /\ DOMAIN src_ = 1 .. n /\ i \in Nat /\ i \in 1 .. n
  BY <1>1, SourceIs DEF Place
<1>3. PICK j : j = L!Close(i)  OBVIOUS
<1>4. /\ j \in i + 1 .. n + 1
      /\ \A k \in i .. j - 1 : Quotes(src_, k) % 2 = 1
      /\ Place(j) => src_[j] = "'" /\ Quotes(src_, j) % 2 = 0
  BY <1>1, <1>3, StringIs
<1>5. PICK e : e = IF j <= n THEN j + 1 ELSE j  OBVIOUS
<1>6. PICK val : val = L!Text(i + 1, j)  OBVIOUS
<1>7. /\ DOMAIN val = 1 .. j - (i + 1) /\ Len(val) = j - (i + 1)
      /\ \A m \in 1 .. j - (i + 1) : val[m] = src_[(i + 1) + m - 1]
      /\ val \in Seq(Chars)
  <2>1. i + 1 \in 1 .. n + 1 /\ j \in i + 1 .. n + 1  BY <1>2, <1>4
  <2> QED  BY <1>1, <1>6, <2>1, TextIs, TextTyped
<1>8. PICK t : t = <<"'">> \o val \o <<"'">>  OBVIOUS
<1>9. /\ L!read_string(i).token.type = "STRING_LIT"
      /\ L!read_string(i).token.text = t
      /\ L!read_string(i).end = e
  BY <1>1, <1>3, <1>5, <1>6, <1>8 DEF L!read_string, L!StringTo, L!Read
<1>10. /\ t \in Seq(Chars) /\ Len(t) = j - i + 1
       /\ t[1] = "'" /\ t[j - i + 1] = "'"
       /\ \A m \in 1 .. j - (i + 1) : t[m + 1] = val[m]
  <2>1. <<"'">> \in Seq(Chars) /\ Len(<<"'">>) = 1 /\ <<"'">>[1] = "'"
    BY DEF Chars
  <2>2. PICK u : u = <<"'">> \o val  OBVIOUS
  <2>3. /\ u \in Seq(Chars) /\ Len(u) = j - i /\ u[1] = "'"
        /\ \A m \in 1 .. j - (i + 1) : u[m + 1] = val[m]
    BY <1>2, <1>4, <1>7, <2>1, <2>2
  <2>4. PICK w : w = <<"'">>  OBVIOUS
  <2>5. t = u \o w  BY <1>8, <2>2, <2>4
  <2>6. j - i \in Nat /\ w \in Seq(Chars) /\ Len(w) = 1 /\ w[1] = "'" /\ u \in Seq(Chars)
        /\ Len(u) = j - i
    BY <1>2, <1>4, <2>1, <2>3, <2>4
  <2>7. /\ t \in Seq(Chars) /\ Len(t) = j - i + 1
        /\ t[j - i + 1] = "'" /\ \A m \in 1 .. j - i : t[m] = u[m]
    <3>1. PICK V : V = Chars  OBVIOUS
    <3>2. u \in Seq(V) /\ w \in Seq(V)  BY <2>6, <3>1
    <3>3. /\ u \o w \in Seq(V) /\ Len(u \o w) = Len(u) + Len(w)
          /\ \A m \in 1 .. Len(u) + Len(w) :
               (u \o w)[m] = IF m <= Len(u) THEN u[m] ELSE w[m - Len(u)]
      BY <3>2, ConcatProperties
    <3>4. t \in Seq(Chars) /\ Len(t) = j - i + 1  BY <2>5, <2>6, <3>1, <3>3
    <3>5. \A m \in 1 .. j - i : t[m] = u[m]
      <4>1. \A m \in 1 .. j - i : m \in 1 .. Len(u) + Len(w) /\ m <= Len(u)  BY <2>6
      <4> QED  BY <2>5, <3>3, <4>1
    <3>6. j - i + 1 \in 1 .. Len(u) + Len(w) /\ ~(j - i + 1 <= Len(u))
          /\ (j - i + 1) - Len(u) = 1
      BY <2>6
    <3>7. t[j - i + 1] = w[1]  BY <2>5, <3>3, <3>6
    <3> QED  BY <2>6, <3>4, <3>5, <3>7
  <2>8. 1 \in 1 .. j - i /\ \A m \in 1 .. j - (i + 1) : m + 1 \in 1 .. j - i
    BY <1>2, <1>4
  <2> QED  BY <2>3, <2>7, <2>8
<1>11. Missing(e) = IF j <= n THEN 0 ELSE 1
  <2>1. CASE j <= n
    <3>1. Place(j) /\ e - 1 = j  BY <1>1, <1>2, <1>4, <1>5, <2>1 DEF Place
    <3> QED  BY <1>4, <2>1, <3>1 DEF Missing
  <2>2. CASE ~(j <= n)
    <3>1. e - 1 \in i .. j - 1  BY <1>2, <1>4, <1>5, <2>2
    <3> QED  BY <1>4, <2>2, <3>1 DEF Missing
  <2> QED  BY <2>1, <2>2
<1>12. e \in i + 1 .. n + 1  BY <1>2, <1>4, <1>5
<1>13. ASSUME NEW k \in i .. e - 1  PROVE k \in Solid(src_)
  <2>1. k \in DOMAIN src_  BY <1>2, <1>12
  <2>2. CASE k = i
    <3>1. src_[k] \notin Spaces  BY <2>2, CharactersAssumption DEF Signs
    <3> QED  BY <2>1, <3>1 DEF Solid
  <2>3. CASE k # i
    <3>1. k - 1 \in i .. j - 1  BY <1>2, <1>4, <1>5, <1>12, <2>3
    <3> QED  BY <1>4, <2>1, <3>1 DEF Solid, InString
  <2> QED  BY <2>2, <2>3
<1>14. ASSUME NEW m \in 1 .. e - i  PROVE t[m] = src_[i + m - 1]
  <2>1. CASE m = 1  BY <1>2, <1>10, <2>1
  <2>2. CASE m # 1 /\ m <= j - i
    <3>1. m - 1 \in 1 .. j - (i + 1) /\ (i + 1) + (m - 1) - 1 = i + m - 1 /\ (m - 1) + 1 = m
      BY <1>2, <1>4, <2>2
    <3> QED  BY <1>7, <1>10, <3>1
  <2>3. CASE ~(m <= j - i)
    <3>1. j <= n /\ m = j - i + 1 /\ i + m - 1 = j  BY <1>2, <1>4, <1>5, <2>3
    <3>2. Place(j)  BY <1>1, <1>2, <1>4, <3>1 DEF Place
    <3> QED  BY <1>4, <1>10, <3>1, <3>2
  <2> QED  BY <2>1, <2>2, <2>3
<1>15. Len(t) = e - i + Missing(e)  BY <1>2, <1>4, <1>5, <1>10, <1>11
<1>16. t[Len(t)] = "'"  BY <1>10
<1>17. ASSUME NEW c  PROVE ~Continues(L!read_string(i).token, c)
  <2>1. "'" \notin Letters  BY CharactersAssumption DEF Signs
  <2> QED  BY <1>9, <1>10, <2>1 DEF Continues
<1> QED  BY <1>1, <1>9, <1>10, <1>12, <1>13, <1>14, <1>15, <1>16, <1>17 DEF Covers

\* A token whose text is just a part of the source.
LEMMA PartCovers ==
  ASSUME src_ \in Sources, NEW i, Place(i), NEW e \in i + 1 .. Len(src_) + 1,
         \A k \in i .. e - 1 : src_[k] \notin Spaces,
         Quotes(src_, e - 1) % 2 = 0,
         NEW token, token.text = L!Text(i, e),
         Place(e) => ~Continues(token, src_[e])
  PROVE  Covers(i, token, e) /\ token.text[1] = src_[i]
<1>1. PICK n : n = Len(src_)  OBVIOUS
<1>2. n \in Nat /\ DOMAIN src_ = 1 .. n /\ i \in Nat /\ i \in 1 .. n + 1 /\ e \in i .. n + 1
      /\ e \in i + 1 .. n + 1
  BY <1>1, SourceIs DEF Place
<1>3. PICK t : t = L!Text(i, e)  OBVIOUS
<1>4. /\ Len(t) = e - i /\ \A m \in 1 .. e - i : t[m] = src_[i + m - 1]
      /\ t \in Seq(Chars)
  BY <1>1, <1>2, <1>3, TextIs, TextTyped
<1>5. Missing(e) = 0  BY DEF Missing
<1>6. \A k \in i .. e - 1 : k \in Solid(src_)
  <2> TAKE k \in i .. e - 1
  <2>1. k \in DOMAIN src_  BY <1>2
  <2> QED  BY <2>1 DEF Solid
<1>7. 1 \in 1 .. e - i /\ i + 1 - 1 = i /\ e - i + 0 = e - i  BY <1>2
<1>8. token.text = t  BY <1>3
<1> QED  BY <1>1, <1>2, <1>4, <1>5, <1>6, <1>7, <1>8 DEF Covers

LEMMA FirstOfText ==
  ASSUME src_ \in Sources, NEW i, Place(i), NEW e \in i + 1 .. Len(src_) + 1
  PROVE  L!Text(i, e)[1] = src_[i]
<1>1. PICK n : n = Len(src_)  OBVIOUS
<1>2. n \in Nat /\ i \in 1 .. n + 1 /\ e \in i .. n + 1 /\ e \in i + 1 .. n + 1
  BY <1>1, SourceIs DEF Place
<1>3. 1 \in 1 .. e - i /\ i + 1 - 1 = i  BY <1>2
<1>4. \A m \in 1 .. e - i : L!Text(i, e)[m] = src_[i + m - 1]
  BY <1>1, <1>2, TextIs
<1> QED  BY <1>3, <1>4

LEMMA StaysOutside ==
  ASSUME src_ \in Sources, NEW i, Place(i), Boundary(i), NEW e \in i .. Len(src_) + 1,
         \A k \in i .. e - 1 : src_[k] # "'"
  PROVE  Quotes(src_, e - 1) % 2 = 0
<1>1. PICK n : n = Len(src_)  OBVIOUS
<1>2. n \in Nat /\ i \in 1 .. n /\ e \in i .. n + 1
  BY <1>1, SourceIs DEF Place
<1>3. /\ i - 1 \in Nat /\ e - 1 \in Nat /\ i - 1 <= e - 1
      /\ \A k \in (i - 1) + 1 .. e - 1 : k \in i .. e - 1
  BY <1>2
<1>4. Quotes(src_, e - 1) = Quotes(src_, i - 1)  BY <1>3, QuotesSame
<1> QED  BY <1>4 DEF Boundary

LEMMA NumberCovers ==
  ASSUME src_ \in Sources, NEW i, Place(i), Boundary(i), src_[i] \in Digits,
         L!read_number(i).token # L!NoToken
  PROVE  Covers(i, L!read_number(i).token, L!read_number(i).end)
<1>1. PICK n : n = Len(src_)  OBVIOUS
<1>2. PICK e : e = L!RunEnd(i, Numeric)  OBVIOUS
<1>3. /\ e \in i + 1 .. n + 1
      /\ Place(e) => src_[e] \notin Numeric
      /\ \A k \in i .. e - 1 : src_[k] \in Numeric
      /\ Quotes(src_, e - 1) % 2 = 0
  BY <1>1, <1>2, NumberIs
<1>4. PICK token : token = L!read_number(i).token  OBVIOUS
<1>5. /\ token.type \in {"INT_LIT", "FLOAT_LIT"} /\ token.text = L!Text(i, e)
      /\ L!read_number(i).end = e
  BY <1>2, <1>4, NumberToken
<1>6. token.text[1] = src_[i]  BY <1>1, <1>3, <1>5, FirstOfText
<1>7. Place(e) => ~Continues(token, src_[e])
  <2>1. token.text[1] \notin Letters  BY <1>6, CharactersAssumption
  <2> QED  BY <1>3, <1>5, <2>1 DEF Continues, Numeric
<1>8. \A k \in i .. e - 1 : src_[k] \notin Spaces
  BY <1>3, CharactersAssumption DEF Numeric, Signs
<1>9. Covers(i, token, e)  BY <1>1, <1>3, <1>5, <1>7, <1>8, PartCovers
<1> QED  BY <1>4, <1>5, <1>9

LEMMA IdentCovers ==
  ASSUME src_ \in Sources, NEW i, Place(i), Boundary(i), src_[i] \in Letters
  PROVE  Covers(i, L!read_ident_or_keyword(i).token, L!read_ident_or_keyword(i).end)
<1>1. PICK n : n = Len(src_)  OBVIOUS
<1>2. n \in Nat /\ i \in 1 .. n /\ i \in 1 .. n + 1
  BY <1>1, SourceIs DEF Place
<1>3. PICK e : e = L!RunEnd(i, Letters \cup Digits)  OBVIOUS
<1>4. /\ e \in i .. n + 1
      /\ Place(e) => src_[e] \notin Letters \cup Digits
      /\ \A k \in i .. e - 1 : Place(k) /\ src_[k] \in Letters \cup Digits
  BY <1>1, <1>2, <1>3, RunEndIs
<1>5. e # i  BY <1>4
<1>6. e \in i + 1 .. n + 1  BY <1>2, <1>4, <1>5
<1>7. PICK token : token = L!read_ident_or_keyword(i).token  OBVIOUS
<1>8. /\ token.type \notin {"LT", "GT", "INT_LIT", "FLOAT_LIT"}
      /\ token.text = L!Text(i, e) /\ L!read_ident_or_keyword(i).end = e
  <2>1. PICK word : word = L!Text(i, e)  OBVIOUS
  <2>2. PICK upper : upper = [k \in DOMAIN word |->
                                IF word[k] \in DOMAIN toupper THEN toupper[word[k]]
                                ELSE word[k]]
    OBVIOUS
  <2>3. PICK type : type = IF upper \in DOMAIN Keywords THEN Keywords[upper] ELSE "IDENT"
    OBVIOUS
  <2>4. type \notin {"LT", "GT", "INT_LIT", "FLOAT_LIT"}
    BY <2>3, KeywordsAssumption DEF OtherTypes
  <2>5. L!read_ident_or_keyword(i) = L!Read(type, word, << >>, e)
    BY <1>3, <2>1, <2>2, <2>3 DEF L!read_ident_or_keyword
  <2> QED  BY <1>7, <2>1, <2>4, <2>5 DEF L!Read
<1>9. Place(e) => ~Continues(token, src_[e])
  BY <1>4, <1>8 DEF Continues
<1>10. \A k \in i .. e - 1 : src_[k] \notin Spaces /\ src_[k] # "'"
  BY <1>4, CharactersAssumption DEF Signs
<1>11. Quotes(src_, e - 1) % 2 = 0  BY <1>1, <1>4, <1>10, StaysOutside
<1>12. Covers(i, token, e)
  BY <1>1, <1>6, <1>8, <1>9, <1>10, <1>11, PartCovers
<1> QED  BY <1>7, <1>8, <1>12

LEMMA SymbolCovers ==
  ASSUME src_ \in Sources, NEW i, Place(i), Boundary(i),
         src_[i] \notin Spaces \cup Digits \cup Letters, src_[i] # "'",
         L!read_symbol(i).token # L!NoToken
  PROVE  Covers(i, L!read_symbol(i).token, L!read_symbol(i).end)
<1>1. PICK n : n = Len(src_)  OBVIOUS
<1>2. n \in Nat /\ i \in Nat /\ i \in 1 .. n  BY <1>1, SourceIs DEF Place
<1> DEFINE wide == {s \in L!BeforeEq : s[1] = src_[i] /\ L!At(i + 1, {"="})}
           narrow == {s \in L!Symbols : s[1] = src_[i]}
           type(S) == (CHOOSE s \in S : TRUE)[2]
<1>3. wide # {} => type(wide) \in {"LEQ", "GEQ", "NEQ"}
  <2>1. \A s \in L!BeforeEq : s[2] \in {"LEQ", "GEQ", "NEQ"}  BY DEF L!BeforeEq
  <2>2. wide # {} => (CHOOSE s \in wide : TRUE) \in L!BeforeEq  OBVIOUS
  <2> QED  BY <2>1, <2>2
<1>4. wide # {} => i + 1 <= n /\ src_[i + 1] = "="
  BY <1>1 DEF L!At
<1>5. /\ narrow # {} => type(narrow) \notin {"INT_LIT", "FLOAT_LIT"}
      /\ narrow # {} /\ type(narrow) \in {"LT", "GT"} => src_[i] \in {"<", ">"}
  <2>1. \A s \in L!Symbols : /\ s[2] \notin {"INT_LIT", "FLOAT_LIT"}
                             /\ s[2] \in {"LT", "GT"} => s[1] \in {"<", ">"}
    BY SymbolIs
  <2>2. narrow # {} => (CHOOSE s \in narrow : TRUE) \in narrow  OBVIOUS
  <2> QED  BY <2>1, <2>2
<1>6. src_[i] \in {"<", ">"} /\ wide = {} => ~(i + 1 <= n /\ src_[i + 1] = "=")
  <2>1. /\ <<"<", "LEQ">> \in L!BeforeEq /\ <<">", "GEQ">> \in L!BeforeEq
    BY DEF L!BeforeEq
  <2>2. L!At(i + 1, {"="}) <=> i + 1 <= n /\ src_[i + 1] = "="  BY <1>1 DEF L!At
  <2>3. src_[i] \in {"<", ">"} => \E s \in L!BeforeEq : s[1] = src_[i]  BY <2>1
  <2> QED  BY <2>2, <2>3
<1>7. L!read_symbol(i) =
        IF wide # {} THEN L!Read(type(wide), L!Text(i, i + 2), << >>, i + 2)
        ELSE IF narrow # {} THEN L!Read(type(narrow), L!Text(i, i + 1), << >>, i + 1)
        ELSE L!Unreadable(i + 1)
  BY DEF L!read_symbol
<1> HIDE DEF wide, narrow, type
<1>8. PICK token : token = L!read_symbol(i).token  OBVIOUS
<1>9. CASE wide # {}
  <2>1. /\ token.type \in {"LEQ", "GEQ", "NEQ"} /\ token.text = L!Text(i, i + 2)
        /\ L!read_symbol(i).end = i + 2
    BY <1>3, <1>7, <1>8, <1>9 DEF L!Read
  <2>2. i + 2 \in i + 1 .. n + 1 /\ i + 2 \in i .. n + 1  BY <1>2, <1>4, <1>9
  <2>3. \A k \in i .. (i + 2) - 1 : src_[k] \notin Spaces /\ src_[k] # "'"
    <3>1. \A k \in i .. (i + 2) - 1 : k = i \/ k = i + 1  BY <1>2
    <3>2. "=" \notin Spaces  BY CharactersAssumption DEF Signs
    <3> QED  BY <1>4, <1>9, <3>1, <3>2
  <2>4. token.text[1] \notin Letters  BY <1>1, <2>1, <2>2, FirstOfText
  <2>5. \A c : ~Continues(token, c)  BY <2>1, <2>4 DEF Continues
  <2>6. Quotes(src_, (i + 2) - 1) % 2 = 0  BY <1>1, <2>2, <2>3, StaysOutside
  <2>7. Covers(i, token, i + 2)
    BY <1>1, <2>1, <2>2, <2>3, <2>5, <2>6, PartCovers
  <2> QED  BY <1>8, <2>1, <2>7
<1>10. CASE wide = {} /\ narrow # {}
  <2>1. /\ token.type = type(narrow) /\ token.text = L!Text(i, i + 1)
        /\ L!read_symbol(i).end = i + 1
    BY <1>7, <1>8, <1>10 DEF L!Read
  <2>2. i + 1 \in i + 1 .. n + 1 /\ i + 1 \in i .. n + 1  BY <1>2
  <2>3. \A k \in i .. (i + 1) - 1 : src_[k] \notin Spaces /\ src_[k] # "'"
    <3>1. \A k \in i .. (i + 1) - 1 : k = i  BY <1>2
    <3> QED  BY <3>1
  <2>4. token.text[1] \notin Letters  BY <1>1, <2>1, <2>2, FirstOfText
  <2>5. Place(i + 1) => ~Continues(token, src_[i + 1])
    <3>1. Place(i + 1) => i + 1 <= n  BY <1>1, <1>2 DEF Place
    <3> QED  BY <1>5, <1>6, <1>10, <2>1, <2>4, <3>1 DEF Continues
  <2>6. Quotes(src_, (i + 1) - 1) % 2 = 0  BY <1>1, <2>2, <2>3, StaysOutside
  <2>7. Covers(i, token, i + 1)
    BY <1>1, <2>1, <2>2, <2>3, <2>5, <2>6, PartCovers
  <2> QED  BY <1>8, <2>1, <2>7
<1>11. CASE wide = {} /\ narrow = {}
  BY <1>7, <1>11 DEF L!Unreadable
<1> QED  BY <1>9, <1>10, <1>11

LEMMA TokenCovers ==
  ASSUME src_ \in Sources, NEW i, Place(i), Boundary(i), src_[i] \notin Spaces,
         L!next_token(i).token # L!NoToken
  PROVE  Covers(i, L!next_token(i).token, L!next_token(i).end)
<1>1. CASE src_[i] = "'"  BY <1>1, StringCovers DEF L!next_token
<1>2. CASE src_[i] # "'" /\ src_[i] \in Digits
  BY <1>2, NumberCovers DEF L!next_token
<1>3. CASE src_[i] # "'" /\ src_[i] \notin Digits /\ src_[i] \in Letters
  BY <1>3, IdentCovers DEF L!next_token
<1>4. CASE src_[i] # "'" /\ src_[i] \notin Digits \cup Letters
  BY <1>4, SymbolCovers DEF L!next_token
<1> QED  BY <1>1, <1>2, <1>3, <1>4

----------------------------------------------------------------------------
(* The tokens and the source *)

\* A text is the places of the source in front of p that belong to tokens, one
\* after the other.
Writes(text, p) ==
  /\ Len(text) = Solids(p - 1) + Missing(p)
  /\ \A i \in Solid(src_) : i < p => text[Solids(i)] = src_[i]
  /\ Missing(p) = 1 => text[Len(text)] = "'"

TextTo(p) == Writes(FlattenSeq(Texts), p)

\* The k-th token ends at e and would not have gone on there.
EndsAt(k, e) ==
  /\ e \in 1 .. Len(src_) + 1
  /\ Len(FlattenSeq(SubSeq(Texts, 1, k))) = Solids(e - 1) + Missing(e)
  /\ Place(e) => /\ Missing(e) = 0 /\ e # 1 /\ e - 1 \in Solid(src_)
                 /\ ~Continues(tokens[k], src_[e])

TextInv ==
  /\ LexInv
  /\ Texts \in Seq(Seq(Chars))
  /\ pc = "lex" \/ Lexed => TextTo(pos_)
  /\ \A k \in DOMAIN tokens : \E e : EndsAt(k, e)

LEMMA SkippedAre ==
  ASSUME src_ \in Sources, NEW p, Boundary(p), Clean(p)
  PROVE  LET i == L!skip_whitespace(p)
         IN /\ i \in p .. Len(src_) + 1
            /\ \A k \in p .. i - 1 : k \notin Solid(src_)
            /\ Solids(i - 1) = Solids(p - 1) /\ Missing(i) = Missing(p)
            /\ Place(i) => Missing(i) = 0
<1>1. PICK i : i = L!skip_whitespace(p)  OBVIOUS
<1>2. PICK n : n = Len(src_)  OBVIOUS
<1>3. n \in Nat /\ p \in Nat /\ p \in 1 .. n + 1  BY <1>2, SourceIs DEF Boundary
<1>4. /\ i \in p .. n + 1
      /\ \A k \in p .. i - 1 : Place(k) /\ src_[k] \in Spaces
  BY <1>1, <1>2, <1>3, RunEndIs DEF L!skip_whitespace
<1>5. \A k \in p .. i - 1 : src_[k] # "'"
  BY <1>4, CharactersAssumption DEF Signs
<1>6. \A k \in p .. i : Quotes(src_, k - 1) = Quotes(src_, p - 1)
  <2> TAKE k \in p .. i
  <2>1. /\ p - 1 \in Nat /\ k - 1 \in Nat /\ p - 1 <= k - 1
        /\ \A m \in (p - 1) + 1 .. k - 1 : m \in p .. i - 1
    BY <1>3, <1>4
  <2> QED  BY <1>5, <2>1, QuotesSame
<1>7. \A k \in p .. i - 1 : k \notin Solid(src_)
  <2> TAKE k \in p .. i - 1
  <2>1. p \in p .. i - 1 /\ k \in p .. i  BY <1>3, <1>4
  <2>2. Quotes(src_, p - 1) % 2 = 0  BY <1>4, <2>1 DEF Boundary
  <2>3. ~InString(src_, k)  BY <1>6, <2>1, <2>2 DEF InString
  <2> QED  BY <1>4, <2>3 DEF Solid
<1>8. Solids(i - 1) = Solids(p - 1)
  <2>1. /\ p - 1 \in Nat /\ i - 1 \in Nat /\ p - 1 <= i - 1
        /\ \A k \in (p - 1) + 1 .. i - 1 : k \in p .. i - 1
    BY <1>3, <1>4
  <2> QED  BY <1>7, <2>1, SolidsNone
<1>9. i \in p .. i  BY <1>3, <1>4
<1>10. Missing(i) = Missing(p)  BY <1>6, <1>9 DEF Missing
<1>11. Place(i) => Missing(i) = 0
  <2>1. Boundary(i)  BY <1>1, SpacesSkipped
  <2> QED  BY <2>1 DEF Boundary, Missing
<1> QED  BY <1>1, <1>2, <1>4, <1>7, <1>8, <1>10, <1>11

\* What a further token adds to the texts.
LEMMA TextsGrow ==
  ASSUME NEW S, tokens \in Seq(S), NEW V, Texts \in Seq(Seq(V)),
         NEW t, t.text \in Seq(V), tokens' = Append(tokens, t)
  PROVE  /\ Texts' \in Seq(Seq(V))
         /\ FlattenSeq(Texts) \in Seq(V)
         /\ FlattenSeq(Texts') = FlattenSeq(Texts) \o t.text
         /\ DOMAIN tokens' = DOMAIN tokens \cup {Len(tokens) + 1}
         /\ \A k \in DOMAIN tokens : tokens'[k] = tokens[k]
                                     /\ SubSeq(Texts', 1, k) = SubSeq(Texts, 1, k)
         /\ tokens'[Len(tokens) + 1] = t
         /\ SubSeq(Texts', 1, Len(tokens) + 1) = Texts'
<1>1. PICK n : n = Len(tokens)  OBVIOUS
<1>2. /\ n \in Nat /\ DOMAIN tokens = 1 .. n /\ DOMAIN tokens' = 1 .. n + 1
      /\ tokens'[n + 1] = t /\ \A k \in 1 .. n : tokens'[k] = tokens[k]
  BY <1>1
<1>3. PICK a : a = Texts  OBVIOUS
<1>4. PICK b : b = Append(a, t.text)  OBVIOUS
<1>5. a \in Seq(Seq(V)) /\ Len(a) = n /\ \A k \in 1 .. n : a[k] = tokens[k].text
  BY <1>2, <1>3 DEF Texts
<1>6. /\ b \in Seq(Seq(V)) /\ Len(b) = n + 1 /\ b[n + 1] = t.text
      /\ \A k \in 1 .. n : b[k] = a[k]
  <2>1. PICK W : W = Seq(V)  OBVIOUS
  <2>2. a \in Seq(W) /\ t.text \in W  BY <1>5, <2>1
  <2> QED  BY <1>2, <1>4, <1>5, <2>1, <2>2
<1>7. Texts' = b
  <2>1. Texts' = [k \in 1 .. n + 1 |-> tokens'[k].text]  BY <1>2 DEF Texts
  <2>2. \A k \in 1 .. n + 1 : k \in 1 .. n \/ k = n + 1  BY <1>2
  <2>3. \A k \in 1 .. n + 1 : tokens'[k].text = b[k]  BY <1>2, <1>5, <1>6, <2>2
  <2>4. b = [k \in 1 .. n + 1 |-> b[k]]  BY <1>6
  <2> QED  BY <2>1, <2>3, <2>4
<1>8. FlattenSeq(a) \in Seq(V) /\ FlattenSeq(b) = FlattenSeq(a) \o t.text
  BY <1>4, <1>5, Flattened
<1>9. \A k \in 1 .. n : SubSeq(b, 1, k) = SubSeq(a, 1, k)
  <2> TAKE k \in 1 .. n
  <2>1. SubSeq(b, 1, k) = [m \in 1 .. k |-> b[m]]
    BY <1>2, <1>6
  <2>2. SubSeq(a, 1, k) = [m \in 1 .. k |-> a[m]]
    BY <1>2, <1>5
  <2>3. \A m \in 1 .. k : m \in 1 .. n  BY <1>2
  <2> QED  BY <1>6, <2>1, <2>2, <2>3
<1>10. SubSeq(b, 1, n + 1) = b
  <2>1. SubSeq(b, 1, n + 1) = [m \in 1 .. n + 1 |-> b[m]]
    BY <1>2, <1>6
  <2> QED  BY <1>6, <2>1
<1>11. 1 .. n + 1 = 1 .. n \cup {n + 1}  BY <1>2
<1> QED  BY <1>1, <1>2, <1>3, <1>5, <1>6, <1>7, <1>8, <1>9, <1>10, <1>11

\* From p to i there is nothing that belongs to a token.
Skips(p, i) ==
  /\ p \in 1 .. Len(src_) + 1 /\ i \in p .. Len(src_)
  /\ \A k \in p .. i - 1 : k \notin Solid(src_)
  /\ Solids(i - 1) = Solids(p - 1) /\ Missing(p) = 0

\* A token that covers the source from i on carries the text on to its end.
LEMMA TextGoesOn ==
  ASSUME src_ \in Sources, NEW p, NEW i, Skips(p, i),
         NEW old \in Seq(Chars), Writes(old, p), NEW token, NEW e, Covers(i, token, e)
  PROVE  Writes(old \o token.text, e)
<1>0. /\ p \in 1 .. Len(src_) + 1 /\ i \in p .. Len(src_)
      /\ \A k \in p .. i - 1 : k \notin Solid(src_)
      /\ Solids(i - 1) = Solids(p - 1) /\ Missing(p) = 0
  BY DEF Skips
<1> PICK text : text = old \o token.text  OBVIOUS
<1>1. PICK n : n = Len(src_)  OBVIOUS
<1>2. /\ n \in Nat /\ DOMAIN src_ = 1 .. n /\ p \in 1 .. n + 1 /\ i \in p .. n
  BY <1>0, <1>1, SourceIs
<1>3. PICK t : t = token.text  OBVIOUS
<1>4. /\ e \in i + 1 .. n + 1
      /\ \A k \in i .. e - 1 : k \in Solid(src_)
      /\ t \in Seq(Chars) /\ Len(t) = e - i + Missing(e)
      /\ \A m \in 1 .. e - i : t[m] = src_[i + m - 1]
      /\ Missing(e) = 1 => t[Len(t)] = "'"
  BY <1>1, <1>3 DEF Covers
<1>5. PICK s : s = Solids(i - 1)  OBVIOUS
<1>6. \A k \in i .. e - 1 : Solids(k) = s + (k - i + 1)
  <2> TAKE k \in i .. e - 1
  <2>1. /\ i - 1 \in Nat /\ k \in Nat /\ i - 1 <= k
        /\ \A m \in (i - 1) + 1 .. k : m \in i .. e - 1
        /\ k - (i - 1) = k - i + 1
    BY <1>2, <1>4
  <2>2. Solids(k) = Solids(i - 1) + (k - (i - 1))  BY <1>4, <2>1, SolidsAll
  <2> QED  BY <1>5, <2>1, <2>2
<1>7. s \in Nat /\ Missing(e) \in {0, 1}
  <2>1. i - 1 \in Nat /\ i - 1 <= i - 1  BY <1>2
  <2> QED  BY <1>5, <2>1, SolidsGrow DEF Missing
<1>8. /\ Len(text) = s + Len(t)
      /\ \A m \in 1 .. s + Len(t) : text[m] = IF m <= s THEN old[m] ELSE t[m - s]
  <2>1. PICK V : V = Chars  OBVIOUS
  <2>2. old \in Seq(V) /\ t \in Seq(V) /\ Len(old) = s
    BY <1>0, <1>4, <1>5, <1>7, <2>1 DEF Writes
  <2>3. text = old \o t  BY <1>3
  <2>4. /\ Len(old \o t) = Len(old) + Len(t)
        /\ \A m \in 1 .. Len(old) + Len(t) :
             (old \o t)[m] = IF m <= Len(old) THEN old[m] ELSE t[m - Len(old)]
    BY <2>2, ConcatProperties
  <2> QED  BY <2>2, <2>3, <2>4
<1>9. Len(text) = Solids(e - 1) + Missing(e)
  <2>1. e - 1 \in i .. e - 1 /\ s + ((e - 1) - i + 1) = s + (e - i)  BY <1>2, <1>4, <1>7
  <2>2. Solids(e - 1) = s + (e - i)  BY <1>6, <2>1
  <2> QED  BY <1>2, <1>4, <1>7, <1>8, <2>2
<1>10. ASSUME NEW k \in Solid(src_), k < e  PROVE text[Solids(k)] = src_[k]
  <2>1. k \in 1 .. n  BY <1>2 DEF Solid
  <2>2. CASE k < p
    <3>1. /\ 0 \in Nat /\ k \in Nat /\ 0 < k /\ 0 <= k /\ p - 1 \in Nat /\ k <= p - 1
      BY <1>2, <2>1, <2>2
    <3>2. Solids(0) \in Nat /\ Solids(k) \in Nat /\ Solids(0) < Solids(k)
      BY <3>1, SolidsGrow
    <3>3. Solids(k) <= Solids(p - 1)  BY <3>1, SolidsGrow
    <3>4. Solids(k) \in 1 .. s + Len(t) /\ Solids(k) <= s
      <4>1. Len(t) \in Nat /\ Solids(k) <= s  BY <1>0, <1>4, <1>5, <3>3
      <4> QED  BY <1>7, <3>2, <4>1
    <3>5. text[Solids(k)] = old[Solids(k)]  BY <1>8, <3>4
    <3> QED  BY <2>2, <3>5 DEF Writes
  <2>3. CASE ~(k < p) /\ k < i
    <3>1. k \in p .. i - 1  BY <1>2, <2>1, <2>3
    <3> QED  BY <1>0, <3>1
  <2>4. CASE ~(k < i)
    <3>1. k \in i .. e - 1 /\ k - i + 1 \in 1 .. e - i /\ i + (k - i + 1) - 1 = k
      BY <1>2, <1>4, <1>10, <2>1, <2>4
    <3>2. Solids(k) = s + (k - i + 1)  BY <1>6, <3>1
    <3>3. /\ s + (k - i + 1) \in 1 .. s + Len(t) /\ ~(s + (k - i + 1) <= s)
          /\ (s + (k - i + 1)) - s = k - i + 1
      BY <1>2, <1>4, <1>7, <3>1
    <3>4. text[Solids(k)] = t[k - i + 1]  BY <1>8, <3>2, <3>3
    <3> QED  BY <1>4, <3>1, <3>4
  <2> QED  BY <2>2, <2>3, <2>4
<1>11. ASSUME Missing(e) = 1  PROVE text[Len(text)] = "'"
  <2>1. Len(t) \in Nat /\ Len(t) # 0  BY <1>2, <1>4, <1>11
  <2>2. s + Len(t) \in 1 .. s + Len(t) /\ ~(s + Len(t) <= s) /\ (s + Len(t)) - s = Len(t)
    BY <1>7, <2>1
  <2> QED  BY <1>4, <1>8, <1>11, <2>2
<1> QED  BY <1>9, <1>10, <1>11 DEF Writes

LEMMA TextsStart == tokens = << >> => Texts = << >>
<1> SUFFICES ASSUME tokens = << >>  PROVE Texts = << >>
  OBVIOUS
<1>1. DOMAIN tokens = {}  OBVIOUS
<1>2. Texts = [k \in {} |-> tokens[k].text]  BY <1>1 DEF Texts
<1> QED  BY <1>2

\* What a token that ends at e leaves of the tokens and their ends: those of
\* the tokens before it, and its own.
LEMMA EndsGoOn ==
  ASSUME src_' = src_, NEW S, tokens \in Seq(S), NEW V, Texts \in Seq(Seq(V)),
         NEW t, t.text \in Seq(V), tokens' = Append(tokens, t),
         \A k \in DOMAIN tokens : \E x : EndsAt(k, x),
         NEW e \in 1 .. Len(src_) + 1,
         Len(FlattenSeq(Texts')) = Solids(e - 1) + Missing(e),
         Place(e) => /\ Missing(e) = 0 /\ e # 1 /\ e - 1 \in Solid(src_)
                     /\ ~Continues(t, src_[e])
  PROVE  \A k \in DOMAIN tokens' : \E x : EndsAt(k, x)'
<1>1. PICK n : n = Len(tokens)  OBVIOUS
<1>2. /\ DOMAIN tokens' = DOMAIN tokens \cup {n + 1}
      /\ \A k \in DOMAIN tokens : tokens'[k] = tokens[k]
                                  /\ SubSeq(Texts', 1, k) = SubSeq(Texts, 1, k)
      /\ tokens'[n + 1] = t
      /\ SubSeq(Texts', 1, n + 1) = Texts'
  BY <1>1, TextsGrow
<1>3. ASSUME NEW k \in DOMAIN tokens  PROVE \E x : EndsAt(k, x)'
  <2>1. PICK x : EndsAt(k, x)  OBVIOUS
  <2>2. tokens'[k] = tokens[k] /\ SubSeq(Texts', 1, k) = SubSeq(Texts, 1, k)
    BY <1>2
  <2>3. EndsAt(k, x)'  BY <2>1, <2>2 DEF EndsAt, Solids, Missing, Place
  <2> QED  BY <2>3
<1>4. EndsAt(n + 1, e)'
  BY <1>2 DEF EndsAt, Solids, Missing, Place
<1> QED  BY <1>2, <1>3, <1>4

LEMMA LexKeepsTextInv ==
  ASSUME TextInv, Lex
  PROVE  TextInv'
<1>1. PICK S : tokens \in Seq(S)  BY DEF TextInv, LexInv
<1>2. pc = "lex" /\ src_' = src_ /\ src_ \in Sources /\ LexInv'
  BY LexKeepsLexInv DEF TextInv, LexInv, Lex, L!Next, L!Tokenize, L!EndOfSource, L!LexerThrows
<1>3. /\ Boundary(pos_) /\ Clean(pos_) /\ TextTo(pos_) /\ Texts \in Seq(Seq(Chars))
      /\ \A k \in DOMAIN tokens : \E e : EndsAt(k, e)
  BY <1>2 DEF TextInv, LexInv
<1>4. PICK n : n = Len(src_)  OBVIOUS
<1>5. n \in Nat /\ DOMAIN src_ = 1 .. n  BY <1>2, <1>4, SourceIs
<1>6. PICK p : p = pos_  OBVIOUS
<1>7. PICK i : i = L!skip_whitespace(p)  OBVIOUS
<1>8. /\ p \in 1 .. n + 1 /\ i \in p .. n + 1 /\ Boundary(i)
      /\ Place(i) => src_[i] \notin Spaces
      /\ \A k \in p .. i - 1 : k \notin Solid(src_)
      /\ Solids(i - 1) = Solids(p - 1) /\ Missing(i) = Missing(p)
      /\ Place(i) => Missing(i) = 0
  <2>1. p \in 1 .. n + 1  BY <1>3, <1>4, <1>6 DEF Boundary
  <2>2. Boundary(i) /\ (Place(i) => src_[i] \notin Spaces)
    BY <1>2, <1>3, <1>6, <1>7, SpacesSkipped
  <2> QED  BY <1>2, <1>3, <1>4, <1>6, <1>7, <2>1, <2>2, SkippedAre
<1>9. PICK old : old = FlattenSeq(Texts)  OBVIOUS
<1>10. /\ old \in Seq(Chars) /\ Len(old) = Solids(p - 1) + Missing(p)
       /\ \A k \in Solid(src_) : k < p => old[Solids(k)] = src_[k]
       /\ Missing(p) = 1 => old[Len(old)] = "'"
  BY <1>3, <1>6, <1>9, Flattened DEF TextTo, Writes
<1>11. Chars' = Chars  BY <1>2 DEF Chars
<1>12. Solids(p - 1) \in Nat
  <2>1. p - 1 \in Nat /\ p - 1 <= p - 1  BY <1>5, <1>8
  <2> QED  BY <1>2, <2>1, SolidsGrow
<1>13. CASE L!Tokenize
  <2>1. PICK r : r = L!next_token(i)  OBVIOUS
  <2>2. PICK t, e : t = r.token /\ e = r.end  OBVIOUS
  <2>3. /\ i <= n /\ t # L!NoToken /\ tokens' = Append(tokens, t)
        /\ pos_' = e /\ pc' = "lex"
    BY <1>2, <1>4, <1>6, <1>7, <1>13, <2>1, <2>2 DEF L!Tokenize
  <2>4. Place(i) /\ i \in p .. n  BY <1>4, <1>5, <1>8, <2>3 DEF Place
  <2>5. Covers(i, t, e)
    BY <1>2, <1>8, <2>1, <2>2, <2>3, <2>4, TokenCovers
  <2>6. t.text \in Seq(Chars) /\ e \in i + 1 .. n + 1 /\ (Place(e) => ~Continues(t, src_[e]))
        /\ \A k \in i .. e - 1 : k \in Solid(src_)
    BY <1>4, <2>5 DEF Covers
  <2>7. Missing(p) = 0 /\ Len(old) = Solids(p - 1)
    BY <1>8, <1>10, <1>12, <2>4
  <2>8. /\ Texts' \in Seq(Seq(Chars))
        /\ FlattenSeq(Texts') = old \o t.text
    BY <1>1, <1>3, <1>9, <2>3, <2>6, TextsGrow
  <2>9. Skips(p, i) /\ Writes(old, p)
    BY <1>3, <1>4, <1>6, <1>8, <1>9, <2>4, <2>7 DEF Skips, TextTo
  <2>10. Writes(FlattenSeq(Texts'), e)
    BY <1>2, <1>10, <2>5, <2>8, <2>9, TextGoesOn
  <2>11. TextTo(pos_)'
    BY <1>2, <2>3, <2>10 DEF TextTo, Writes, Solids, Missing
  <2>12. Place(e) => /\ Missing(e) = 0 /\ e # 1 /\ e - 1 \in Solid(src_)
                     /\ ~Continues(t, src_[e])
    <3>1. Boundary(pos_)'  BY <1>2, <2>3 DEF LexInv
    <3>2. Place(e) => Missing(e) = 0
      BY <1>2, <2>3, <3>1 DEF Boundary, Missing, Place
    <3>3. e # 1 /\ e - 1 \in i .. e - 1  BY <1>5, <1>8, <2>6
    <3> QED  BY <2>6, <3>2, <3>3
  <2>13. e \in 1 .. Len(src_) + 1  BY <1>4, <1>5, <1>8, <2>6
  <2>14. Len(FlattenSeq(Texts')) = Solids(e - 1) + Missing(e)
    BY <2>10 DEF Writes
  <2>15. \A k \in DOMAIN tokens' : \E x : EndsAt(k, x)'
    BY <1>1, <1>2, <1>3, <2>3, <2>6, <2>12, <2>13, <2>14, EndsGoOn
  <2> QED  BY <1>2, <1>11, <2>8, <2>11, <2>15 DEF TextInv
<1>14. CASE L!EndOfSource
  <2>1. PICK t : t = L!EofToken  OBVIOUS
  <2>2. i > n /\ tokens' = Append(tokens, t) /\ pos_' = i
    BY <1>4, <1>6, <1>7, <1>14, <2>1 DEF L!EndOfSource
  <2>3. i = n + 1  BY <1>5, <1>8, <2>2
  <2>4. t.text = << >> /\ t.text \in Seq(Chars)  BY <2>1 DEF L!EofToken
  <2>5. /\ Texts' \in Seq(Seq(Chars))
        /\ FlattenSeq(Texts') = old \o t.text
    BY <1>1, <1>3, <1>9, <2>2, <2>4, TextsGrow
  <2>6. FlattenSeq(Texts') = old
    <3>1. old \o << >> = old  BY <1>10, ConcatEmptySeq
    <3> QED  BY <2>4, <2>5, <3>1
  <2>7. Len(old) = Solids(i - 1) + Missing(i)  BY <1>8, <1>10
  <2>8. \A k \in Solid(src_) : k < i => k < p
    <3> SUFFICES ASSUME NEW k \in Solid(src_), k < i, ~(k < p)  PROVE FALSE
      OBVIOUS
    <3>1. k \in 1 .. n  BY <1>5 DEF Solid
    <3>2. k \in p .. i - 1  BY <1>5, <1>8, <3>1
    <3> QED  BY <1>8, <3>2
  <2>9. TextTo(pos_)'
    BY <1>2, <1>8, <1>10, <2>2, <2>6, <2>7, <2>8 DEF TextTo, Writes, Solids, Missing
  <2>10. ~Place(i)  BY <1>4, <1>5, <2>3 DEF Place
  <2>11. i \in 1 .. Len(src_) + 1 /\ Len(FlattenSeq(Texts')) = Solids(i - 1) + Missing(i)
    BY <1>4, <1>5, <2>3, <2>6, <2>7
  <2>12. \A k \in DOMAIN tokens' : \E x : EndsAt(k, x)'
    BY <1>1, <1>2, <1>3, <2>2, <2>4, <2>10, <2>11, EndsGoOn
  <2> QED  BY <1>2, <1>11, <2>5, <2>9, <2>12 DEF TextInv
<1>15. CASE L!LexerThrows
  <2>1. tokens' = tokens /\ pc' = "error"  BY <1>15 DEF L!LexerThrows
  <2>2. Texts' = Texts  BY <2>1 DEF Texts
  <2>3. ~Lexed'
    <3>1. ~Lexed  BY <1>2 DEF TextInv, LexInv
    <3> QED  BY <2>1, <3>1 DEF Lexed, L!EofToken
  <2>4. \A k \in DOMAIN tokens' : \E x : EndsAt(k, x)'
    BY <1>2, <1>3, <2>1, <2>2 DEF EndsAt, Solids, Missing, Place
  <2> QED  BY <1>2, <1>3, <1>11, <2>1, <2>2, <2>3, <2>4 DEF TextInv
<1> QED  BY <1>13, <1>14, <1>15 DEF Lex, L!Next

LEMMA KeptTextInv ==
  ASSUME TextInv, LexInv', UNCHANGED <<src_, pos_, tokens>>, pc' = "lex" => pc = "lex"
  PROVE  TextInv'
<1>1. Texts' = Texts /\ Chars' = Chars /\ (Lexed' <=> Lexed)
  BY DEF Texts, Chars, Lexed, L!EofToken
<1>2. \A k \in DOMAIN tokens' : \E x : EndsAt(k, x)'
  BY <1>1 DEF TextInv, EndsAt, Solids, Missing, Place
<1>3. TextTo(pos_) => TextTo(pos_)'  BY <1>1 DEF TextTo, Writes, Solids, Missing
<1> QED  BY <1>1, <1>2, <1>3 DEF TextInv

\* The invariant holds for every source.
LEMMA Texted == Spec => []TextInv
<1>1. Init => TextInv
  <2> SUFFICES ASSUME Init  PROVE TextInv  OBVIOUS
  <2>1. src_ \in Sources /\ pos_ = 1 /\ tokens = << >> /\ pc = "lex"
    BY DEF Init, L!Init
  <2>2. Texts = << >> /\ DOMAIN tokens = {}  BY <2>1, TextsStart
  <2>3. Texts \in Seq(Seq(Chars))  BY <2>2
  <2>4. FlattenSeq(Texts) = << >>  BY <2>2, Flattened
  <2>5. Missing(1) = 0 /\ Solids(0) = 0
    <3>1. Quotes(src_, 1 - 1) = 0  BY NoQuotes
    <3>2. 0 % 2 = 0  OBVIOUS
    <3>3. UpTo(Solid(src_), 0) = 0
      <4>1. \A k \in Solid(src_) : ~(k <= 0)  BY <2>1, SourceIs DEF Solid
      <4>2. {k \in Solid(src_) : k <= 0} = {}  BY <4>1
      <4> QED  BY <4>2, FS_EmptySet DEF UpTo, Cardinality, Cardinality
    <3> QED  BY <3>1, <3>2, <3>3 DEF Missing, Solids
  <2>6. TextTo(1)
    <3>1. \A k \in Solid(src_) : ~(k < 1)  BY <2>1, SourceIs DEF Solid
    <3>2. 1 - 1 = 0 /\ Len(<< >>) = 0  OBVIOUS
    <3> QED  BY <2>4, <2>5, <3>1, <3>2 DEF TextTo, Writes
  <2> QED  BY <2>1, <2>2, <2>3, <2>6, LexStarts DEF TextInv
<1>2. TextInv /\ [Next]_vars => TextInv'
  <2> SUFFICES ASSUME TextInv, [Next]_vars  PROVE TextInv'  OBVIOUS
  <2>1. CASE UNCHANGED vars
    <3>1. LexInv'  BY <2>1, LexNext DEF TextInv
    <3> QED  BY <2>1, <3>1, KeptTextInv DEF vars
  <2>2. CASE Parse
    <3>1. LexInv'  BY <2>2, ParseKeepsLexInv DEF TextInv
    <3>2. UNCHANGED <<src_, pos_, tokens>>
      BY <2>2 DEF Parse, P!Next, P!Take, P!GoOn, P!peek, P!consume
    <3>3. pc' # "lex"
      <4>1. pc \in P!Labels
        BY <2>2 DEF Parse, P!Next, P!Take, P!GoOn, P!peek, P!consume
      <4>2. Refuses(P!Rule(pc))  BY <4>1, RuleRefuses
      <4> QED  BY <2>2, <4>2 DEF Parse, P!Next, P!Take, P!GoOn, Refuses
    <3> QED  BY <3>1, <3>2, <3>3, KeptTextInv
  <2> QED  BY <2>1, <2>2, LexKeepsTextInv DEF Next
<1> QED  BY <1>1, <1>2, PTL DEF Spec

\* The texts of the tokens are the source without its white space, whatever the
\* source is.
THEOREM NothingLostOrMadeUp == Spec => []TokensAreTheSource
<1>1. TextInv => TokensAreTheSource
  <2> SUFFICES ASSUME TextInv, pc = "lex" \/ Lexed  PROVE TokensAreTheSource
    BY DEF TokensAreTheSource
  <2>1. TextTo(pos_)  BY DEF TextInv
  <2> QED  BY <2>1 DEF TextTo, Writes, Solids, Missing, TokensAreTheSource
<1> QED  BY <1>1, Texted, PTL

\* No token of any source would have gone on with the character behind it.
THEOREM LongestTokens == Spec => []TokensAreLongest
<1>1. TextInv => TokensAreLongest
  <2> SUFFICES ASSUME TextInv, NEW k \in DOMAIN tokens, NEW i \in Solid(src_),
                      i + 1 \in Solid(src_),
                      Solids(i) = Len(FlattenSeq(SubSeq(Texts, 1, k)))
               PROVE  ~Continues(tokens[k], src_[i + 1])
    BY DEF TokensAreLongest, Solids
  <2>1. PICK n : n = Len(src_)  OBVIOUS
  <2>2. n \in Nat /\ DOMAIN src_ = 1 .. n /\ src_ \in Sources
    BY <2>1, SourceIs DEF TextInv, LexInv
  <2>3. i \in 1 .. n /\ i + 1 \in 1 .. n  BY <2>2 DEF Solid
  <2>4. PICK e : EndsAt(k, e)  BY DEF TextInv
  <2>5. e \in 1 .. n + 1 /\ Solids(i) = Solids(e - 1) + Missing(e)
    BY <2>1, <2>4 DEF EndsAt
  <2>6. /\ Solids(i) \in Nat /\ Solids(i + 1) \in Nat /\ Solids(i) < Solids(i + 1)
    <3>1. i \in Nat /\ i + 1 \in Nat /\ i < i + 1 /\ i <= i + 1  BY <2>2, <2>3
    <3> QED  BY <2>2, <3>1, SolidsGrow
  <2>7. Missing(e) \in {0, 1}  BY DEF Missing
  <2>8. CASE e <= n
    <3>1. /\ Place(e) /\ Missing(e) = 0 /\ e # 1 /\ e - 1 \in Solid(src_)
          /\ ~Continues(tokens[k], src_[e])
      BY <2>1, <2>2, <2>4, <2>5, <2>8 DEF EndsAt, Place
    <3>2. e - 1 \in Nat /\ i \in Nat  BY <2>2, <2>3, <2>5
    <3>3. Solids(e - 1) \in Nat
      <4>1. e - 1 <= e - 1  BY <3>2
      <4> QED  BY <2>2, <3>2, <4>1, SolidsGrow
    <3>4. Solids(i) = Solids(e - 1)  BY <2>5, <3>1, <3>3
    <3>5. ~(i < e - 1)
      <4>1. i < e - 1 => Solids(i) < Solids(e - 1)
        BY <2>2, <3>1, <3>2, SolidsGrow
      <4> QED  BY <2>6, <3>3, <3>4, <4>1
    <3>6. ~(e - 1 < i)
      <4>1. e - 1 < i => Solids(e - 1) < Solids(i)
        BY <2>2, <3>2, SolidsGrow
      <4> QED  BY <2>6, <3>3, <3>4, <4>1
    <3>7. i + 1 = e  BY <2>2, <2>3, <2>5, <3>2, <3>5, <3>6
    <3> QED  BY <3>1, <3>7
  <2>9. CASE ~(e <= n)
    <3>1. e - 1 = n  BY <2>2, <2>5, <2>9
    <3>2. i + 1 \in Nat /\ i + 1 <= n  BY <2>2, <2>3
    <3>3. Solids(n) \in Nat /\ Solids(i + 1) <= Solids(n)
      BY <2>2, <3>2, SolidsGrow
    <3> QED  BY <2>5, <2>6, <2>7, <3>1, <3>3
  <2> QED  BY <2>2, <2>5, <2>8, <2>9
<1> QED  BY <1>1, Texted, PTL

----------------------------------------------------------------------------
(* Clauses *)

IsHead(t) == t.type \in DOMAIN Rank

LastHead(s, h) == h \in Heads(s) /\ \A g \in Heads(s) : g <= h

LEMMA HeadsAre ==
  ASSUME NEW T, NEW s \in Seq(T), NEW e \in Seq(T)
  PROVE  /\ \A i : i \in Heads(s) <=> i \in 1 .. Len(s) /\ IsHead(s[i])
         /\ \A i \in 1 .. Len(s) : i \in Heads(s \o e) <=> i \in Heads(s)
         /\ Heads(s) \subseteq Heads(s \o e)
         /\ Heads(s \o e) \subseteq 1 .. Len(s) + Len(e)
         /\ e # << >> => (Len(s) + 1 \in Heads(s \o e) <=> IsHead(e[1]))
<1>1. PICK u : u = s \o e  OBVIOUS
<1>2. PICK n \in Nat : n = Len(s)  BY LenProperties
<1>3. PICK m \in Nat : m = Len(e)  BY LenProperties
<1>4. /\ u \in Seq(T) /\ Len(u) = n + m
      /\ \A i \in 1 .. n + m : u[i] = IF i <= n THEN s[i] ELSE e[i - n]
  BY <1>1, <1>2, <1>3, ConcatProperties
<1>5. DOMAIN s = 1 .. n /\ DOMAIN u = 1 .. n + m  BY <1>2, <1>4, LenProperties
<1>6. \A i \in 1 .. n : i \in 1 .. n + m /\ u[i] = s[i]  BY <1>4
<1>7. e # << >> => n + 1 \in 1 .. n + m /\ u[n + 1] = e[1]
  <2> SUFFICES ASSUME e # << >>  PROVE n + 1 \in 1 .. n + m /\ u[n + 1] = e[1]
    OBVIOUS
  <2>1. m > 0  BY <1>3, EmptySeq
  <2>2. n + 1 \in 1 .. n + m /\ ~(n + 1 <= n) /\ (n + 1) - n = 1  BY <2>1
  <2> QED  BY <1>4, <2>2
<1> QED  BY <1>1, <1>2, <1>3, <1>5, <1>6, <1>7 DEF Heads, IsHead

\* The clause that is last goes to the end.
LEMMA LastClause ==
  ASSUME NEW T, NEW s \in Seq(T), NEW h, LastHead(s, h)
  PROVE  /\ h \in 1 .. Len(s)
         /\ Clause(s, h) = SubSeq(s, h, Len(s)) /\ Clause(s, h) \in Seq(T)
         /\ Len(Clause(s, h)) = Len(s) - h + 1
         /\ \A i \in 1 .. Len(s) - h + 1 : Clause(s, h)[i] = s[h + i - 1]
<1>1. PICK n \in Nat : n = Len(s)  BY LenProperties
<1>2. DOMAIN s = 1 .. n /\ \A i \in 1 .. n : s[i] \in T
  BY <1>1, LenProperties, ElementOfSeq
<1>3. h \in 1 .. n  BY <1>2 DEF LastHead, Heads
<1>4. \A i \in Heads(s) : i \in Nat /\ ~(i > h)
  <2>1. \A i \in Heads(s) : i \in 1 .. n /\ i <= h  BY <1>2 DEF LastHead, Heads
  <2> QED  BY <1>3, <2>1
<1>5. {i \in Heads(s) : i > h} \cup {n + 1} = {n + 1}  BY <1>4
<1>6. Min({n + 1}) = n + 1
  <2>1. PICK B : B = {n + 1}  OBVIOUS
  <2>2. PICK m \in B : m = n + 1  BY <2>1
  <2>3. B \subseteq Int /\ \A x \in B : m <= x  BY <2>1, <2>2
  <2>4. Min(B) = m  BY <2>3, LeastIs
  <2> QED  BY <2>1, <2>2, <2>4
<1>7. Clause(s, h) = SubSeq(s, h, n)
  <2>1. (n + 1) - 1 = n  OBVIOUS
  <2> QED  BY <1>1, <1>5, <1>6, <2>1 DEF Clause
<1>8. \A i \in h .. n : s[i] \in T  BY <1>2, <1>3
<1>9. h \in Int /\ n \in Int /\ h <= n  BY <1>3
<1>10. /\ SubSeq(s, h, n) \in Seq(T)
       /\ Len(SubSeq(s, h, n)) = n - h + 1
       /\ \A i \in 1 .. n - h + 1 : SubSeq(s, h, n)[i] = s[h + i - 1]
  BY <1>8, <1>9, SubSeqProperties
<1> QED  BY <1>1, <1>3, <1>7, <1>10

LEMMA LastClauseIs ==
  ASSUME NEW T, NEW s \in Seq(T), NEW h, LastHead(s, h),
         NEW n, n = Len(s), NEW d, d = Clause(s, h)
  PROVE  /\ n \in Nat /\ h \in 1 .. n /\ d \in Seq(T) /\ Len(d) = n - h + 1
         /\ \A i \in 1 .. n - h + 1 : d[i] = s[h + i - 1]
<1>1. Len(s) \in Nat  BY LenProperties
<1>2. /\ h \in 1 .. Len(s)
      /\ Clause(s, h) \in Seq(T)
      /\ Len(Clause(s, h)) = Len(s) - h + 1
      /\ \A i \in 1 .. Len(s) - h + 1 : Clause(s, h)[i] = s[h + i - 1]
  BY LastClause
<1> QED  BY <1>1, <1>2

LEMMA ClauseFrom ==
  ASSUME NEW T, NEW s \in Seq(T), NEW h, LastHead(s, h),
         NEW n, n = Len(s), NEW d, d = Clause(s, h)
  PROVE  FromOn(d, s, h, n, T)
BY LastClauseIs DEF FromOn

\* A clause that others follow does not change any more.
LEMMA ClauseClosed ==
  ASSUME NEW T, NEW s \in Seq(T), NEW e \in Seq(T), NEW h \in Heads(s),
         ~LastHead(s, h)
  PROVE  Clause(s \o e, h) = Clause(s, h)
<1>1. PICK u : u = s \o e  OBVIOUS
<1>2. PICK n \in Nat : n = Len(s)  BY LenProperties
<1>3. PICK m \in Nat : m = Len(e)  BY LenProperties
<1>4. Len(u) = n + m  BY <1>1, <1>2, <1>3, ConcatProperties
<1>5. Heads(s) \subseteq 1 .. n /\ Heads(u) \subseteq 1 .. n + m
      /\ Heads(s) \subseteq Heads(u)
      /\ \A i \in 1 .. n : i \in Heads(u) <=> i \in Heads(s)
  <2>1. \A i : i \in Heads(s) => i \in 1 .. n  BY <1>2, HeadsAre
  <2> QED  BY <1>1, <1>2, <1>3, <2>1, HeadsAre
<1>6. h \in 1 .. n  BY <1>5
<1>7. PICK A : A = {i \in Heads(s) : i > h}  OBVIOUS
<1>8. A \subseteq Nat
  <2>1. \A i \in A : i \in 1 .. n  BY <1>5, <1>7
  <2> QED  BY <2>1
<1>9. A # {}
  <2>1. PICK g \in Heads(s) : ~(g <= h)  BY DEF LastHead
  <2>2. g > h  BY <1>5, <1>6, <2>1
  <2> QED  BY <1>7, <2>1, <2>2
<1>10. PICK j \in A : \A x \in A : j <= x  BY <1>8, <1>9, LeastNat
<1>11. j \in 1 .. n /\ j > h  BY <1>5, <1>7
<1>12. Min(A \cup {n + 1}) = j
  <2>1. A \cup {n + 1} \subseteq Int  BY <1>8
  <2>2. j \in A \cup {n + 1}  OBVIOUS
  <2>3. \A x \in A \cup {n + 1} : j <= x  BY <1>10, <1>11
  <2> QED  BY <2>1, <2>2, <2>3, LeastIs
<1>13. PICK B : B = {i \in Heads(u) : i > h} \cup {(n + m) + 1}  OBVIOUS
<1>14. Min(B) = j
  <2>1. B \subseteq Int
    <3>1. \A i \in Heads(u) : i \in Int  BY <1>5
    <3> QED  BY <1>13, <3>1
  <2>2. j \in B  BY <1>5, <1>7, <1>11, <1>13
  <2>3. ASSUME NEW x \in B  PROVE j <= x
    <3>1. x \in Int  BY <2>1
    <3>2. CASE x \in 1 .. n
      <4>1. x # (n + m) + 1  BY <3>2
      <4>2. x \in A  BY <1>5, <1>7, <1>13, <2>3, <3>2, <4>1
      <4> QED  BY <1>10, <4>2
    <3>3. CASE x \notin 1 .. n
      <4>1. x > h \/ x = (n + m) + 1  BY <1>13, <2>3
      <4>2. x > n  BY <1>6, <3>1, <3>3, <4>1
      <4> QED  BY <1>11, <3>1, <4>2
    <3> QED  BY <3>2, <3>3
  <2> QED  BY <2>1, <2>2, <2>3, LeastIs
<1>15. Clause(s, h) = SubSeq(s, h, j - 1)  BY <1>2, <1>7, <1>12 DEF Clause
<1>16. Clause(u, h) = SubSeq(u, h, j - 1)  BY <1>4, <1>13, <1>14 DEF Clause
<1>17. SubSeq(u, h, j - 1) = SubSeq(s, h, j - 1)
  <2>1. h \in 1 .. Len(s) /\ j - 1 \in 1 .. Len(s)  BY <1>2, <1>6, <1>11
  <2> QED  BY <1>1, <2>1, SubSeqOfConcat1
<1> QED  BY <1>1, <1>15, <1>16, <1>17

\* The last clause ends in front of a head, and goes on with anything else.
LEMMA ClauseGoesOn ==
  ASSUME NEW T, NEW s \in Seq(T), NEW e \in Seq(T), e # << >>, NEW h, LastHead(s, h)
  PROVE  IF IsHead(e[1]) THEN Clause(s \o e, h) = Clause(s, h)
         ELSE Prolonged(Clause(s, h), Clause(s \o e, h), e[1], T)
<1>1. PICK u : u = s \o e  OBVIOUS
<1>2. PICK n \in Nat : n = Len(s)  BY LenProperties
<1>3. PICK m \in Nat : m = Len(e)  BY LenProperties
<1>4. /\ u \in Seq(T) /\ Len(u) = n + m
      /\ \A i \in 1 .. n + m : u[i] = IF i <= n THEN s[i] ELSE e[i - n]
  BY <1>1, <1>2, <1>3, ConcatProperties
<1>5. /\ Heads(u) \subseteq 1 .. n + m
      /\ \A i \in 1 .. n : i \in Heads(u) <=> i \in Heads(s)
      /\ n + 1 \in Heads(u) <=> IsHead(e[1])
  BY <1>1, <1>2, <1>3, HeadsAre
<1>6. h \in 1 .. n /\ h \in Heads(s) /\ Clause(s, h) = SubSeq(s, h, n)
  BY <1>2, LastClause DEF LastHead
<1>7. \A i \in Heads(s) : i <= h  BY DEF LastHead
<1>8. m >= 1  BY <1>3, EmptySeq
<1>9. PICK B : B = {i \in Heads(u) : i > h} \cup {(n + m) + 1}  OBVIOUS
<1>10. B \subseteq Nat /\ B # {}
  <2>1. \A i \in Heads(u) : i \in Nat  BY <1>5
  <2> QED  BY <1>9, <2>1
<1>11. PICK j \in B : \A x \in B : j <= x  BY <1>10, LeastNat
<1>12. Min(B) = j
  <2>1. B \subseteq Int  BY <1>10
  <2> QED  BY <1>11, <2>1, LeastIs
<1>13. Clause(u, h) = SubSeq(u, h, j - 1)  BY <1>4, <1>9, <1>12 DEF Clause
<1>14. j \in n + 1 .. n + m + 1
  <2>1. j \in Nat /\ (j \in 1 .. n + m \/ j = (n + m) + 1)  BY <1>5, <1>9, <1>10
  <2>2. j \notin 1 .. n
    <3> SUFFICES ASSUME j \in 1 .. n  PROVE FALSE
      OBVIOUS
    <3>1. j # (n + m) + 1  OBVIOUS
    <3>2. j \in Heads(s) /\ j > h  BY <1>5, <1>9, <3>1
    <3> QED  BY <1>6, <1>7, <3>2
  <2> QED  BY <2>1, <2>2
<1>15. \A i \in 1 .. n : u[i] = s[i]  BY <1>4
<1>16. SubSeq(u, h, n) = SubSeq(s, h, n)
  <2>1. h \in 1 .. Len(s) /\ n \in 1 .. Len(s)  BY <1>2, <1>6
  <2> QED  BY <1>1, <2>1, SubSeqOfConcat1
<1>17. CASE IsHead(e[1])
  <2>1. n + 1 \in B  BY <1>5, <1>6, <1>9, <1>17
  <2>2. j - 1 = n  BY <1>11, <1>14, <2>1
  <2> QED  BY <1>1, <1>6, <1>13, <1>16, <1>17, <2>2
<1>18. CASE ~IsHead(e[1])
  <2>1. j # n + 1
    <3>1. n + 1 # (n + m) + 1  BY <1>8
    <3> QED  BY <1>5, <1>9, <1>18, <3>1
  <2>2. j - 1 \in n + 1 .. n + m  BY <1>14, <2>1
  <2>3. PICK z : z = SubSeq(u, n + 1, j - 1)  OBVIOUS
  <2>4. SubSeq(u, h, n) \o z = SubSeq(u, h, j - 1)
    <3>1. h \in 1 .. Len(u) + 1 /\ n \in h - 1 .. Len(u) /\ j - 1 \in n .. Len(u)
      BY <1>4, <1>6, <2>2
    <3> QED  BY <1>4, <2>3, <3>1, ConcatAdjacentSubSeq
  <2>5. z \in Seq(T) /\ Len(z) >= 1 /\ z[1] = u[n + 1]
    <3>1. \A i \in n + 1 .. j - 1 : u[i] \in T
      <4>1. \A i \in n + 1 .. j - 1 : i \in 1 .. Len(u)  BY <1>4, <2>2
      <4> QED  BY <1>4, <4>1, ElementOfSeq
    <3>2. n + 1 \in Int /\ j - 1 \in Int /\ n + 1 <= j - 1 /\ (n + 1) + 1 - 1 = n + 1
      BY <2>2
    <3>3. /\ z \in Seq(T) /\ Len(z) = (j - 1) - (n + 1) + 1
          /\ \A i \in 1 .. (j - 1) - (n + 1) + 1 : z[i] = u[(n + 1) + i - 1]
      BY <2>3, <3>1, <3>2, SubSeqProperties
    <3>4. 1 \in 1 .. (j - 1) - (n + 1) + 1  BY <2>2
    <3>5. Len(z) >= 1  BY <2>2, <3>3
    <3> QED  BY <3>2, <3>3, <3>4, <3>5
  <2>6. u[n + 1] = e[1]
    <3>1. n + 1 \in 1 .. n + m /\ ~(n + 1 <= n) /\ (n + 1) - n = 1  BY <1>8
    <3> QED  BY <1>4, <3>1
  <2>7. z # << >>  BY <2>5, EmptySeq
  <2>8. Prolonged(Clause(s, h), Clause(u, h), e[1], T)
    BY <1>6, <1>13, <1>16, <2>4, <2>5, <2>6, <2>7 DEF Prolonged
  <2> QED  BY <1>1, <1>18, <2>8
<1> QED  BY <1>17, <1>18

----------------------------------------------------------------------------
(* SELECT statements that are being read *)

\* s begins a SELECT that is complete but for its last clause, which is c.
InSelect(s, c) ==
  \E h \in Heads(s) :
    /\ LastHead(s, h) /\ c = Clause(s, h)
    /\ s # << >> /\ s[1].type = "SELECT"
    /\ \A f, g \in Heads(s) : f < g => Rank[s[f].type] < Rank[s[g].type]
    /\ \A g \in Heads(s) : g # h => IsClause(Clause(s, g))
    /\ h # 1 => \E g \in Heads(s) : s[g].type = "FROM"

LEMMA RanksAre ==
  /\ DOMAIN Rank = {"SELECT", "FROM", "WHERE", "GROUP", "ORDER"}
  /\ Rank["SELECT"] = 1 /\ Rank["FROM"] = 2 /\ Rank["WHERE"] = 3
  /\ Rank["GROUP"] = 4 /\ Rank["ORDER"] = 5
  BY DEF Rank

LEMMA InSelectIs ==
  ASSUME NEW T, NEW s \in Seq(T), NEW c, InSelect(s, c)
  PROVE  /\ c \in Seq(T) /\ Len(c) >= 1 /\ Len(s) >= Len(c)
         /\ c # << >> /\ IsHead(c[1]) /\ s[1].type = "SELECT"
         /\ \A i \in 1 .. Len(c) : c[i] = s[Len(s) - Len(c) + i]
         /\ Len(s) = Len(c) <=> c[1].type = "SELECT"
<1>1. PICK h \in Heads(s) :
        /\ LastHead(s, h) /\ c = Clause(s, h) /\ s # << >> /\ s[1].type = "SELECT"
        /\ \A f, g \in Heads(s) : f < g => Rank[s[f].type] < Rank[s[g].type]
  BY DEF InSelect
<1>2. PICK n \in Nat : n = Len(s)  BY LenProperties
<1>3. /\ h \in 1 .. n /\ c \in Seq(T) /\ Len(c) = n - h + 1
      /\ \A i \in 1 .. n - h + 1 : c[i] = s[h + i - 1]
  BY <1>1, <1>2, LastClause, ZenonT(60)
<1>4. IsHead(s[h]) /\ (1 \in Heads(s) <=> IsHead(s[1]) /\ 1 \in 1 .. n)
  <2>1. \A i : i \in Heads(s) <=> i \in 1 .. n /\ IsHead(s[i])
    <3>1. << >> \in Seq(T)  BY EmptySeq
    <3> QED  BY <1>2, <3>1, HeadsAre
  <2> QED  BY <1>1, <2>1
<1>5. c[1] = s[h] /\ Len(c) >= 1
  <2>1. 1 \in 1 .. n - h + 1 /\ h + 1 - 1 = h  BY <1>3
  <2> QED  BY <1>3, <2>1
<1>6. c # << >>  BY <1>5, EmptySeq
<1>7. 1 \in Heads(s)
  <2>1. IsHead(s[1])  BY <1>1, RanksAre DEF IsHead
  <2>2. 1 \in 1 .. n  BY <1>3
  <2> QED  BY <1>4, <2>1, <2>2
<1>8. h = 1 <=> c[1].type = "SELECT"
  <2>1. ASSUME h # 1  PROVE c[1].type # "SELECT"
    <3>1. 1 < h  BY <1>3, <2>1
    <3>2. Rank[s[1].type] < Rank[s[h].type]  BY <1>1, <1>7, <3>1
    <3> QED  BY <1>1, <1>5, <3>2, RanksAre
  <2> QED  BY <1>1, <1>5, <2>1
<1>9. \A i \in 1 .. Len(c) : c[i] = s[n - Len(c) + i]
  <2> SUFFICES ASSUME NEW i \in 1 .. Len(c)  PROVE c[i] = s[n - Len(c) + i]
    OBVIOUS
  <2>1. n - Len(c) + i = h + i - 1 /\ i \in 1 .. n - h + 1  BY <1>3
  <2> QED  BY <1>3, <2>1
<1> QED  BY <1>1, <1>2, <1>3, <1>4, <1>5, <1>6, <1>8, <1>9

LEMMA SelectIs ==
  ASSUME NEW T, NEW s \in Seq(T), NEW c, InSelect(s, c),
         c[1].type # "SELECT", IsClause(c)
  PROVE  IsSelect(s)
<1>1. PICK h \in Heads(s) :
        /\ LastHead(s, h) /\ c = Clause(s, h) /\ s # << >> /\ s[1].type = "SELECT"
        /\ \A f, g \in Heads(s) : f < g => Rank[s[f].type] < Rank[s[g].type]
        /\ \A g \in Heads(s) : g # h => IsClause(Clause(s, g))
        /\ h # 1 => \E g \in Heads(s) : s[g].type = "FROM"
  BY DEF InSelect
<1>2. h # 1
  <2>1. PICK n : n = Len(s)  OBVIOUS
  <2>2. s \in Seq(T) /\ LastHead(s, h) /\ c = Clause(s, h)  BY <1>1
  <2>3. /\ n \in Nat /\ h \in 1 .. n /\ c \in Seq(T) /\ Len(c) = n - h + 1
        /\ \A i \in 1 .. n - h + 1 : c[i] = s[h + i - 1]
    <3>1. FromOn(c, s, h, n, T)  BY ONLY <2>1, <2>2, ClauseFrom, Zenon
    <3> QED  BY ONLY <3>1 DEF FromOn
  <2>4. h = 1 => c[1] = s[1]
    <3>1. h = 1 => 1 \in 1 .. n - h + 1 /\ h + 1 - 1 = 1  BY <2>3
    <3> QED  BY <2>3, <3>1
  <2> QED  BY <1>1, <2>4
<1> QED  BY <1>1, <1>2 DEF IsSelect

LEMMA SelectStep ==
  ASSUME NEW T, NEW s \in Seq(T), NEW t \in T, NEW c, InSelect(s, c), ~IsHead(t)
  PROVE  InSelect(Append(s, t), Append(c, t))
<1>1. PICK h \in Heads(s) :
        /\ LastHead(s, h) /\ c = Clause(s, h) /\ s # << >> /\ s[1].type = "SELECT"
        /\ \A f, g \in Heads(s) : f < g => Rank[s[f].type] < Rank[s[g].type]
        /\ \A g \in Heads(s) : g # h => IsClause(Clause(s, g))
        /\ h # 1 => \E g \in Heads(s) : s[g].type = "FROM"
  BY DEF InSelect
<1>2. PICK n \in Nat : n = Len(s)  BY LenProperties
<1>3. PICK e : e = <<t>>  OBVIOUS
<1>4. PICK u : u = Append(s, t)  OBVIOUS
<1>5. e \in Seq(T) /\ u = s \o e  BY <1>3, <1>4, AppendIsConcat
<1>6. /\ u \in Seq(T) /\ Len(u) = n + 1 /\ u[n + 1] = t /\ u # << >>
      /\ \A i \in 1 .. n : u[i] = s[i]
  BY <1>2, <1>4, AppendProperties
<1>7. e # << >> /\ e[1] = t /\ Len(e) = 1  BY <1>3
<1>8. Heads(u) = Heads(s)
  <2>1. /\ \A i \in 1 .. n : i \in Heads(u) <=> i \in Heads(s)
        /\ Heads(u) \subseteq 1 .. n + 1
        /\ n + 1 \notin Heads(u)
        /\ Heads(s) \subseteq Heads(u)
    BY <1>2, <1>5, <1>7, HeadsAre
  <2>2. \A i \in 1 .. n + 1 : i = n + 1 \/ i \in 1 .. n  OBVIOUS
  <2> QED  BY <2>1, <2>2
<1>9. Heads(s) \subseteq 1 .. n
  <2>1. \A i : i \in Heads(s) => i \in 1 .. n  BY <1>2, <1>3, HeadsAre
  <2> QED  BY <2>1
<1>10. \A g \in Heads(s) : u[g] = s[g]  BY <1>6, <1>9
<1>11. LastHead(u, h)  BY <1>1, <1>8 DEF LastHead
<1>12. \A g \in Heads(s) : g # h => Clause(u, g) = Clause(s, g)
  <2> SUFFICES ASSUME NEW g \in Heads(s), g # h  PROVE Clause(u, g) = Clause(s, g)
    OBVIOUS
  <2>1. ~LastHead(s, g)
    <3>1. g <= h /\ g \in Nat /\ h \in Nat  BY <1>1, <1>9 DEF LastHead
    <3>2. ~(h <= g)  BY <3>1
    <3> QED  BY <3>2 DEF LastHead
  <2> QED  BY <1>5, <2>1, ClauseClosed
<1>13. Clause(u, h) = Append(c, t)
  <2>1. h \in 1 .. n /\ c \in Seq(T) /\ Len(c) = n - h + 1
        /\ \A i \in 1 .. n - h + 1 : c[i] = s[h + i - 1]
    BY <1>1, <1>2, LastClauseIs
  <2>2. PICK d : d = Clause(u, h)  OBVIOUS
  <2>3. d \in Seq(T) /\ Len(d) = (n + 1) - h + 1
        /\ \A i \in 1 .. (n + 1) - h + 1 : d[i] = u[h + i - 1]
    <3>1. PICK m : m = n + 1  OBVIOUS
    <3>2. u \in Seq(T) /\ m = Len(u)  BY <1>6, <3>1
    <3>3. d \in Seq(T) /\ Len(d) = m - h + 1 /\ \A i \in 1 .. m - h + 1 : d[i] = u[h + i - 1]
      BY <1>11, <2>2, <3>2, LastClauseIs, SMTT(30)
    <3> QED  BY <3>1, <3>3
  <2>4. PICK a : a = Append(c, t)  OBVIOUS
  <2>5. /\ a \in Seq(T) /\ Len(a) = (n - h + 1) + 1 /\ a[(n - h + 1) + 1] = t
        /\ \A i \in 1 .. n - h + 1 : a[i] = c[i]
    <3>1. c \in Seq(T)  BY <2>1
    <3>2. /\ a \in Seq(T) /\ Len(a) = Len(c) + 1 /\ a[Len(c) + 1] = t
          /\ \A i \in 1 .. Len(c) : a[i] = c[i]
      BY <2>4, <3>1, AppendProperties
    <3> QED  BY <2>1, <3>2
  <2>6. Len(a) = Len(d)  BY <2>1, <2>3, <2>5
  <2>7. \A i \in 1 .. Len(a) : a[i] = d[i]
    <3> SUFFICES ASSUME NEW i \in 1 .. (n - h + 1) + 1  PROVE a[i] = d[i]
      BY <2>5
    <3>1. d[i] = u[h + i - 1]  BY <2>1, <2>3
    <3>2. CASE i \in 1 .. n - h + 1
      <4>1. h + i - 1 \in 1 .. n  BY <2>1, <3>2
      <4> QED  BY <1>6, <2>1, <2>5, <3>1, <3>2, <4>1
    <3>3. CASE i = (n - h + 1) + 1
      <4>1. h + i - 1 = n + 1  BY <2>1, <3>3
      <4> QED  BY <1>6, <2>5, <3>1, <3>3, <4>1
    <3> QED  BY <2>1, <3>2, <3>3
  <2> QED  BY <2>2, <2>3, <2>4, <2>5, <2>6, <2>7, SeqEqual
<1>14. u[1].type = "SELECT"
  <2>1. 1 \in 1 .. n  BY <1>9
  <2> QED  BY <1>1, <1>6, <2>1
<1>15. \A f, g \in Heads(u) : f < g => Rank[u[f].type] < Rank[u[g].type]
  BY <1>1, <1>8, <1>10
<1>16. \A g \in Heads(u) : g # h => IsClause(Clause(u, g))
  BY <1>1, <1>8, <1>12
<1>17. h # 1 => \E g \in Heads(u) : u[g].type = "FROM"
  BY <1>1, <1>8, <1>10
<1>18. InSelect(u, Append(c, t))
  BY <1>6, <1>8, <1>11, <1>13, <1>14, <1>15, <1>16, <1>17 DEF InSelect
<1> QED  BY <1>4, <1>18

LEMMA SelectNext ==
  ASSUME NEW T, NEW s \in Seq(T), NEW t \in T, NEW c, InSelect(s, c), IsHead(t),
         IsClause(c), Rank[c[1].type] < Rank[t.type],
         c[1].type = "SELECT" => t.type = "FROM"
  PROVE  InSelect(Append(s, t), <<t>>)
<1>1. PICK h \in Heads(s) :
        /\ LastHead(s, h) /\ c = Clause(s, h) /\ s # << >> /\ s[1].type = "SELECT"
        /\ \A f, g \in Heads(s) : f < g => Rank[s[f].type] < Rank[s[g].type]
        /\ \A g \in Heads(s) : g # h => IsClause(Clause(s, g))
        /\ h # 1 => \E g \in Heads(s) : s[g].type = "FROM"
  BY DEF InSelect
<1>2. PICK n \in Nat : n = Len(s)  BY LenProperties
<1>3. PICK e : e = <<t>>  OBVIOUS
<1>4. PICK u : u = Append(s, t)  OBVIOUS
<1>5. e \in Seq(T) /\ u = s \o e  BY <1>3, <1>4, AppendIsConcat
<1>6. /\ u \in Seq(T) /\ Len(u) = n + 1 /\ u[n + 1] = t /\ u # << >>
      /\ \A i \in 1 .. n : u[i] = s[i]
  BY <1>2, <1>4, AppendProperties
<1>7. e # << >> /\ e[1] = t /\ Len(e) = 1  BY <1>3
<1>8. Heads(u) = Heads(s) \cup {n + 1}
  <2>1. /\ \A i \in 1 .. n : i \in Heads(u) <=> i \in Heads(s)
        /\ Heads(u) \subseteq 1 .. n + 1
        /\ n + 1 \in Heads(u)
        /\ Heads(s) \subseteq Heads(u)
    BY <1>2, <1>5, <1>7, HeadsAre
  <2>2. \A i \in 1 .. n + 1 : i = n + 1 \/ i \in 1 .. n  OBVIOUS
  <2> QED  BY <2>1, <2>2
<1>9. Heads(s) \subseteq 1 .. n
  <2>1. \A i : i \in Heads(s) => i \in 1 .. n  BY <1>2, <1>3, HeadsAre
  <2> QED  BY <2>1
<1>10. \A g \in Heads(s) : u[g] = s[g] /\ g # n + 1 /\ g < n + 1 /\ g <= n + 1
  <2> SUFFICES ASSUME NEW g \in Heads(s)
               PROVE  u[g] = s[g] /\ g # n + 1 /\ g < n + 1 /\ g <= n + 1
    OBVIOUS
  <2>1. g \in 1 .. n  BY <1>9
  <2> QED  BY <1>6, <2>1
<1>11. LastHead(u, n + 1)
  <2>1. n + 1 <= n + 1  OBVIOUS
  <2> QED  BY <1>8, <1>10, <2>1 DEF LastHead
<1>12. \A g \in Heads(s) : Clause(u, g) = Clause(s, g)
  <2> SUFFICES ASSUME NEW g \in Heads(s)  PROVE Clause(u, g) = Clause(s, g)
    OBVIOUS
  <2>1. CASE g = h
    <3>1. IsHead(e[1]) /\ LastHead(s, g)  BY <1>1, <1>7, <2>1
    <3> QED  BY <1>5, <1>7, <3>1, ClauseGoesOn
  <2>2. CASE g # h
    <3>1. ~LastHead(s, g)
      <4>1. g <= h /\ g \in Nat /\ h \in Nat  BY <1>1, <1>9 DEF LastHead
      <4>2. ~(h <= g)  BY <2>2, <4>1
      <4> QED  BY <4>2 DEF LastHead
    <3> QED  BY <1>5, <3>1, ClauseClosed
  <2> QED  BY <2>1, <2>2
<1>13. Clause(u, n + 1) = e
  <2>1. PICK d : d = Clause(u, n + 1)  OBVIOUS
  <2>2. d \in Seq(T) /\ Len(d) = (n + 1) - (n + 1) + 1
        /\ \A i \in 1 .. (n + 1) - (n + 1) + 1 : d[i] = u[(n + 1) + i - 1]
    <3>1. PICK m : m = n + 1  OBVIOUS
    <3>2. PICK g : g = n + 1  OBVIOUS
    <3>3. u \in Seq(T) /\ m = Len(u) /\ LastHead(u, g) /\ d = Clause(u, g)
      BY <1>6, <1>11, <2>1, <3>1, <3>2
    <3>4. d \in Seq(T) /\ Len(d) = m - g + 1 /\ \A i \in 1 .. m - g + 1 : d[i] = u[g + i - 1]
      BY <3>3, LastClauseIs
    <3> QED  BY <3>1, <3>2, <3>4
  <2>3. Len(d) = 1 /\ d[1] = t
    <3>1. (n + 1) - (n + 1) + 1 = 1 /\ 1 \in 1 .. 1 /\ (n + 1) + 1 - 1 = n + 1
      OBVIOUS
    <3> QED  BY <1>6, <2>2, <3>1
  <2>4. \A i \in 1 .. Len(d) : d[i] = e[i]
    <3> SUFFICES ASSUME NEW i \in 1 .. 1  PROVE d[i] = e[i]
      BY <2>3
    <3>1. i = 1  OBVIOUS
    <3> QED  BY <1>7, <2>3, <3>1
  <2>5. d \in Seq(T) /\ e \in Seq(T) /\ Len(d) = Len(e)  BY <1>5, <1>7, <2>2, <2>3
  <2>6. d = e  BY <2>4, <2>5, SeqEqual
  <2> QED  BY <2>1, <2>6
<1>14. u[1].type = "SELECT"
  <2>1. 1 \in 1 .. n  BY <1>9
  <2> QED  BY <1>1, <1>6, <2>1
<1>15. c[1] = s[h]
  <2>0. LastHead(s, h) /\ n = Len(s) /\ c = Clause(s, h)  BY <1>1, <1>2
  <2>1. /\ n \in Nat /\ h \in 1 .. n /\ c \in Seq(T) /\ Len(c) = n - h + 1
        /\ \A i \in 1 .. n - h + 1 : c[i] = s[h + i - 1]
    <3>1. FromOn(c, s, h, n, T)  BY <2>0, ClauseFrom
    <3> QED  BY <3>1 DEF FromOn
  <2>2. 1 \in 1 .. n - h + 1 /\ h + 1 - 1 = h  BY <2>1
  <2> QED  BY <2>1, <2>2
<1>16. \A i \in Heads(s) : s[i].type \in DOMAIN Rank
  <2>1. \A i : i \in Heads(s) => IsHead(s[i])  BY <1>3, HeadsAre
  <2> QED  BY <2>1 DEF IsHead
<1>17. \A f, g \in Heads(u) : f < g => Rank[u[f].type] < Rank[u[g].type]
  <2> SUFFICES ASSUME NEW f \in Heads(u), NEW g \in Heads(u), f < g
               PROVE  Rank[u[f].type] < Rank[u[g].type]
    OBVIOUS
  <2>1. CASE f \in Heads(s) /\ g \in Heads(s)
    BY <1>1, <1>10, <2>1
  <2>2. CASE f = n + 1
    <3>1. g \in 1 .. n + 1  BY <1>8, <1>9
    <3> QED  BY <2>2, <3>1
  <2>3. CASE f \in Heads(s) /\ g = n + 1
    <3>1. f <= h /\ f \in Nat /\ h \in Nat  BY <1>1, <1>9, <2>3 DEF LastHead
    <3>2. f = h \/ f < h  BY <3>1
    <3>3. /\ Rank[s[f].type] = Rank[s[h].type] \/ Rank[s[f].type] < Rank[s[h].type]
          /\ Rank[s[h].type] < Rank[t.type]
      BY <1>1, <1>15, <2>3, <3>2
    <3>4. Rank[s[f].type] < Rank[t.type]
      <4>1. \A x \in DOMAIN Rank : Rank[x] \in Nat  BY RanksAre
      <4>2. t.type \in DOMAIN Rank  BY DEF IsHead
      <4>3. Rank[s[f].type] \in Nat /\ Rank[s[h].type] \in Nat /\ Rank[t.type] \in Nat
        BY <1>16, <2>3, <4>1, <4>2
      <4> QED  BY <3>3, <4>3
    <3> QED  BY <1>6, <1>10, <2>3, <3>4
  <2> QED  BY <1>8, <2>1, <2>2, <2>3
<1>18. \A g \in Heads(u) : g # n + 1 => IsClause(Clause(u, g))
  <2> SUFFICES ASSUME NEW g \in Heads(s)  PROVE IsClause(Clause(u, g))
    BY <1>8
  <2> QED  BY <1>1, <1>12
<1>19. \E g \in Heads(u) : u[g].type = "FROM"
  <2>1. CASE h # 1
    <3>1. PICK g \in Heads(s) : s[g].type = "FROM"  BY <1>1, <2>1
    <3> QED  BY <1>8, <1>10, <3>1
  <2>2. CASE h = 1
    <3>1. c[1].type = "SELECT"  BY <1>1, <1>15, <2>2
    <3>2. u[n + 1].type = "FROM"  BY <1>6, <3>1
    <3> QED  BY <1>8, <3>2
  <2> QED  BY <2>1, <2>2
<1>20. InSelect(u, e)
  BY <1>6, <1>8, <1>11, <1>13, <1>14, <1>17, <1>18, <1>19 DEF InSelect
<1> QED  BY <1>3, <1>4, <1>20

LEMMA InSelectHas ==
  ASSUME NEW T, NEW s \in Seq(T), NEW c, InSelect(s, c)
  PROVE  \E h \in Heads(s) :
           /\ LastHead(s, h) /\ c = Clause(s, h) /\ s # << >> /\ s[1].type = "SELECT"
           /\ \A f, g \in Heads(s) : f < g => Rank[s[f].type] < Rank[s[g].type]
           /\ h \in 1 .. Len(s) /\ c \in Seq(T) /\ c[1] = s[h]
           /\ \A g \in Heads(s) : g \in 1 .. Len(s) /\ IsHead(s[g])
<1>1. PICK h \in Heads(s) :
        /\ LastHead(s, h) /\ c = Clause(s, h) /\ s # << >> /\ s[1].type = "SELECT"
        /\ \A f, g \in Heads(s) : f < g => Rank[s[f].type] < Rank[s[g].type]
  BY DEF InSelect
<1>2. LastHead(s, h) /\ c = Clause(s, h)  BY <1>1
<1> HIDE DEF LastHead
<1>3. PICK n : n = Len(s)  OBVIOUS
<1>4. /\ n \in Nat /\ h \in 1 .. n /\ c \in Seq(T)
      /\ \A i \in 1 .. n - h + 1 : c[i] = s[h + i - 1]
  BY <1>2, <1>3, LastClauseIs, SMTT(30)
<1>5. c[1] = s[h]
  <2>1. 1 \in 1 .. n - h + 1 /\ h + 1 - 1 = h  BY <1>4
  <2> QED  BY <1>4, <2>1
<1>6. \A g \in Heads(s) : g \in 1 .. Len(s) /\ IsHead(s[g])
  <2>1. << >> \in Seq(T)  BY EmptySeq
  <2>2. \A g : g \in Heads(s) <=> g \in 1 .. Len(s) /\ IsHead(s[g])
    BY <2>1, HeadsAre
  <2> QED  BY <2>2
<1> QED  BY <1>1, <1>3, <1>4, <1>5, <1>6

\* What a SELECT goes on with: a head of a later clause, or more of the last one.
LEMMA SelectFollow ==
  ASSUME NEW T, NEW s \in Seq(T), NEW e \in Seq(T), e # << >>, NEW c, InSelect(s, c),
         IsSelect(s \o e)
  PROVE  IF IsHead(e[1])
         THEN /\ IsClause(c) /\ Rank[c[1].type] < Rank[e[1].type]
              /\ c[1].type = "SELECT" => e[1].type = "FROM"
         ELSE \E z \in Seq(T) : z # << >> /\ z[1] = e[1] /\ IsClause(c \o z)
<1>1. PICK h \in Heads(s) :
        /\ LastHead(s, h) /\ c = Clause(s, h)
        /\ h \in 1 .. Len(s) /\ c \in Seq(T) /\ c[1] = s[h]
  BY InSelectHas
<1>2. PICK n \in Nat : n = Len(s)  BY LenProperties
<1>3. PICK u : u = s \o e  OBVIOUS
<1>4. PICK m \in Nat : m = Len(e)  BY LenProperties
<1>5. /\ u \in Seq(T) /\ Len(u) = n + m
      /\ \A i \in 1 .. n + m : u[i] = IF i <= n THEN s[i] ELSE e[i - n]
  BY <1>2, <1>3, <1>4, ConcatProperties
<1>6. /\ Heads(s) \subseteq Heads(u) /\ Heads(u) \subseteq 1 .. n + m
      /\ \A i \in 1 .. n : i \in Heads(u) <=> i \in Heads(s)
      /\ n + 1 \in Heads(u) <=> IsHead(e[1])
  BY <1>2, <1>3, <1>4, HeadsAre
<1>7. h \in 1 .. n /\ c \in Seq(T)  BY <1>1, <1>2
<1>8. c[1] = s[h]  BY <1>1
<1>9. u[h] = s[h]
  <2>1. h \in 1 .. n + m /\ h <= n  BY <1>7
  <2> QED  BY <1>5, <2>1
<1>10. u[n + 1] = e[1] /\ n + 1 \in 1 .. n + m
  <2>1. m >= 1  BY <1>4, EmptySeq
  <2>2. n + 1 \in 1 .. n + m /\ ~(n + 1 <= n) /\ (n + 1) - n = 1  BY <2>1
  <2> QED  BY <1>5, <2>2
<1>11. IsClause(Clause(u, h)) /\ h \in Heads(u)
  BY <1>3, <1>6 DEF IsSelect
<1>12. CASE IsHead(e[1])
  <2>1. Clause(u, h) = c  BY <1>1, <1>3, <1>12, ClauseGoesOn
  <2>2. n + 1 \in Heads(u) /\ h < n + 1  BY <1>6, <1>7, <1>12
  <2>3. \A f, g \in Heads(u) : f < g => Rank[u[f].type] < Rank[u[g].type]
    BY <1>3 DEF IsSelect
  <2>4. Rank[c[1].type] < Rank[e[1].type]
    BY <1>8, <1>9, <1>10, <1>11, <2>2, <2>3
  <2>5. ASSUME c[1].type = "SELECT"  PROVE e[1].type = "FROM"
    <3>1. PICK g \in Heads(u) : u[g].type = "FROM"  BY <1>3 DEF IsSelect
    <3>2. g \in 1 .. n + m /\ g # h  BY <1>6, <1>8, <1>9, <2>5, <3>1
    <3>3. ~(g < h)
      <4>1. g < h => Rank["FROM"] < Rank["SELECT"]
        BY <1>8, <1>9, <1>11, <2>3, <2>5, <3>1
      <4> QED  BY <4>1, RanksAre
    <3>4. ~(g <= n)
      <4> SUFFICES ASSUME g <= n  PROVE FALSE
        OBVIOUS
      <4>1. g \in Heads(s)  BY <1>6, <3>2
      <4>2. g <= h  BY <1>1, <4>1 DEF LastHead
      <4> QED  BY <1>7, <3>2, <3>3, <4>2
    <3>5. CASE g = n + 1  BY <1>10, <3>1, <3>5
    <3>6. CASE g # n + 1
      <4>1. n + 1 < g  BY <3>2, <3>4, <3>6
      <4>2. Rank[e[1].type] < Rank["FROM"]  BY <1>10, <2>2, <2>3, <3>1, <4>1
      <4>3. Rank["SELECT"] < Rank[e[1].type]  BY <2>4, <2>5
      <4>4. e[1].type \in {"SELECT", "FROM", "WHERE", "GROUP", "ORDER"}
        BY <1>12, RanksAre DEF IsHead
      <4> QED  BY <4>2, <4>3, <4>4, RanksAre
    <3> QED  BY <3>5, <3>6
  <2> QED  BY <1>11, <1>12, <2>1, <2>4, <2>5
<1>13. CASE ~IsHead(e[1])
  <2>1. PICK z \in Seq(T) : /\ z # << >> /\ z[1] = e[1]
                           /\ Clause(s \o e, h) = Clause(s, h) \o z
    <3>1. LastHead(s, h)  BY <1>1
    <3>2. Prolonged(Clause(s, h), Clause(s \o e, h), e[1], T)
      BY <1>13, <3>1, ClauseGoesOn
    <3> QED  BY <3>2 DEF Prolonged
  <2>2. Clause(u, h) = c \o z  BY <1>1, <1>3, <2>1
  <2> QED  BY <1>11, <1>13, <2>1, <2>2
<1> QED  BY <1>12, <1>13

LEMMA SelectFirst ==
  ASSUME NEW T, NEW t \in T, t.type = "SELECT"
  PROVE  InSelect(<<t>>, <<t>>)
<1>1. PICK s : s = <<t>>  OBVIOUS
<1>2. s \in Seq(T) /\ Len(s) = 1 /\ s[1] = t /\ s # << >>  BY <1>1
<1>3. IsHead(t)  BY RanksAre DEF IsHead
<1>4. Heads(s) = {1}
  <2>1. << >> \in Seq(T)  BY EmptySeq
  <2>2. \A i : i \in Heads(s) <=> i \in 1 .. Len(s) /\ IsHead(s[i])
    BY <1>2, <2>1, HeadsAre
  <2>3. \A i : i \in 1 .. 1 <=> i = 1  OBVIOUS
  <2> QED  BY <1>2, <1>3, <2>2, <2>3
<1>5. LastHead(s, 1)  BY <1>4 DEF LastHead
<1>6. Clause(s, 1) = s
  <2>1. Clause(s, 1) = SubSeq(s, 1, Len(s))  BY <1>2, <1>5, LastClause
  <2> QED  BY <1>2, <2>1, SubSeqFull
<1> QED  BY <1>1, <1>2, <1>4, <1>5, <1>6 DEF InSelect

----------------------------------------------------------------------------
(* The pieces of a clause, by its word *)

LEMMA ListOfNow ==
  ASSUME NEW T, NEW s \in Seq(T), NEW c, InSelect(s, c), NEW n, NEW sep
  PROVE  ListOf(s, c[1].type, n, sep) = Pieces(After(c, n), sep)
<1>1. PICK h \in Heads(s) :
        /\ LastHead(s, h) /\ c = Clause(s, h)
        /\ \A f, g \in Heads(s) : f < g => Rank[s[f].type] < Rank[s[g].type]
        /\ h \in 1 .. Len(s) /\ c[1] = s[h]
        /\ \A g \in Heads(s) : g \in 1 .. Len(s) /\ IsHead(s[g])
  BY InSelectHas
<1>2. PICK l \in Nat : l = Len(s)  BY LenProperties
<1>3. h \in 1 .. l  BY <1>1, <1>2
<1>4. c[1] = s[h]  BY <1>1
<1>5. \A g \in Heads(s) : g \in 1 .. l /\ s[g].type \in DOMAIN Rank
  BY <1>1, <1>2 DEF IsHead
<1>6. \A g \in Heads(s) : s[g].type = c[1].type => g = h
  <2> SUFFICES ASSUME NEW g \in Heads(s), s[g].type = c[1].type, g # h  PROVE FALSE
    OBVIOUS
  <2>1. g \in 1 .. l /\ g <= h  BY <1>1, <1>5 DEF LastHead
  <2>2. g < h  BY <1>3, <2>1
  <2>3. Rank[s[g].type] < Rank[s[g].type]  BY <1>1, <1>4, <2>2
  <2>4. s[g].type \in {"SELECT", "FROM", "WHERE", "GROUP", "ORDER"}  BY <1>5, RanksAre
  <2> QED  BY <2>3, <2>4, RanksAre
<1>7. PICK H : H = {g \in Heads(s) : s[g].type = c[1].type}  OBVIOUS
<1>8. H = {h}  BY <1>4, <1>6, <1>7
<1>9. Min(H) = h
  <2>1. H \subseteq Int /\ h \in H /\ \A x \in H : h <= x  BY <1>3, <1>8
  <2> QED  BY <2>1, LeastIs
<1>10. H # {}  BY <1>8
<1> QED  BY <1>1, <1>7, <1>9, <1>10 DEF ListOf

\* Later tokens do not change the pieces of clauses with another word.
LEMMA ListOfSame ==
  ASSUME NEW T, NEW s \in Seq(T), NEW t \in T, NEW word, NEW n, NEW sep,
         ~IsHead(t) \/ t.type # word,
         \A g \in Heads(s) : s[g].type = word =>
           Clause(Append(s, t), g) = Clause(s, g)
  PROVE  ListOf(Append(s, t), word, n, sep) = ListOf(s, word, n, sep)
<1>1. PICK u : u = Append(s, t)  OBVIOUS
<1>2. PICK e : e = <<t>>  OBVIOUS
<1>3. PICK l \in Nat : l = Len(s)  BY LenProperties
<1>4. e \in Seq(T) /\ e # << >> /\ e[1] = t /\ Len(e) = 1 /\ u = s \o e
  BY <1>1, <1>2, AppendIsConcat
<1>5. u \in Seq(T) /\ u[l + 1] = t /\ \A i \in 1 .. l : u[i] = s[i]
  BY <1>1, <1>3, AppendProperties
<1>6. /\ Heads(s) \subseteq Heads(u) /\ Heads(u) \subseteq 1 .. l + 1
      /\ Heads(s) \subseteq 1 .. l
      /\ \A i \in 1 .. l : i \in Heads(u) <=> i \in Heads(s)
      /\ l + 1 \in Heads(u) <=> IsHead(t)
  <2>1. \A i : i \in Heads(s) => i \in 1 .. l  BY <1>3, <1>4, HeadsAre
  <2> QED  BY <1>3, <1>4, <2>1, HeadsAre
<1>7. PICK H : H = {g \in Heads(s) : s[g].type = word}  OBVIOUS
<1>8. {g \in Heads(u) : u[g].type = word} = H
  <2>1. \A i \in 1 .. l + 1 : i = l + 1 \/ i \in 1 .. l  OBVIOUS
  <2> QED  BY <1>5, <1>6, <1>7, <2>1
<1>9. H # {} => Min(H) \in H
  <2> SUFFICES ASSUME H # {}  PROVE Min(H) \in H
    OBVIOUS
  <2>1. H \subseteq Nat /\ H \subseteq Int
    <3>1. \A g \in H : g \in 1 .. l  BY <1>6, <1>7
    <3> QED  BY <3>1
  <2>2. PICK x \in H : \A y \in H : x <= y  BY <2>1, LeastNat
  <2>3. Min(H) = x  BY <2>1, <2>2, LeastIs
  <2> QED  BY <2>3
<1>10. H # {} => Clause(u, Min(H)) = Clause(s, Min(H))
  BY <1>1, <1>7, <1>9
<1> QED  BY <1>1, <1>7, <1>8, <1>10 DEF ListOf

LEMMA ListOfStep ==
  ASSUME NEW T, NEW s \in Seq(T), NEW t \in T, NEW c, InSelect(s, c), ~IsHead(t),
         NEW word, word # c[1].type, NEW n, NEW sep
  PROVE  ListOf(Append(s, t), word, n, sep) = ListOf(s, word, n, sep)
<1>1. PICK h \in Heads(s) :
        /\ LastHead(s, h) /\ h \in 1 .. Len(s) /\ c[1] = s[h]
        /\ \A g \in Heads(s) : g \in 1 .. Len(s)
  BY InSelectHas
<1>2. PICK e : e = <<t>>  OBVIOUS
<1>3. e \in Seq(T) /\ Append(s, t) = s \o e  BY <1>2, AppendIsConcat
<1>4. PICK l \in Nat : l = Len(s)  BY LenProperties
<1>5. h \in 1 .. l /\ \A g \in Heads(s) : g \in 1 .. l  BY <1>1, <1>4
<1>6. c[1] = s[h]  BY <1>1
<1>7. ASSUME NEW g \in Heads(s), s[g].type = word
      PROVE  Clause(Append(s, t), g) = Clause(s, g)
  <2>1. ~LastHead(s, g)
    <3>1. g # h  BY <1>6, <1>7
    <3>2. g \in 1 .. l  BY <1>5
    <3>3. g <= h  BY <1>1 DEF LastHead
    <3>4. ~(h <= g)  BY <1>5, <3>1, <3>2, <3>3
    <3> QED  BY <3>4 DEF LastHead
  <2> QED  BY <1>3, <2>1, ClauseClosed
<1> QED  BY <1>7, ListOfSame

LEMMA ListOfNext ==
  ASSUME NEW T, NEW s \in Seq(T), NEW t \in T, NEW c, InSelect(s, c), IsHead(t),
         NEW word, word # t.type, NEW n, NEW sep
  PROVE  ListOf(Append(s, t), word, n, sep) = ListOf(s, word, n, sep)
<1>1. PICK e : e = <<t>>  OBVIOUS
<1>2. e \in Seq(T) /\ e # << >> /\ e[1] = t /\ Append(s, t) = s \o e
  BY <1>1, AppendIsConcat
<1>3. ASSUME NEW g \in Heads(s)
      PROVE  Clause(Append(s, t), g) = Clause(s, g)
  <2>1. CASE LastHead(s, g)
    BY <1>2, <2>1, ClauseGoesOn
  <2>2. CASE ~LastHead(s, g)
    BY <1>2, <2>2, ClauseClosed
  <2> QED  BY <2>1, <2>2
<1> QED  BY <1>3, ListOfSame

LEMMA ListOfNone ==
  ASSUME NEW T, NEW s \in Seq(T), NEW c, InSelect(s, c),
         NEW word \in DOMAIN Rank, Rank[c[1].type] < Rank[word], NEW n, NEW sep
  PROVE  ListOf(s, word, n, sep) = << >>
<1>1. PICK h \in Heads(s) :
        /\ LastHead(s, h) /\ c = Clause(s, h)
        /\ \A f, g \in Heads(s) : f < g => Rank[s[f].type] < Rank[s[g].type]
        /\ h \in 1 .. Len(s) /\ c[1] = s[h]
        /\ \A g \in Heads(s) : g \in 1 .. Len(s) /\ IsHead(s[g])
  BY InSelectHas
<1>2. PICK l \in Nat : l = Len(s)  BY LenProperties
<1>3. h \in 1 .. l  BY <1>1, <1>2
<1>4. c[1] = s[h]  BY <1>1
<1>5. \A g \in Heads(s) : g \in 1 .. l /\ s[g].type \in DOMAIN Rank
  BY <1>1, <1>2 DEF IsHead
<1>6. \A g \in Heads(s) : s[g].type # word
  <2> SUFFICES ASSUME NEW g \in Heads(s), s[g].type = word  PROVE FALSE
    OBVIOUS
  <2>1. g \in 1 .. l /\ g <= h  BY <1>1, <1>5 DEF LastHead
  <2>2. g = h \/ g < h  BY <1>3, <2>1
  <2>3. Rank[word] = Rank[c[1].type] \/ Rank[word] < Rank[c[1].type]
    BY <1>1, <1>4, <2>2
  <2>4. c[1].type \in DOMAIN Rank  BY <1>4, <1>5
  <2>5. \A x \in DOMAIN Rank : Rank[x] \in Nat  BY RanksAre
  <2>6. Rank[word] \in Nat /\ Rank[c[1].type] \in Nat  BY <2>4, <2>5
  <2> QED  BY <2>3, <2>6
<1>7. {g \in Heads(s) : s[g].type = word} = {}  BY <1>6
<1> QED  BY <1>7 DEF ListOf

----------------------------------------------------------------------------
(* Lists in clauses of a SELECT *)

\* The clauses that are lists: what they begin with, and what is between what.
Framed(begin, separator, shapes) ==
  \/ begin = <<"SELECT">> /\ separator = "COMMA" /\ shapes = Items
  \/ begin = <<"WHERE">> /\ separator = "AND" /\ shapes = Conditions
  \/ begin = <<"GROUP", "BY">> /\ separator = "COMMA" /\ shapes = {<<"IDENT">>}
  \/ begin = <<"ORDER", "BY">> /\ separator = "COMMA" /\ shapes = Keys

LEMMA FramedIs ==
  ASSUME NEW begin, NEW separator, NEW shapes, Framed(begin, separator, shapes)
  PROVE  /\ Len(begin) \in 1 .. 2 /\ begin[1] \in DOMAIN Rank
         /\ begin[1] # "FROM" /\ separator \notin DOMAIN Rank
<1>1. CASE begin = <<"SELECT">> /\ separator = "COMMA"
  <2>1. Len(begin) = 1 /\ begin[1] = "SELECT"  BY <1>1
  <2> QED  BY <1>1, <2>1, RanksAre
<1>2. CASE begin = <<"WHERE">> /\ separator = "AND"
  <2>1. Len(begin) = 1 /\ begin[1] = "WHERE"  BY <1>2
  <2> QED  BY <1>2, <2>1, RanksAre
<1>3. CASE begin = <<"GROUP", "BY">> /\ separator = "COMMA"
  <2>1. Len(begin) = 2 /\ begin[1] = "GROUP"  BY <1>3
  <2> QED  BY <1>3, <2>1, RanksAre
<1>4. CASE begin = <<"ORDER", "BY">> /\ separator = "COMMA"
  <2>1. Len(begin) = 2 /\ begin[1] = "ORDER"  BY <1>4
  <2> QED  BY <1>4, <2>1, RanksAre
<1> QED  BY <1>1, <1>2, <1>3, <1>4 DEF Framed

LEMMA FramedClause ==
  ASSUME NEW T, NEW c \in Seq(T), NEW begin, NEW separator, NEW shapes,
         Framed(begin, separator, shapes), Begins(c, begin),
         begin[1] = "SELECT" => Len(c) = 1 \/ c[2].type # "STAR"
  PROVE  IsClause(c) <=> IsList(After(c, Len(begin)), separator, shapes)
<1>1. PICK a : a = After(c, 1)  OBVIOUS
<1>2. CASE begin = <<"SELECT">> /\ separator = "COMMA" /\ shapes = Items
  <2>1. Len(begin) = 1 /\ begin[1] = "SELECT"  BY <1>2
  <2>2. Len(c) >= 1 /\ c[1].type = "SELECT"  BY <2>1 DEF Begins
  <2>3. Types(a) # <<"STAR">>
    <3> SUFFICES ASSUME Types(a) = <<"STAR">>  PROVE FALSE
      OBVIOUS
    <3>1. PICK l \in Nat : l = Len(c)  BY LenProperties
    <3>2. l >= 1  BY <2>2, <3>1
    <3>3. a \in Seq(T) /\ Len(a) = l - 1 /\ \A i \in 1 .. l - 1 : a[i] = c[1 + i]
      <4>1. PICK n \in Nat : n = 1  OBVIOUS
      <4>2. a = After(c, n) /\ n <= Len(c)  BY <1>1, <3>1, <3>2, <4>1
      <4>3. a \in Seq(T) /\ Len(a) = Len(c) - n /\ \A i \in 1 .. Len(c) - n : a[i] = c[n + i]
        BY <4>2, AfterIs
      <4> QED  BY <3>1, <4>1, <4>3
    <3>4. Len(a) = Len(<<"STAR">>) /\ \A i \in 1 .. Len(a) : <<"STAR">>[i] = a[i].type
      BY <3>3, TypesAre
    <3>5. Len(a) = 1 /\ 1 \in 1 .. Len(a) /\ <<"STAR">>[1] = "STAR"  BY <3>4
    <3>6. a[1].type = "STAR"  BY <3>4, <3>5
    <3>7. l = 2 /\ a[1] = c[2]
      <4>1. l = 2
        <5>1. l - 1 = 1  BY <3>3, <3>5
        <5>2. \A k \in Nat : k - 1 = 1 => k = 2  OBVIOUS
        <5> QED  BY <5>1, <5>2
      <4>2. 1 \in 1 .. l - 1 /\ 1 + 1 = 2  BY <4>1
      <4>3. a[1] = c[1 + 1]  BY <3>3, <4>2
      <4> QED  BY <4>1, <4>2, <4>3
    <3> QED  BY <2>1, <3>1, <3>6, <3>7
  <2> QED  BY <1>1, <1>2, <2>1, <2>2, <2>3 DEF IsClause
<1>3. CASE begin = <<"WHERE">> /\ separator = "AND" /\ shapes = Conditions
  <2>1. Len(begin) = 1 /\ begin[1] = "WHERE"  BY <1>3
  <2>2. c[1].type = "WHERE"  BY <2>1 DEF Begins
  <2> QED  BY <1>3, <2>1, <2>2 DEF IsClause
<1>4. CASE begin = <<"GROUP", "BY">> /\ separator = "COMMA" /\ shapes = {<<"IDENT">>}
  <2>1. Len(begin) = 2 /\ begin[1] = "GROUP" /\ begin[2] = "BY"  BY <1>4
  <2>2. Len(c) >= 2 /\ c[1].type = "GROUP" /\ c[2].type = "BY"  BY <2>1 DEF Begins
  <2>3. Len(c) > 1  BY <2>2, LenProperties
  <2> QED  BY <1>4, <2>1, <2>2, <2>3 DEF IsClause
<1>5. CASE begin = <<"ORDER", "BY">> /\ separator = "COMMA" /\ shapes = Keys
  <2>1. Len(begin) = 2 /\ begin[1] = "ORDER" /\ begin[2] = "BY"  BY <1>5
  <2>2. Len(c) >= 2 /\ c[1].type = "ORDER" /\ c[2].type = "BY"  BY <2>1 DEF Begins
  <2>3. Len(c) > 1  BY <2>2, LenProperties
  <2> QED  BY <1>5, <2>1, <2>2, <2>3 DEF IsClause
<1> QED  BY <1>2, <1>3, <1>4, <1>5 DEF Framed

\* The last clause of the SELECT begins so, and its list is open.
InList(p, c, begin, separator, shapes, o) ==
  /\ InSelect(p, c) /\ Begins(c, begin)
  /\ IsOpen(After(c, Len(begin)), separator, shapes, o)

LEMMA ListStep ==
  ASSUME NEW T, NEW p \in Seq(T), NEW t \in T, NEW c, NEW begin, NEW separator,
         NEW shapes, NEW o, Framed(begin, separator, shapes),
         InList(p, c, begin, separator, shapes, o), ~IsHead(t), t.type # separator
  PROVE  InList(Append(p, t), Append(c, t), begin, separator, shapes, Append(o, t.type))
<1>1. InSelect(p, c) /\ c \in Seq(T)  BY InSelectIs DEF InList
<1>2. InSelect(Append(p, t), Append(c, t))  BY <1>1, SelectStep
<1>3. PICK n \in Nat : n = Len(begin)
  <2>1. Len(begin) \in 1 .. 2  BY FramedIs
  <2> QED  BY <2>1
<1>4. Begins(Append(c, t), begin)
  <2>1. Begins(c, begin)  BY DEF InList
  <2> QED  BY <1>1, <1>3, <2>1, BeginsAppend
<1>5. n <= Len(c)  BY <1>1, <1>3, LenProperties DEF InList, Begins
<1>6. After(Append(c, t), n) = Append(After(c, n), t)  BY <1>1, <1>5, AfterGrows
<1>7. PICK a : a = After(c, n)  OBVIOUS
<1>8. a \in Seq(T)  BY <1>1, <1>7, AfterIs
<1>9. IsOpen(a, separator, shapes, o)  BY <1>3, <1>7 DEF InList
<1>10. IsOpen(Append(a, t), separator, shapes, Append(o, t.type))  BY <1>8, <1>9, OpenStep
<1> QED  BY <1>2, <1>3, <1>4, <1>6, <1>7, <1>10 DEF InList

LEMMA ListNext ==
  ASSUME NEW T, NEW p \in Seq(T), NEW t \in T, NEW c, NEW begin, NEW separator,
         NEW shapes, NEW o \in shapes, Framed(begin, separator, shapes),
         InList(p, c, begin, separator, shapes, o), t.type = separator
  PROVE  InList(Append(p, t), Append(c, t), begin, separator, shapes, << >>)
<1>1. InSelect(p, c) /\ c \in Seq(T)  BY InSelectIs DEF InList
<1>2. InSelect(Append(p, t), Append(c, t))
  <2>1. ~IsHead(t)  BY FramedIs DEF IsHead
  <2> QED  BY <1>1, <2>1, SelectStep
<1>3. PICK n \in Nat : n = Len(begin)  BY FramedIs
<1>4. Begins(Append(c, t), begin)
  <2>1. Begins(c, begin)  BY DEF InList
  <2> QED  BY <1>1, <1>3, <2>1, BeginsAppend
<1>5. n <= Len(c)  BY <1>1, <1>3, LenProperties DEF InList, Begins
<1>6. After(Append(c, t), n) = Append(After(c, n), t)  BY <1>1, <1>5, AfterGrows
<1>7. PICK a : a = After(c, n)  OBVIOUS
<1>8. a \in Seq(T)  BY <1>1, <1>7, AfterIs
<1>9. IsOpen(a, separator, shapes, o)  BY <1>3, <1>7 DEF InList
<1>10. IsOpen(Append(a, t), separator, shapes, << >>)  BY <1>8, <1>9, OpenNext
<1> QED  BY <1>2, <1>3, <1>4, <1>6, <1>7, <1>10 DEF InList

LEMMA ListStart ==
  ASSUME NEW T, NEW p \in Seq(T), NEW c, NEW begin, NEW separator, NEW shapes,
         InSelect(p, c), Types(c) = begin
  PROVE  InList(p, c, begin, separator, shapes, << >>)
<1>1. c \in Seq(T)  BY InSelectIs
<1>2. Begins(c, begin) /\ Len(c) = Len(begin) /\ Len(begin) \in Nat
  BY <1>1, BeginsTypes
<1>3. PICK n \in Nat : n = Len(c)  BY <1>2
<1>4. n >= Len(c)  BY <1>3
<1>5. After(c, n) = << >>  BY <1>1, <1>4, AfterIs
<1> QED  BY <1>2, <1>3, <1>5, OpenNone DEF InList

LEMMA ListFollow ==
  ASSUME NEW T, NEW p \in Seq(T), NEW e \in Seq(T), e # << >>, NEW c, NEW begin,
         NEW separator, NEW shapes, NEW o, Framed(begin, separator, shapes),
         InList(p, c, begin, separator, shapes, o), IsSelect(p \o e),
         begin[1] = "SELECT" =>
           IF Len(c) = 1 THEN e[1].type # "STAR" ELSE c[2].type # "STAR"
  PROVE  \/ /\ IsHead(e[1]) /\ o \in shapes
            /\ Rank[begin[1]] < Rank[e[1].type]
            /\ begin[1] = "SELECT" => e[1].type = "FROM"
         \/ ~IsHead(e[1]) /\ MayFollow(e[1].type, o, separator, shapes)
<1>1. InSelect(p, c) /\ c \in Seq(T) /\ Begins(c, begin) /\ Len(c) >= 1
  BY InSelectIs DEF InList
<1>2. PICK n \in 1 .. 2 : n = Len(begin)  BY FramedIs
<1>3. n <= Len(c) /\ Len(c) \in Nat  BY <1>1, <1>2, LenProperties DEF Begins
<1>4. c[1].type = begin[1]
  <2>1. 1 \in 1 .. n  BY <1>2
  <2> QED  BY <1>1, <1>2, <2>1 DEF Begins
<1>5. PICK a : a = After(c, n)  OBVIOUS
<1>6. a \in Seq(T) /\ IsOpen(a, separator, shapes, o)
  BY <1>1, <1>2, <1>5, AfterIs DEF InList
<1>7. CASE IsHead(e[1])
  <2>1. /\ IsClause(c) /\ Rank[c[1].type] < Rank[e[1].type]
        /\ c[1].type = "SELECT" => e[1].type = "FROM"
    BY <1>1, <1>7, SelectFollow
  <2>2. IsList(a, separator, shapes)
    <3>1. IsClause(c) <=> IsList(After(c, Len(begin)), separator, shapes)
      BY <1>1, FramedClause
    <3> QED  BY <1>2, <1>5, <2>1, <3>1
  <2>3. o \in shapes  BY <1>6, <2>2, OpenDone
  <2> QED  BY <1>4, <1>7, <2>1, <2>3
<1>8. CASE ~IsHead(e[1])
  <2>1. \E z \in Seq(T) : z # << >> /\ z[1] = e[1] /\ IsClause(c \o z)
    BY <1>1, <1>8, SelectFollow
  <2>2. PICK z \in Seq(T) : z # << >> /\ z[1] = e[1] /\ IsClause(c \o z)
    BY <2>1
  <2>3. PICK d : d = c \o z  OBVIOUS
  <2>4. d \in Seq(T) /\ Begins(d, begin)
    <3>1. d \in Seq(T)  BY <1>1, <2>3, ConcatProperties
    <3> QED  BY <1>1, <1>2, <2>3, <3>1, BeginsOn
  <2>5. begin[1] = "SELECT" => d[2].type # "STAR"
    <3> SUFFICES ASSUME begin[1] = "SELECT"  PROVE d[2].type # "STAR"
      OBVIOUS
    <3>1. CASE Len(c) = 1
      <4>1. d[Len(c) + 1] = z[1]  BY <1>1, <2>2, <2>3, FirstBehind
      <4> QED  BY <2>2, <3>1, <4>1
    <3>2. CASE Len(c) # 1
      <4>2. PICK l \in Nat : l = Len(c)  BY <1>3
      <4>1. 2 \in 1 .. l
        <5>1. l >= 1 /\ l # 1  BY <1>1, <3>2, <4>2
        <5> QED  BY <5>1
      <4>3. PICK m \in Nat : m = Len(z)  BY LenProperties
      <4>4. \A i \in 1 .. l + m : d[i] = IF i <= l THEN c[i] ELSE z[i - l]
        BY <1>1, <2>3, <4>2, <4>3, ConcatProperties
      <4>5. d[2] = c[2]  BY <4>1, <4>2, <4>4
      <4> QED  BY <3>2, <4>5
    <3> QED  BY <3>1, <3>2
  <2>6. IsClause(d) <=> IsList(After(d, Len(begin)), separator, shapes)
    BY <2>4, <2>5, FramedClause
  <2>7. After(d, n) = a \o z
    <3>1. n \in Nat /\ n <= Len(c) /\ c \in Seq(T)  BY <1>1, <1>3
    <3>2. After(c \o z, n) = After(c, n) \o z  BY <3>1, AfterGoes
    <3> QED  BY <1>5, <2>3, <3>2
  <2>8. IsList(a \o z, separator, shapes)  BY <1>2, <2>2, <2>3, <2>6, <2>7
  <2>9. MayFollow(z[1].type, o, separator, shapes)  BY <1>6, <2>2, <2>8, OpenMayFollow
  <2> QED  BY <1>8, <2>2, <2>9
<1> QED  BY <1>7, <1>8

LEMMA ListDone ==
  ASSUME NEW T, NEW p \in Seq(T), NEW c, NEW begin, NEW separator, NEW shapes,
         NEW o \in shapes, Framed(begin, separator, shapes),
         InList(p, c, begin, separator, shapes, o),
         begin[1] = "SELECT" => Len(c) = 1 \/ c[2].type # "STAR"
  PROVE  IsClause(c) /\ c[1].type = begin[1]
<1>1. c \in Seq(T) /\ Begins(c, begin)  BY InSelectIs DEF InList
<1>2. PICK n \in 1 .. 2 : n = Len(begin)  BY FramedIs
<1>3. c[1].type = begin[1]
  <2>1. 1 \in 1 .. n  BY <1>2
  <2> QED  BY <1>1, <1>2, <2>1 DEF Begins
<1>4. PICK a : a = After(c, n)  OBVIOUS
<1>5. a \in Seq(T) /\ IsOpen(a, separator, shapes, o)
  BY <1>1, <1>2, <1>4, AfterIs DEF InList
<1>6. IsList(a, separator, shapes)  BY <1>5, OpenDone
<1>7. IsClause(c) <=> IsList(After(c, Len(begin)), separator, shapes)
  BY <1>1, FramedClause
<1> QED  BY <1>2, <1>3, <1>4, <1>6, <1>7

----------------------------------------------------------------------------
(* The kinds of statements, and where the parser stands in one *)

CreateHead == <<"CREATE", "TABLE", "IDENT", "LPAREN">>

InsertHead == <<"INSERT", "INTO", "IDENT", "VALUES", "LPAREN">>

LEMMA HeadsOfKinds ==
  /\ DOMAIN CreateHead = 1 .. 4 /\ Len(CreateHead) = 4
  /\ CreateHead[1] = "CREATE" /\ CreateHead[2] = "TABLE"
  /\ CreateHead[3] = "IDENT" /\ CreateHead[4] = "LPAREN"
  /\ DOMAIN InsertHead = 1 .. 5 /\ Len(InsertHead) = 5
  /\ InsertHead[1] = "INSERT" /\ InsertHead[2] = "INTO" /\ InsertHead[3] = "IDENT"
  /\ InsertHead[4] = "VALUES" /\ InsertHead[5] = "LPAREN"
  BY DEF CreateHead, InsertHead

LEMMA StmtOf ==
  ASSUME NEW T, NEW s \in Seq(T), IsStmt(s)
  PROVE  \/ s[1].type = "CREATE" /\ Closed(s, CreateHead, Columns)
         \/ s[1].type = "INSERT" /\ Closed(s, InsertHead, Values)
         \/ s[1].type = "SELECT" /\ IsSelect(s)
<1>1. CASE IsCreate(s)
  <2>1. StartsWith(s, CreateHead)  BY <1>1 DEF IsCreate, CreateHead
  <2>2. s[1].type = "CREATE"
    <3>1. 1 \in DOMAIN CreateHead  BY HeadsOfKinds
    <3> QED  BY <2>1, <3>1, HeadsOfKinds DEF StartsWith
  <2>3. Last(s).type = "RPAREN" /\ IsList(Inside(s, 4), "COMMA", Columns)
    BY <1>1 DEF IsCreate
  <2> QED  BY <2>1, <2>2, <2>3, HeadsOfKinds DEF Closed
<1>2. CASE IsInsert(s)
  <2>1. StartsWith(s, InsertHead)  BY <1>2 DEF IsInsert, InsertHead
  <2>2. s[1].type = "INSERT"
    <3>1. 1 \in DOMAIN InsertHead  BY HeadsOfKinds
    <3> QED  BY <2>1, <3>1, HeadsOfKinds DEF StartsWith
  <2>3. Last(s).type = "RPAREN" /\ IsList(Inside(s, 5), "COMMA", Values)
    BY <1>2 DEF IsInsert
  <2> QED  BY <2>1, <2>2, <2>3, HeadsOfKinds DEF Closed
<1>3. CASE IsSelect(s)  BY <1>3 DEF IsSelect
<1> QED  BY <1>1, <1>2, <1>3 DEF IsStmt

LEMMA ClosedIsStmt ==
  ASSUME NEW s
  PROVE  /\ Closed(s, CreateHead, Columns) => IsCreate(s)
         /\ Closed(s, InsertHead, Values) => IsInsert(s)
<1>1. Closed(s, CreateHead, Columns) => IsCreate(s)
  <2> SUFFICES ASSUME Closed(s, CreateHead, Columns)  PROVE IsCreate(s)
    OBVIOUS
  <2>1. IsList(Inside(s, 4), "COMMA", Columns)  BY HeadsOfKinds DEF Closed
  <2>2. StartsWith(s, <<"CREATE", "TABLE", "IDENT", "LPAREN">>)
    BY DEF Closed, CreateHead
  <2> QED  BY <2>1, <2>2 DEF Closed, IsCreate
<1>2. Closed(s, InsertHead, Values) => IsInsert(s)
  <2> SUFFICES ASSUME Closed(s, InsertHead, Values)  PROVE IsInsert(s)
    OBVIOUS
  <2>1. IsList(Inside(s, 5), "COMMA", Values)  BY HeadsOfKinds DEF Closed
  <2>2. StartsWith(s, <<"INSERT", "INTO", "IDENT", "VALUES", "LPAREN">>)
    BY DEF Closed, InsertHead
  <2> QED  BY <2>1, <2>2 DEF Closed, IsInsert
<1> QED  BY <1>1, <1>2

----------------------------------------------------------------------------
(* What follows in each of the shapes *)

LEMMA ColumnFollow ==
  ASSUME NEW x, NEW o, MayFollow(x, o, "COMMA", Columns)
  PROVE  /\ o = << >> => x = "IDENT"
         /\ o = <<"IDENT">> => x \in TypeNames
         /\ o \in Columns => x = "COMMA"
         /\ \A t : o # <<"IDENT", t, "RPAREN">>
<1>1. \A q \in Columns : Len(q) = 2 /\ q[1] = "IDENT" /\ q[2] \in TypeNames
  BY DEF Columns
<1>2. /\ << >> \notin Columns /\ <<"IDENT">> \notin Columns
      /\ \A t : <<"IDENT", t, "RPAREN">> \notin Columns
  BY DEF Columns
<1>3. ASSUME o = << >>  PROVE x = "IDENT"
  BY <1>1, <1>2, <1>3, ProlongsNone DEF MayFollow
<1>4. ASSUME o = <<"IDENT">>  PROVE x \in TypeNames
  <2>1. PICK q \in Columns : Prolongs(q, <<"IDENT">>, x)
    BY <1>2, <1>4 DEF MayFollow
  <2>2. q[2] = x  BY <2>1, Prolongs1
  <2> QED  BY <1>1, <2>2
<1>5. ASSUME o \in Columns, x # "COMMA"  PROVE FALSE
  <2>1. PICK q \in Columns : Prolongs(q, o, x)  BY <1>5 DEF MayFollow
  <2>2. Len(q) > Len(o)  BY <2>1 DEF Prolongs
  <2> QED  BY <1>1, <1>5, <2>2
<1>6. ASSUME NEW t, o = <<"IDENT", t, "RPAREN">>  PROVE FALSE
  <2>1. PICK q \in Columns : Prolongs(q, <<"IDENT", t, "RPAREN">>, x)
    BY <1>2, <1>6 DEF MayFollow
  <2>2. Len(q) > 3  BY <2>1, Prolongs3
  <2>3. Len(q) = 2  BY <1>1
  <2> QED  BY <2>2, <2>3
<1> QED  BY <1>3, <1>4, <1>5, <1>6

LEMMA ValueFollow ==
  ASSUME NEW x, NEW o, MayFollow(x, o, "COMMA", Values)
  PROVE  /\ o = << >> => x \in Literals
         /\ o \in Values => x = "COMMA"
         /\ \A l : o # <<l, "RPAREN">>
<1>1. \A q \in Values : Len(q) = 1 /\ q[1] \in Literals
  BY DEF Values
<1>2. << >> \notin Values /\ \A l : <<l, "RPAREN">> \notin Values
  BY DEF Values
<1>3. ASSUME o = << >>  PROVE x \in Literals
  <2>1. PICK q \in Values : Prolongs(q, << >>, x)
    BY <1>2, <1>3 DEF MayFollow
  <2>2. q[1] = x  BY <2>1, ProlongsNone
  <2> QED  BY <1>1, <2>2
<1>4. ASSUME o \in Values, x # "COMMA"  PROVE FALSE
  <2>1. PICK q \in Values : Prolongs(q, o, x)  BY <1>4 DEF MayFollow
  <2>2. Len(q) > Len(o)  BY <2>1 DEF Prolongs
  <2> QED  BY <1>1, <1>4, <2>2
<1>5. ASSUME NEW l, o = <<l, "RPAREN">>  PROVE FALSE
  <2>1. PICK q \in Values : Prolongs(q, <<l, "RPAREN">>, x)
    BY <1>2, <1>5 DEF MayFollow
  <2>2. Len(q) > 2  BY <2>1, Prolongs2
  <2>3. Len(q) = 1  BY <1>1
  <2> QED  BY <2>2, <2>3
<1> QED  BY <1>3, <1>4, <1>5

LEMMA ConditionFollow ==
  ASSUME NEW x, NEW o, MayFollow(x, o, "AND", Conditions)
  PROVE  /\ o = << >> => x \in Operands
         /\ \A a : o = <<a>> => x \in Comparisons
         /\ \A a, b : o = <<a, b>> => x \in Operands
         /\ o \in Conditions => x = "AND"
<1>1. \A q \in Conditions :
        Len(q) = 3 /\ q[1] \in Operands /\ q[2] \in Comparisons /\ q[3] \in Operands
  BY DEF Conditions
<1>2. /\ << >> \notin Conditions
      /\ \A a : <<a>> \notin Conditions
      /\ \A a, b : <<a, b>> \notin Conditions
  BY DEF Conditions
<1>3. ASSUME o = << >>  PROVE x \in Operands
  <2>1. PICK q \in Conditions : Prolongs(q, << >>, x)
    BY <1>2, <1>3 DEF MayFollow
  <2>2. q[1] = x  BY <2>1, ProlongsNone
  <2> QED  BY <1>1, <2>2
<1>4. ASSUME NEW a, o = <<a>>  PROVE x \in Comparisons
  <2>1. PICK q \in Conditions : Prolongs(q, <<a>>, x)
    BY <1>2, <1>4 DEF MayFollow
  <2>2. q[2] = x  BY <2>1, Prolongs1
  <2> QED  BY <1>1, <2>2
<1>5. ASSUME NEW a, NEW b, o = <<a, b>>  PROVE x \in Operands
  <2>1. PICK q \in Conditions : Prolongs(q, <<a, b>>, x)
    BY <1>2, <1>5 DEF MayFollow
  <2>2. q[3] = x  BY <2>1, Prolongs2
  <2> QED  BY <1>1, <2>2
<1>6. ASSUME o \in Conditions, x # "AND"  PROVE FALSE
  <2>1. PICK q \in Conditions : Prolongs(q, o, x)  BY <1>6 DEF MayFollow
  <2>2. Len(q) > Len(o)  BY <2>1 DEF Prolongs
  <2> QED  BY <1>1, <1>6, <2>2
<1> QED  BY <1>3, <1>4, <1>5, <1>6

LEMMA KeyFollow ==
  ASSUME NEW x, NEW o, MayFollow(x, o, "COMMA", Keys)
  PROVE  /\ o = << >> => x = "IDENT"
         /\ o = <<"IDENT">> => x \in {"DESC", "ASC", "COMMA"}
         /\ \A b : o = <<"IDENT", b>> => x = "COMMA"
<1>1. \A q \in Keys : \/ Len(q) = 1 /\ q[1] = "IDENT"
                      \/ Len(q) = 2 /\ q[1] = "IDENT" /\ q[2] \in {"DESC", "ASC"}
  BY DEF Keys
<1>2. << >> \notin Keys  BY DEF Keys
<1>3. ASSUME o = << >>  PROVE x = "IDENT"
  <2>1. PICK q \in Keys : Prolongs(q, << >>, x)
    BY <1>2, <1>3 DEF MayFollow
  <2>2. q[1] = x  BY <2>1, ProlongsNone
  <2> QED  BY <1>1, <2>2
<1>4. ASSUME o = <<"IDENT">>, x # "COMMA"  PROVE x \in {"DESC", "ASC"}
  <2>1. PICK q \in Keys : Prolongs(q, <<"IDENT">>, x)
    BY <1>4 DEF MayFollow
  <2>2. q[2] = x /\ Len(q) > 1  BY <2>1, Prolongs1
  <2> QED  BY <1>1, <2>2
<1>5. ASSUME NEW b, o = <<"IDENT", b>>, x # "COMMA"  PROVE FALSE
  <2>1. PICK q \in Keys : Prolongs(q, <<"IDENT", b>>, x)
    BY <1>5 DEF MayFollow
  <2>2. PICK n : n = Len(q)  OBVIOUS
  <2>3. n > 2  BY <2>1, <2>2, Prolongs2
  <2>4. n = 1 \/ n = 2  BY <1>1, <2>2
  <2> QED  BY <2>3, <2>4
<1> QED  BY <1>3, <1>4, <1>5

LEMMA ItemsAre ==
  \A q \in Items :
    \/ Len(q) = 1 /\ q[1] = "IDENT"
    \/ Len(q) = 3 /\ q[1] = "IDENT" /\ q[2] = "AS" /\ q[3] = "IDENT"
    \/ /\ Len(q) \in {4, 6} /\ q[1] \in Aggregates
       /\ q[2] = "LPAREN" /\ q[3] = "IDENT" /\ q[4] = "RPAREN"
       /\ Len(q) = 6 => q[5] = "AS" /\ q[6] = "IDENT"
<1>1. \A q \in Plain : \/ Len(q) = 1 /\ q[1] = "IDENT"
                       \/ /\ Len(q) = 4 /\ q[1] \in Aggregates
                          /\ q[2] = "LPAREN" /\ q[3] = "IDENT" /\ q[4] = "RPAREN"
  BY DEF Plain
<1>2. \A q \in Aliased :
        \/ Len(q) = 3 /\ q[1] = "IDENT" /\ q[2] = "AS" /\ q[3] = "IDENT"
        \/ /\ Len(q) = 6 /\ q[1] \in Aggregates
           /\ q[2] = "LPAREN" /\ q[3] = "IDENT" /\ q[4] = "RPAREN"
           /\ q[5] = "AS" /\ q[6] = "IDENT"
  BY DEF Aliased
<1> QED  BY <1>1, <1>2 DEF Items

LEMMA ItemFollow ==
  ASSUME NEW x, NEW o, MayFollow(x, o, "COMMA", Items)
  PROVE  /\ o = << >> => x \in {"IDENT"} \cup Aggregates
         /\ \A a \in Aggregates : /\ o = <<a>> => x = "LPAREN"
                                  /\ o = <<a, "LPAREN">> => x = "IDENT"
                                  /\ o = <<a, "LPAREN", "IDENT">> => x = "RPAREN"
         /\ o \in Plain => x \in {"AS", "COMMA"}
         /\ \A q \in Plain : o = Append(q, "AS") => x = "IDENT"
         /\ o \in Aliased => x = "COMMA"
<1>0. "IDENT" \notin Aggregates  BY DEF Aggregates
<1>1. /\ << >> \notin Items
      /\ \A a \in Aggregates : <<a>> \notin Items
      /\ \A a, b : <<a, b>> \notin Items
      /\ \A a \in Aggregates : \A b, d : <<a, b, d>> \notin Items
  BY <1>0, ItemsAre
<1>2. ASSUME o = << >>  PROVE x \in {"IDENT"} \cup Aggregates
  <2>1. PICK q \in Items : Prolongs(q, << >>, x)
    BY <1>1, <1>2 DEF MayFollow
  <2>2. q[1] = x  BY <2>1, ProlongsNone
  <2> QED  BY <2>2, ItemsAre
<1>3. ASSUME NEW a \in Aggregates, o = <<a>>  PROVE x = "LPAREN"
  <2>1. PICK q \in Items : Prolongs(q, <<a>>, x)
    BY <1>1, <1>3 DEF MayFollow
  <2>2. q[1] = a /\ q[2] = x  BY <2>1, Prolongs1
  <2> QED  BY <1>0, <2>2, ItemsAre
<1>4. ASSUME NEW a \in Aggregates, o = <<a, "LPAREN">>  PROVE x = "IDENT"
  <2>1. PICK q \in Items : Prolongs(q, <<a, "LPAREN">>, x)
    BY <1>1, <1>4 DEF MayFollow
  <2>2. q[1] = a /\ q[3] = x  BY <2>1, Prolongs2
  <2> QED  BY <1>0, <2>2, ItemsAre
<1>5. ASSUME NEW a \in Aggregates, o = <<a, "LPAREN", "IDENT">>  PROVE x = "RPAREN"
  <2>1. PICK q \in Items : Prolongs(q, <<a, "LPAREN", "IDENT">>, x)
    BY <1>1, <1>5 DEF MayFollow
  <2>2. q[1] = a /\ q[4] = x  BY <2>1, Prolongs3
  <2> QED  BY <1>0, <2>2, ItemsAre
<1>6. ASSUME o \in Plain, x # "COMMA"  PROVE x = "AS"
  <2>1. PICK q \in Items : Prolongs(q, o, x)  BY <1>6 DEF MayFollow
  <2>2. CASE o = <<"IDENT">>
    <3>1. Len(q) > 1 /\ q[1] = "IDENT" /\ q[2] = x  BY <2>1, <2>2, Prolongs1
    <3> QED  BY <1>0, <3>1, ItemsAre
  <2>3. CASE \E a \in Aggregates : o = <<a, "LPAREN", "IDENT", "RPAREN">>
    <3>1. PICK a \in Aggregates : o = <<a, "LPAREN", "IDENT", "RPAREN">>  BY <2>3
    <3>2. Prolongs(q, <<a, "LPAREN", "IDENT", "RPAREN">>, x)  BY <2>1, <3>1
    <3>3. Len(q) > 4 /\ q[1] = a /\ q[5] = x  BY <3>2, Prolongs4
    <3> QED  BY <1>0, <3>3, ItemsAre
  <2> QED  BY <1>6, <2>2, <2>3 DEF Plain
<1>7. ASSUME NEW p \in Plain, o = Append(p, "AS")  PROVE x = "IDENT"
  <2>1. CASE p = <<"IDENT">>
    <3>1. o = <<"IDENT", "AS">>  BY <1>7, <2>1, Append2
    <3>2. PICK q \in Items : Prolongs(q, <<"IDENT", "AS">>, x)
      BY <1>1, <3>1 DEF MayFollow
    <3>3. q[1] = "IDENT" /\ q[3] = x /\ Len(q) > 2  BY <3>2, Prolongs2
    <3> QED  BY <1>0, <3>3, ItemsAre
  <2>2. CASE \E a \in Aggregates : p = <<a, "LPAREN", "IDENT", "RPAREN">>
    <3>1. PICK a \in Aggregates : p = <<a, "LPAREN", "IDENT", "RPAREN">>  BY <2>2
    <3>2. o = <<a, "LPAREN", "IDENT", "RPAREN", "AS">>  BY <1>7, <3>1, Append5
    <3>3. o \notin Items
      <4>1. Len(o) = 5  BY <3>2
      <4> QED  BY <4>1, ItemsAre
    <3>4. PICK q \in Items : Prolongs(q, <<a, "LPAREN", "IDENT", "RPAREN", "AS">>, x)
      BY <3>2, <3>3 DEF MayFollow
    <3>5. q[1] = a /\ q[6] = x /\ Len(q) > 5  BY <3>4, Prolongs5
    <3> QED  BY <1>0, <3>5, ItemsAre
  <2> QED  BY <2>1, <2>2 DEF Plain
<1>8. ASSUME o \in Aliased, x # "COMMA"  PROVE FALSE
  <2>1. PICK q \in Items : Prolongs(q, o, x)  BY <1>8 DEF MayFollow
  <2>2. CASE o = <<"IDENT", "AS", "IDENT">>
    <3>1. Prolongs(q, <<"IDENT", "AS", "IDENT">>, x)  BY <2>1, <2>2
    <3>2. Len(q) > 3 /\ q[1] = "IDENT"  BY <3>1, Prolongs3
    <3>3. PICK l \in 1 .. 3 : l = Len(q)  BY <1>0, <3>2, ItemsAre
    <3> QED  BY <3>2, <3>3
  <2>3. CASE \E a \in Aggregates : o = <<a, "LPAREN", "IDENT", "RPAREN", "AS", "IDENT">>
    <3>1. PICK a \in Aggregates : o = <<a, "LPAREN", "IDENT", "RPAREN", "AS", "IDENT">>
      BY <2>3
    <3>2. Prolongs(q, <<a, "LPAREN", "IDENT", "RPAREN", "AS", "IDENT">>, x)  BY <2>1, <3>1
    <3>3. PICK l \in 1 .. 6 : l = Len(q)  BY ItemsAre
    <3>4. Len(q) > 6  BY <3>2, Prolongs6
    <3>5. l > 6  BY <3>3, <3>4
    <3> QED  BY <3>5
  <2> QED  BY <1>8, <2>2, <2>3 DEF Aliased
<1> QED  BY <1>2, <1>3, <1>4, <1>5, <1>6, <1>7, <1>8

----------------------------------------------------------------------------
(* The tables of the methods *)

\* What is asked for at a label, and where the parser goes on.
Asks(l, types, next, otherwise) ==
  /\ l \in P!Labels /\ P!Rule(l).types = types
  /\ P!Rule(l).next = next /\ P!Rule(l).otherwise = otherwise

LEMMA LabelsOf ==
  /\ DOMAIN P!parse = {"parse", "insert", "select"}
  /\ DOMAIN P!parse_create = {"table", "create_name", "create_open", "col_name",
       "col_type", "col_more", "create_close"}
  /\ DOMAIN P!parse_insert = {"into", "insert_name", "values", "insert_open", "value",
       "value_more", "insert_close"}
  /\ DOMAIN P!parse_select = {"star", "from", "from_name", "where", "where_more",
       "group", "group_by", "group_col", "group_more", "order", "order_by",
       "order_col", "order_desc", "order_asc", "order_more"}
  /\ DOMAIN P!parse_select_item = {"item", "agg_open", "agg_col", "agg_close",
       "item_col", "as", "alias", "item_more"}
  /\ DOMAIN P!parse_condition = {"left", "op", "right"}
  BY DEF P!parse, P!parse_create, P!parse_insert, P!parse_select,
         P!parse_select_item, P!parse_condition

\* No label is in two methods.
LEMMA RuleIs ==
  ASSUME NEW m \in P!Methods, NEW l \in DOMAIN m
  PROVE  l \in P!Labels /\ P!Rule(l) = m[l]
<1>1. \A k \in P!Methods : l \in DOMAIN k => k = m
  <2> SUFFICES ASSUME NEW k \in P!Methods, l \in DOMAIN k  PROVE k = m
    OBVIOUS
  <2>1. CASE m = P!parse  BY <2>1, LabelsOf DEF P!Methods
  <2>2. CASE m = P!parse_create  BY <2>2, LabelsOf DEF P!Methods
  <2>3. CASE m = P!parse_insert  BY <2>3, LabelsOf DEF P!Methods
  <2>4. CASE m = P!parse_select  BY <2>4, LabelsOf DEF P!Methods
  <2>5. CASE m = P!parse_select_item  BY <2>5, LabelsOf DEF P!Methods
  <2>6. CASE m = P!parse_condition  BY <2>6, LabelsOf DEF P!Methods
  <2> QED  BY <2>1, <2>2, <2>3, <2>4, <2>5, <2>6 DEF P!Methods
<1>2. (CHOOSE k \in P!Methods : l \in DOMAIN k) = m  BY <1>1
<1>3. P!Rule(l) = m[l]  BY <1>2 DEF P!Rule
<1>4. l \in P!Labels  BY DEF P!Labels
<1> QED  BY <1>3, <1>4

LEMMA ParseRules ==
  /\ Asks("parse", {"CREATE"}, "table", "insert")
  /\ Asks("insert", {"INSERT"}, "into", "select")
  /\ Asks("select", {"SELECT"}, "star", "error")
<1>1. P!parse \in P!Methods  BY DEF P!Methods
<1>2. \A l \in {"parse", "insert", "select"} : l \in P!Labels /\ P!Rule(l) = P!parse[l]
  BY <1>1, RuleIs, LabelsOf
<1> QED  BY <1>2 DEF Asks, P!parse, P!Expect, P!Match

LEMMA CreateRules ==
  /\ Asks("table", {"TABLE"}, "create_name", "error")
  /\ Asks("create_name", {"IDENT"}, "create_open", "error")
  /\ Asks("create_open", {"LPAREN"}, "col_name", "error")
  /\ Asks("col_name", {"IDENT"}, "col_type", "error")
  /\ Asks("col_type", TypeNames, "col_more", "error")
  /\ Asks("col_more", {"COMMA"}, "col_name", "create_close")
  /\ Asks("create_close", {"RPAREN"}, "done", "error")
<1>1. P!parse_create \in P!Methods  BY DEF P!Methods
<1>2. \A l \in {"table", "create_name", "create_open", "col_name", "col_type",
                "col_more", "create_close"} :
        l \in P!Labels /\ P!Rule(l) = P!parse_create[l]
  BY <1>1, RuleIs, LabelsOf
<1>3. P!TypeNames = TypeNames  BY DEF P!TypeNames, TypeNames
<1> QED  BY <1>2, <1>3 DEF Asks, P!parse_create, P!Expect, P!Match, P!Consume

LEMMA InsertRules ==
  /\ Asks("into", {"INTO"}, "insert_name", "error")
  /\ Asks("insert_name", {"IDENT"}, "values", "error")
  /\ Asks("values", {"VALUES"}, "insert_open", "error")
  /\ Asks("insert_open", {"LPAREN"}, "value", "error")
  /\ Asks("value", Literals, "value_more", "error")
  /\ Asks("value_more", {"COMMA"}, "value", "insert_close")
  /\ Asks("insert_close", {"RPAREN"}, "done", "error")
<1>1. P!parse_insert \in P!Methods  BY DEF P!Methods
<1>2. \A l \in {"into", "insert_name", "values", "insert_open", "value",
                "value_more", "insert_close"} :
        l \in P!Labels /\ P!Rule(l) = P!parse_insert[l]
  BY <1>1, RuleIs, LabelsOf
<1>3. P!Literals = Literals  BY DEF P!Literals, Literals
<1> QED  BY <1>2, <1>3 DEF Asks, P!parse_insert, P!Expect, P!Match, P!Consume

LEMMA SelectRules ==
  /\ Asks("star", {"STAR"}, "from", "item")
  /\ Asks("from", {"FROM"}, "from_name", "error")
  /\ Asks("from_name", {"IDENT"}, "where", "error")
  /\ Asks("where", {"WHERE"}, "left", "group")
  /\ Asks("where_more", {"AND"}, "left", "group")
  /\ Asks("group", {"GROUP"}, "group_by", "order")
  /\ Asks("group_by", {"BY"}, "group_col", "error")
  /\ Asks("group_col", {"IDENT"}, "group_more", "error")
  /\ Asks("group_more", {"COMMA"}, "group_col", "order")
  /\ Asks("order", {"ORDER"}, "order_by", "done")
  /\ Asks("order_by", {"BY"}, "order_col", "error")
  /\ Asks("order_col", {"IDENT"}, "order_desc", "error")
  /\ Asks("order_desc", {"DESC"}, "order_more", "order_asc")
  /\ Asks("order_asc", {"ASC"}, "order_more", "order_more")
  /\ Asks("order_more", {"COMMA"}, "order_col", "done")
<1>1. P!parse_select \in P!Methods  BY DEF P!Methods
<1>2. \A l \in {"star", "from", "from_name", "where", "where_more", "group",
                "group_by", "group_col", "group_more", "order", "order_by",
                "order_col", "order_desc", "order_asc", "order_more"} :
        l \in P!Labels /\ P!Rule(l) = P!parse_select[l]
  BY <1>1, RuleIs, LabelsOf
<1> QED  BY <1>2 DEF Asks, P!parse_select, P!Expect, P!Match

LEMMA ItemRules ==
  /\ Asks("item", Aggregates, "agg_open", "item_col")
  /\ Asks("agg_open", {"LPAREN"}, "agg_col", "error")
  /\ Asks("agg_col", {"IDENT"}, "agg_close", "error")
  /\ Asks("agg_close", {"RPAREN"}, "as", "error")
  /\ Asks("item_col", {"IDENT"}, "as", "error")
  /\ Asks("as", {"AS"}, "alias", "item_more")
  /\ Asks("alias", {"IDENT"}, "item_more", "error")
  /\ Asks("item_more", {"COMMA"}, "item", "from")
<1>1. P!parse_select_item \in P!Methods  BY DEF P!Methods
<1>2. \A l \in {"item", "agg_open", "agg_col", "agg_close", "item_col", "as",
                "alias", "item_more"} :
        l \in P!Labels /\ P!Rule(l) = P!parse_select_item[l]
  BY <1>1, RuleIs, LabelsOf
<1>3. P!is_agg = Aggregates  BY DEF P!is_agg, Aggregates
<1> QED  BY <1>2, <1>3 DEF Asks, P!parse_select_item, P!Expect, P!Match

LEMMA ConditionRules ==
  /\ Asks("left", Operands, "op", "error")
  /\ Asks("op", Comparisons, "right", "error")
  /\ Asks("right", Operands, "where_more", "error")
<1>1. P!parse_condition \in P!Methods  BY DEF P!Methods
<1>2. \A l \in {"left", "op", "right"} :
        l \in P!Labels /\ P!Rule(l) = P!parse_condition[l]
  BY <1>1, RuleIs, LabelsOf
<1>3. P!Operands = Operands /\ P!Operators = Comparisons
  BY DEF P!Operands, Operands, P!Literals, Literals, P!Operators, Comparisons
<1> QED  BY <1>2, <1>3 DEF Asks, P!parse_condition, P!Expect, P!Consume

----------------------------------------------------------------------------
(* What has been read at a label *)

Prefix(l, types) ==
  \/ l \in {"parse", "insert", "select"} /\ types = << >>
  \/ l = "table" /\ types = <<"CREATE">>
  \/ l = "create_name" /\ types = <<"CREATE", "TABLE">>
  \/ l = "create_open" /\ types = <<"CREATE", "TABLE", "IDENT">>
  \/ l = "into" /\ types = <<"INSERT">>
  \/ l = "insert_name" /\ types = <<"INSERT", "INTO">>
  \/ l = "values" /\ types = <<"INSERT", "INTO", "IDENT">>
  \/ l = "insert_open" /\ types = <<"INSERT", "INTO", "IDENT", "VALUES">>

\* the last clause of a SELECT that is no list of more than a token
Word(l, types) ==
  \/ l = "star" /\ types = <<"SELECT">>
  \/ l = "from" /\ types = <<"SELECT", "STAR">>
  \/ l = "from_name" /\ types = <<"FROM">>
  \/ l \in {"where", "group", "order"} /\ types = <<"FROM", "IDENT">>
  \/ l = "group_by" /\ types = <<"GROUP">>
  \/ l = "order_by" /\ types = <<"ORDER">>

\* the last piece of a list
ColumnOpen(l, o) ==
  \/ l = "col_name" /\ o = << >>
  \/ l = "col_type" /\ o = <<"IDENT">>
  \/ l \in {"col_more", "create_close"} /\ o \in Columns

ValueOpen(l, o) ==
  \/ l = "value" /\ o = << >>
  \/ l \in {"value_more", "insert_close"} /\ o \in Values

ItemOpen(l, o) ==
  \/ l \in {"item", "item_col"} /\ o = << >>
  \/ \E a \in Aggregates : \/ l = "agg_open" /\ o = <<a>>
                           \/ l = "agg_col" /\ o = <<a, "LPAREN">>
                           \/ l = "agg_close" /\ o = <<a, "LPAREN", "IDENT">>
  \/ l = "as" /\ o \in Plain
  \/ l = "alias" /\ \E q \in Plain : o = Append(q, "AS")
  \/ l \in {"item_more", "from"} /\ o \in Items

ConditionOpen(l, o) ==
  \/ l = "left" /\ o = << >>
  \/ \E a \in Operands : \/ l = "op" /\ o = <<a>>
                         \/ l = "right" /\ \E b \in Comparisons : o = <<a, b>>
  \/ l \in {"where_more", "group", "order"} /\ o \in Conditions

NameOpen(l, o) ==
  \/ l = "group_col" /\ o = << >>
  \/ l \in {"group_more", "order"} /\ o = <<"IDENT">>

KeyOpen(l, o) ==
  \/ l = "order_col" /\ o = << >>
  \/ l \in {"order_desc", "order_asc"} /\ o = <<"IDENT">>
  \/ l = "order_more" /\ o \in Keys

Starred(p) == Len(p) > 1 /\ p[2].type = "STAR"

Creating(p, o) == InBrackets(p, CreateHead, Columns, o)

Inserting(p, o) == InBrackets(p, InsertHead, Values, o)

Choosing(p, o) ==
  ~Starred(p) /\ \E c : InList(p, c, <<"SELECT">>, "COMMA", Items, o)

Listing(p, begin, separator, shapes, o) ==
  \E c : InList(p, c, begin, separator, shapes, o)

Filtering(p, o) == Listing(p, <<"WHERE">>, "AND", Conditions, o)

Grouping(p, o) == Listing(p, <<"GROUP", "BY">>, "COMMA", {<<"IDENT">>}, o)

Ordering(p, o) == Listing(p, <<"ORDER", "BY">>, "COMMA", Keys, o)

\* What has been read where the parser stands at a label.
State(l, p) ==
  \/ Prefix(l, Types(p))
  \/ \E c : InSelect(p, c) /\ Word(l, Types(c))
  \/ \E o : ColumnOpen(l, o) /\ Creating(p, o)
  \/ \E o : ValueOpen(l, o) /\ Inserting(p, o)
  \/ \E o : ItemOpen(l, o) /\ Choosing(p, o)
  \/ \E o : ConditionOpen(l, o) /\ Filtering(p, o)
  \/ \E o : NameOpen(l, o) /\ Grouping(p, o)
  \/ \E o : KeyOpen(l, o) /\ Ordering(p, o)
  \/ l = "done" /\ IsStmt(p)

\* What has been read where it has just come to a label with a token.
Fresh(l, p) ==
  \/ /\ l \notin {"item", "item_more", "from", "order_more", "done"} /\ State(l, p)
  \/ /\ l = "item" /\ Len(p) > 1 /\ Choosing(p, << >>)
  \/ /\ l = "item_more" /\ \E o \in Aliased : Choosing(p, o)
  \/ /\ l = "from" /\ \E c : InSelect(p, c) /\ Types(c) = <<"SELECT", "STAR">>
  \/ /\ l = "order_more"
     /\ \E b : <<"IDENT", b>> \in Keys /\ Ordering(p, <<"IDENT", b>>)
  \/ /\ l = "done" /\ IsStmt(p)
     /\ \E t : \/ Creating(p, <<"IDENT", t, "RPAREN">>)
               \/ Inserting(p, <<t, "RPAREN">>)

\* The tokens with which a statement can go on there: those asked for, and
\* those asked for where the parser goes on without taking one.
Accepts(l, x) ==
  \/ l \in P!Labels /\ x \in P!Rule(l).types
  \/ l = "parse" /\ x \in {"INSERT", "SELECT"}
  \/ l = "insert" /\ x = "SELECT"
  \/ l \in {"col_more", "value_more"} /\ x = "RPAREN"
  \/ l = "star" /\ x \in {"IDENT"} \cup Aggregates
  \/ l = "item" /\ x = "IDENT"
  \/ l = "as" /\ x \in {"COMMA", "FROM"}
  \/ l = "item_more" /\ x = "FROM"
  \/ l \in {"where", "where_more"} /\ x \in {"GROUP", "ORDER"}
  \/ l \in {"group", "group_more"} /\ x = "ORDER"
  \/ l = "order_desc" /\ x \in {"ASC", "COMMA"}
  \/ l = "order_asc" /\ x = "COMMA"

----------------------------------------------------------------------------
(* A token that is asked for brings the parser from a label to the next *)

Fits(l, t) == l \in P!Labels /\ t.type \in P!Rule(l).types

LEMMA PrefixRead ==
  ASSUME NEW T, NEW p \in Seq(T), NEW t \in T, NEW l,
         Prefix(l, Types(p)), Fits(l, t)
  PROVE  Fresh(P!Rule(l).next, Append(p, t))
<1> DEFINE w == Append(p, t)
<1>1. Types(w) = Append(Types(p), t.type) /\ w \in Seq(T)
  BY TypesGrow, AppendProperties
<1> HIDE DEF w
<1> USE DEF Fits, Asks
<1>2. \A n : Prefix(n, Types(w)) => Fresh(n, w)
  BY DEF Fresh, State, Prefix
<1>3. CASE l = "parse"
  <2>1. t.type = "CREATE" /\ P!Rule(l).next = "table"  BY <1>3, ParseRules
  <2>2. Types(w) = <<"CREATE">>  BY <1>1, <1>3, <2>1 DEF Prefix
  <2>3. Prefix("table", Types(w))  BY <2>2 DEF Prefix
  <2> QED  BY <1>2, <2>1, <2>3 DEF w
<1>4. CASE l = "insert"
  <2>1. t.type = "INSERT" /\ P!Rule(l).next = "into"  BY <1>4, ParseRules
  <2>2. Types(w) = <<"INSERT">>  BY <1>1, <1>4, <2>1 DEF Prefix
  <2>3. Prefix("into", Types(w))  BY <2>2 DEF Prefix
  <2> QED  BY <1>2, <2>1, <2>3 DEF w
<1>5. CASE l = "select"
  <2>1. t.type = "SELECT" /\ P!Rule(l).next = "star"  BY <1>5, ParseRules
  <2>2. Types(w) = <<"SELECT">>  BY <1>1, <1>5, <2>1 DEF Prefix
  <2>3. w = <<t>>
    <3>1. Types(p) = << >>  BY <1>5 DEF Prefix
    <3>2. Len(p) = 0  BY <3>1, TypesAre
    <3>3. p = << >>  BY <3>2, EmptySeq
    <3> QED  BY <3>3 DEF w
  <2>4. InSelect(w, w)  BY <2>1, <2>3, SelectFirst
  <2>5. Word("star", Types(w))  BY <2>2 DEF Word
  <2>6. State("star", w)  BY <2>4, <2>5 DEF State
  <2> QED  BY <2>1, <2>6 DEF Fresh, w
<1>6. CASE l = "table"
  <2>1. t.type = "TABLE" /\ P!Rule(l).next = "create_name"  BY <1>6, CreateRules
  <2>2. Types(w) = Append(<<"CREATE">>, "TABLE")  BY <1>1, <1>6, <2>1 DEF Prefix
  <2>3. Prefix("create_name", Types(w))  BY <2>2, Append2 DEF Prefix
  <2> QED  BY <1>2, <2>1, <2>3 DEF w
<1>7. CASE l = "create_name"
  <2>1. t.type = "IDENT" /\ P!Rule(l).next = "create_open"  BY <1>7, CreateRules
  <2>2. Types(w) = Append(<<"CREATE", "TABLE">>, "IDENT")
    BY <1>1, <1>7, <2>1 DEF Prefix
  <2>3. Prefix("create_open", Types(w))  BY <2>2, Append3 DEF Prefix
  <2> QED  BY <1>2, <2>1, <2>3 DEF w
<1>8. CASE l = "create_open"
  <2>1. t.type = "LPAREN" /\ P!Rule(l).next = "col_name"  BY <1>8, CreateRules
  <2>2. Types(w) = Append(<<"CREATE", "TABLE", "IDENT">>, "LPAREN")
    BY <1>1, <1>8, <2>1 DEF Prefix
  <2>3. Types(w) = CreateHead  BY <2>2, Append4 DEF CreateHead
  <2>4. Creating(w, << >>)  BY <1>1, <2>3, BracketsStart DEF Creating
  <2>5. State("col_name", w)  BY <2>4 DEF State, ColumnOpen
  <2> QED  BY <2>1, <2>5 DEF Fresh, w
<1>9. CASE l = "into"
  <2>1. t.type = "INTO" /\ P!Rule(l).next = "insert_name"  BY <1>9, InsertRules
  <2>2. Types(w) = Append(<<"INSERT">>, "INTO")  BY <1>1, <1>9, <2>1 DEF Prefix
  <2>3. Prefix("insert_name", Types(w))  BY <2>2, Append2 DEF Prefix
  <2> QED  BY <1>2, <2>1, <2>3 DEF w
<1>10. CASE l = "insert_name"
  <2>1. t.type = "IDENT" /\ P!Rule(l).next = "values"  BY <1>10, InsertRules
  <2>2. Types(w) = Append(<<"INSERT", "INTO">>, "IDENT")
    BY <1>1, <1>10, <2>1 DEF Prefix
  <2>3. Prefix("values", Types(w))  BY <2>2, Append3 DEF Prefix
  <2> QED  BY <1>2, <2>1, <2>3 DEF w
<1>11. CASE l = "values"
  <2>1. t.type = "VALUES" /\ P!Rule(l).next = "insert_open"  BY <1>11, InsertRules
  <2>2. Types(w) = Append(<<"INSERT", "INTO", "IDENT">>, "VALUES")
    BY <1>1, <1>11, <2>1 DEF Prefix
  <2>3. Prefix("insert_open", Types(w))  BY <2>2, Append4 DEF Prefix
  <2> QED  BY <1>2, <2>1, <2>3 DEF w
<1>12. CASE l = "insert_open"
  <2>1. t.type = "LPAREN" /\ P!Rule(l).next = "value"  BY <1>12, InsertRules
  <2>2. Types(w) = Append(<<"INSERT", "INTO", "IDENT", "VALUES">>, "LPAREN")
    BY <1>1, <1>12, <2>1 DEF Prefix
  <2>3. Types(w) = InsertHead  BY <2>2, Append5 DEF InsertHead
  <2>4. Inserting(w, << >>)  BY <1>1, <2>3, BracketsStart DEF Inserting
  <2>5. State("value", w)  BY <2>4 DEF State, ValueOpen
  <2> QED  BY <2>1, <2>5 DEF Fresh, w
<1> QED  BY <1>3, <1>4, <1>5, <1>6, <1>7, <1>8, <1>9, <1>10, <1>11, <1>12 DEF Prefix

LEMMA ColumnRead ==
  ASSUME NEW T, NEW p \in Seq(T), NEW t \in T, NEW l, NEW o,
         ColumnOpen(l, o), Creating(p, o), Fits(l, t)
  PROVE  Fresh(P!Rule(l).next, Append(p, t))
<1> USE DEF Fits, Asks
<1>1. Len(CreateHead) \in Nat /\ DOMAIN CreateHead = 1 .. Len(CreateHead)
  BY HeadsOfKinds
<1>2. t.type # "COMMA" => Creating(Append(p, t), Append(o, t.type))
  BY <1>1, BracketsStep DEF Creating
<1>3. CASE l = "col_name"
  <2>1. t.type = "IDENT" /\ P!Rule(l).next = "col_type"  BY <1>3, CreateRules
  <2>2. o = << >>  BY <1>3 DEF ColumnOpen
  <2>3. Creating(Append(p, t), <<"IDENT">>)  BY <1>2, <2>1, <2>2
  <2>4. State("col_type", Append(p, t))  BY <2>3 DEF State, ColumnOpen
  <2> QED  BY <2>1, <2>4 DEF Fresh
<1>4. CASE l = "col_type"
  <2>1. t.type \in TypeNames /\ P!Rule(l).next = "col_more"  BY <1>4, CreateRules
  <2>2. o = <<"IDENT">>  BY <1>4 DEF ColumnOpen
  <2>3. t.type # "COMMA"  BY <2>1 DEF TypeNames
  <2>4. Creating(Append(p, t), <<"IDENT", t.type>>)  BY <1>2, <2>2, <2>3, Append2
  <2>5. <<"IDENT", t.type>> \in Columns  BY <2>1 DEF Columns
  <2>6. State("col_more", Append(p, t))  BY <2>4, <2>5 DEF State, ColumnOpen
  <2> QED  BY <2>1, <2>6 DEF Fresh
<1>5. CASE l = "col_more"
  <2>1. t.type = "COMMA" /\ P!Rule(l).next = "col_name"  BY <1>5, CreateRules
  <2>2. o \in Columns  BY <1>5 DEF ColumnOpen
  <2>3. Creating(Append(p, t), << >>)  BY <1>1, <2>1, <2>2, BracketsNext DEF Creating
  <2>4. State("col_name", Append(p, t))  BY <2>3 DEF State, ColumnOpen
  <2> QED  BY <2>1, <2>4 DEF Fresh
<1>6. CASE l = "create_close"
  <2>1. t.type = "RPAREN" /\ P!Rule(l).next = "done"  BY <1>6, CreateRules
  <2>2. o \in Columns  BY <1>6 DEF ColumnOpen
  <2>3. PICK x \in TypeNames : o = <<"IDENT", x>>  BY <2>2 DEF Columns
  <2>4. Creating(Append(p, t), <<"IDENT", x, "RPAREN">>)
    BY <1>2, <2>1, <2>3, Append3
  <2>5. Closed(Append(p, t), CreateHead, Columns)
    BY <1>1, <2>1, <2>2, BracketsDone DEF Creating
  <2>6. IsStmt(Append(p, t))  BY <2>5, ClosedIsStmt DEF IsStmt
  <2> QED  BY <2>1, <2>4, <2>6 DEF Fresh
<1> QED  BY <1>3, <1>4, <1>5, <1>6 DEF ColumnOpen

LEMMA ValueRead ==
  ASSUME NEW T, NEW p \in Seq(T), NEW t \in T, NEW l, NEW o,
         ValueOpen(l, o), Inserting(p, o), Fits(l, t)
  PROVE  Fresh(P!Rule(l).next, Append(p, t))
<1> USE DEF Fits, Asks
<1>1. Len(InsertHead) \in Nat /\ DOMAIN InsertHead = 1 .. Len(InsertHead)
  BY HeadsOfKinds
<1>2. t.type # "COMMA" => Inserting(Append(p, t), Append(o, t.type))
  BY <1>1, BracketsStep DEF Inserting
<1>3. CASE l = "value"
  <2>1. t.type \in Literals /\ P!Rule(l).next = "value_more"  BY <1>3, InsertRules
  <2>2. o = << >>  BY <1>3 DEF ValueOpen
  <2>3. t.type # "COMMA"  BY <2>1 DEF Literals
  <2>4. Inserting(Append(p, t), <<t.type>>)  BY <1>2, <2>2, <2>3
  <2>5. <<t.type>> \in Values  BY <2>1 DEF Values
  <2>6. State("value_more", Append(p, t))  BY <2>4, <2>5 DEF State, ValueOpen
  <2> QED  BY <2>1, <2>6 DEF Fresh
<1>4. CASE l = "value_more"
  <2>1. t.type = "COMMA" /\ P!Rule(l).next = "value"  BY <1>4, InsertRules
  <2>2. o \in Values  BY <1>4 DEF ValueOpen
  <2>3. Inserting(Append(p, t), << >>)  BY <1>1, <2>1, <2>2, BracketsNext DEF Inserting
  <2>4. State("value", Append(p, t))  BY <2>3 DEF State, ValueOpen
  <2> QED  BY <2>1, <2>4 DEF Fresh
<1>5. CASE l = "insert_close"
  <2>1. t.type = "RPAREN" /\ P!Rule(l).next = "done"  BY <1>5, InsertRules
  <2>2. o \in Values  BY <1>5 DEF ValueOpen
  <2>3. PICK x \in Literals : o = <<x>>  BY <2>2 DEF Values
  <2>4. Inserting(Append(p, t), <<x, "RPAREN">>)  BY <1>2, <2>1, <2>3, Append2
  <2>5. Closed(Append(p, t), InsertHead, Values)
    BY <1>1, <2>1, <2>2, BracketsDone DEF Inserting
  <2>6. IsStmt(Append(p, t))  BY <2>5, ClosedIsStmt DEF IsStmt
  <2> QED  BY <2>1, <2>4, <2>6 DEF Fresh
<1> QED  BY <1>3, <1>4, <1>5 DEF ValueOpen

----------------------------------------------------------------------------
(* Items of a SELECT *)

LEMMA StarStays ==
  ASSUME NEW T, NEW p \in Seq(T), NEW t \in T, p # << >>, Starred(Append(p, t))
  PROVE  IF Len(p) = 1 THEN t.type = "STAR" ELSE Starred(p)
<1>1. PICK n \in Nat : n = Len(p)  BY LenProperties
<1>2. n >= 1  BY <1>1, EmptySeq
<1>3. PICK w : w = Append(p, t)  OBVIOUS
<1>4. w[n + 1] = t /\ \A i \in 1 .. n : w[i] = p[i]  BY <1>1, <1>3, AppendProperties
<1>5. w[2].type = "STAR"  BY <1>3 DEF Starred
<1>6. CASE n = 1
  <2>1. w[2] = t
    <3>1. n + 1 = 2  BY <1>6
    <3> QED  BY <1>4, <3>1
  <2> QED  BY <1>1, <1>5, <1>6, <2>1
<1>7. CASE n # 1
  <2>1. 2 \in 1 .. n /\ n > 1  BY <1>2, <1>7
  <2>2. w[2] = p[2]  BY <1>4, <2>1
  <2> QED  BY <1>1, <1>5, <1>7, <2>1, <2>2 DEF Starred
<1> QED  BY <1>6, <1>7

LEMMA ChoosingIs ==
  ASSUME NEW T, NEW p \in Seq(T), NEW c, NEW o,
         InList(p, c, <<"SELECT">>, "COMMA", Items, o)
  PROVE  /\ Len(c) = Len(p) /\ Len(p) \in Nat /\ Len(p) >= 1 /\ p # << >>
         /\ c \in Seq(T) /\ c = p
<1>1. InSelect(p, c) /\ Begins(c, <<"SELECT">>)  BY DEF InList
<1>2. c[1].type = "SELECT"
  <2>1. Len(<<"SELECT">>) = 1 /\ <<"SELECT">>[1] = "SELECT"  OBVIOUS
  <2> QED  BY <1>1, <2>1 DEF Begins
<1>3. /\ c \in Seq(T) /\ Len(c) >= 1
      /\ \A i \in 1 .. Len(c) : c[i] = p[Len(p) - Len(c) + i]
      /\ Len(p) = Len(c)
  BY <1>1, <1>2, InSelectIs
<1>4. PICK n \in Nat : n = Len(p)  BY LenProperties
<1>5. n = Len(c) /\ n >= 1 /\ \A i \in 1 .. n : c[i] = p[i]
  <2>1. n = Len(c) /\ n >= 1 /\ \A i \in 1 .. n : c[i] = p[n - n + i]  BY <1>3, <1>4
  <2>2. \A i \in 1 .. n : n - n + i = i  OBVIOUS
  <2> QED  BY <2>1, <2>2
<1>6. c = p  BY <1>3, <1>4, <1>5, SeqEqual
<1> QED  BY <1>3, <1>4, <1>5, <1>6

\* A list is left with the word of a later clause.
LEMMA ListLeft ==
  ASSUME NEW T, NEW p \in Seq(T), NEW t \in T, NEW c, NEW begin, NEW separator,
         NEW shapes, NEW o \in shapes, Framed(begin, separator, shapes),
         InList(p, c, begin, separator, shapes, o),
         begin[1] = "SELECT" => Len(c) = 1 \/ c[2].type # "STAR",
         IsHead(t), Rank[begin[1]] < Rank[t.type],
         begin[1] = "SELECT" => t.type = "FROM"
  PROVE  /\ InSelect(Append(p, t), <<t>>) /\ Types(<<t>>) = <<t.type>>
         /\ <<t>> \in Seq(T) /\ Append(p, t) \in Seq(T)
<1>1. InSelect(p, c)  BY DEF InList
<1>2. IsClause(c) /\ c[1].type = begin[1]  BY ListDone
<1>3. InSelect(Append(p, t), <<t>>)  BY <1>1, <1>2, SelectNext
<1>4. <<t>> \in Seq(T) /\ Append(p, t) \in Seq(T)  BY AppendProperties
<1> QED  BY <1>3, <1>4, WordHead

LEMMA Frames ==
  /\ Framed(<<"SELECT">>, "COMMA", Items) /\ <<"SELECT">>[1] = "SELECT"
  /\ Framed(<<"WHERE">>, "AND", Conditions) /\ <<"WHERE">>[1] = "WHERE"
  /\ Framed(<<"GROUP", "BY">>, "COMMA", {<<"IDENT">>})
  /\ <<"GROUP", "BY">>[1] = "GROUP"
  /\ Framed(<<"ORDER", "BY">>, "COMMA", Keys) /\ <<"ORDER", "BY">>[1] = "ORDER"
  BY DEF Framed

LEMMA ChoosingStep ==
  ASSUME NEW T, NEW p \in Seq(T), NEW t \in T, NEW o, Choosing(p, o),
         t.type \in {"IDENT", "AS", "LPAREN", "RPAREN"} \cup Aggregates
  PROVE  Choosing(Append(p, t), Append(o, t.type))
<1>1. ~IsHead(t) /\ t.type # "COMMA" /\ t.type # "STAR"
  BY RanksAre DEF IsHead, Aggregates
<1>2. PICK c : InList(p, c, <<"SELECT">>, "COMMA", Items, o)  BY DEF Choosing
<1>3. InList(Append(p, t), Append(c, t), <<"SELECT">>, "COMMA", Items,
             Append(o, t.type))
  BY <1>1, <1>2, Frames, ListStep
<1>4. p # << >>  BY <1>2, ChoosingIs
<1>5. ~Starred(Append(p, t))  BY <1>1, <1>4, StarStays DEF Choosing
<1> QED  BY <1>3, <1>5 DEF Choosing

LEMMA ChoosingNext ==
  ASSUME NEW T, NEW p \in Seq(T), NEW t \in T, NEW o \in Items, Choosing(p, o),
         t.type = "COMMA"
  PROVE  Choosing(Append(p, t), << >>) /\ Len(Append(p, t)) > 1
<1>2. PICK c : InList(p, c, <<"SELECT">>, "COMMA", Items, o)  BY DEF Choosing
<1>3. InList(Append(p, t), Append(c, t), <<"SELECT">>, "COMMA", Items, << >>)
  BY <1>2, Frames, ListNext
<1>4. p # << >> /\ Len(p) \in Nat /\ Len(p) >= 1  BY <1>2, ChoosingIs
<1>5. ~Starred(Append(p, t))  BY <1>4, StarStays DEF Choosing
<1>6. Len(Append(p, t)) = Len(p) + 1  BY AppendProperties
<1> QED  BY <1>3, <1>4, <1>5, <1>6 DEF Choosing

LEMMA ChoosingLeft ==
  ASSUME NEW T, NEW p \in Seq(T), NEW t \in T, NEW o \in Items, Choosing(p, o),
         t.type = "FROM"
  PROVE  InSelect(Append(p, t), <<t>>) /\ Types(<<t>>) = <<"FROM">>
<1>1. PICK c : InList(p, c, <<"SELECT">>, "COMMA", Items, o)  BY DEF Choosing
<1>2. c = p /\ Len(p) \in Nat /\ Len(p) >= 1  BY <1>1, ChoosingIs
<1>3. Len(c) = 1 \/ c[2].type # "STAR"
  <2>1. Len(p) > 1 => p[2].type # "STAR"  BY DEF Choosing, Starred
  <2>2. PICK n \in Nat : n = Len(p)  BY <1>2
  <2>3. n = 1 \/ n > 1  BY <1>2, <2>2
  <2> QED  BY <1>2, <2>1, <2>2, <2>3
<1>4. IsHead(t) /\ Rank["SELECT"] < Rank[t.type]  BY RanksAre DEF IsHead
<1>5. PICK begin : begin = <<"SELECT">>  OBVIOUS
<1>6. /\ Framed(begin, "COMMA", Items) /\ begin[1] = "SELECT"
      /\ InList(p, c, begin, "COMMA", Items, o)
  BY <1>1, <1>5, Frames
<1> QED  BY <1>3, <1>4, <1>6, ListLeft

LEMMA ItemRead ==
  ASSUME NEW T, NEW p \in Seq(T), NEW t \in T, NEW l, NEW o,
         ItemOpen(l, o), Choosing(p, o), Fits(l, t)
  PROVE  Fresh(P!Rule(l).next, Append(p, t))
<1> USE DEF Fits, Asks
<1>1. t.type \in {"IDENT", "AS", "LPAREN", "RPAREN"} \cup Aggregates
      => Choosing(Append(p, t), Append(o, t.type))
  BY ChoosingStep
<1>2. \A n, q : /\ ItemOpen(n, q) /\ Choosing(Append(p, t), q)
                /\ n \notin {"item", "item_more", "from"}
                => Fresh(n, Append(p, t))
  BY DEF Fresh, State, ItemOpen
<1>3. CASE l = "item"
  <2>1. t.type \in Aggregates /\ P!Rule(l).next = "agg_open"  BY <1>3, ItemRules
  <2>2. o = << >>  BY <1>3 DEF ItemOpen
  <2>3. Choosing(Append(p, t), <<t.type>>)  BY <1>1, <2>1, <2>2
  <2>4. ItemOpen("agg_open", <<t.type>>)  BY <2>1 DEF ItemOpen
  <2> QED  BY <1>2, <2>1, <2>3, <2>4
<1>4. CASE l = "item_col"
  <2>1. t.type = "IDENT" /\ P!Rule(l).next = "as"  BY <1>4, ItemRules
  <2>2. o = << >>  BY <1>4 DEF ItemOpen
  <2>3. Choosing(Append(p, t), <<"IDENT">>)  BY <1>1, <2>1, <2>2
  <2>4. ItemOpen("as", <<"IDENT">>)  BY DEF ItemOpen, Plain
  <2> QED  BY <1>2, <2>1, <2>3, <2>4
<1>5. CASE l = "agg_open"
  <2>1. t.type = "LPAREN" /\ P!Rule(l).next = "agg_col"  BY <1>5, ItemRules
  <2>2. PICK a \in Aggregates : o = <<a>>  BY <1>5 DEF ItemOpen
  <2>3. Choosing(Append(p, t), <<a, "LPAREN">>)  BY <1>1, <2>1, <2>2, Append2
  <2>4. ItemOpen("agg_col", <<a, "LPAREN">>)  BY DEF ItemOpen
  <2> QED  BY <1>2, <2>1, <2>3, <2>4
<1>6. CASE l = "agg_col"
  <2>1. t.type = "IDENT" /\ P!Rule(l).next = "agg_close"  BY <1>6, ItemRules
  <2>2. PICK a \in Aggregates : o = <<a, "LPAREN">>  BY <1>6 DEF ItemOpen
  <2>3. Choosing(Append(p, t), <<a, "LPAREN", "IDENT">>)
    BY <1>1, <2>1, <2>2, Append3
  <2>4. ItemOpen("agg_close", <<a, "LPAREN", "IDENT">>)  BY DEF ItemOpen
  <2> QED  BY <1>2, <2>1, <2>3, <2>4
<1>7. CASE l = "agg_close"
  <2>1. t.type = "RPAREN" /\ P!Rule(l).next = "as"  BY <1>7, ItemRules
  <2>2. PICK a \in Aggregates : o = <<a, "LPAREN", "IDENT">>  BY <1>7 DEF ItemOpen
  <2>3. Choosing(Append(p, t), <<a, "LPAREN", "IDENT", "RPAREN">>)
    BY <1>1, <2>1, <2>2, Append4
  <2>4. ItemOpen("as", <<a, "LPAREN", "IDENT", "RPAREN">>)  BY DEF ItemOpen, Plain
  <2> QED  BY <1>2, <2>1, <2>3, <2>4
<1>8. CASE l = "as"
  <2>1. t.type = "AS" /\ P!Rule(l).next = "alias"  BY <1>8, ItemRules
  <2>2. o \in Plain  BY <1>8 DEF ItemOpen
  <2>3. Choosing(Append(p, t), Append(o, "AS"))  BY <1>1, <2>1
  <2>4. ItemOpen("alias", Append(o, "AS"))  BY <2>2 DEF ItemOpen
  <2> QED  BY <1>2, <2>1, <2>3, <2>4
<1>9. CASE l = "alias"
  <2>1. t.type = "IDENT" /\ P!Rule(l).next = "item_more"  BY <1>9, ItemRules
  <2>2. PICK q \in Plain : o = Append(q, "AS")  BY <1>9 DEF ItemOpen
  <2>3. Choosing(Append(p, t), Append(o, "IDENT"))  BY <1>1, <2>1
  <2>4. Append(o, "IDENT") \in Aliased
    <3>1. CASE q = <<"IDENT">>
      <4>1. Append(o, "IDENT") = <<"IDENT", "AS", "IDENT">>
        BY <2>2, <3>1, Append2, Append3, ZenonT(60)
      <4> QED  BY <4>1 DEF Aliased
    <3>2. CASE \E a \in Aggregates : q = <<a, "LPAREN", "IDENT", "RPAREN">>
      <4>1. PICK a \in Aggregates : q = <<a, "LPAREN", "IDENT", "RPAREN">>  BY <3>2
      <4>2. Append(o, "IDENT") = <<a, "LPAREN", "IDENT", "RPAREN", "AS", "IDENT">>
        <5>1. o = <<a, "LPAREN", "IDENT", "RPAREN", "AS">>  BY <2>2, <4>1, Append5
        <5> QED  BY <5>1, Append6
      <4> QED  BY <4>2 DEF Aliased
    <3> QED  BY <3>1, <3>2 DEF Plain
  <2> QED  BY <2>1, <2>3, <2>4 DEF Fresh
<1>10. CASE l = "item_more"
  <2>1. t.type = "COMMA" /\ P!Rule(l).next = "item"  BY <1>10, ItemRules
  <2>2. o \in Items  BY <1>10 DEF ItemOpen
  <2>3. Choosing(Append(p, t), << >>) /\ Len(Append(p, t)) > 1
    BY <2>1, <2>2, ChoosingNext
  <2> QED  BY <2>1, <2>3 DEF Fresh
<1>11. CASE l = "from"
  <2>1. t.type = "FROM" /\ P!Rule(l).next = "from_name"  BY <1>11, SelectRules
  <2>2. o \in Items  BY <1>11 DEF ItemOpen
  <2>3. InSelect(Append(p, t), <<t>>) /\ Types(<<t>>) = <<"FROM">>
    BY <2>1, <2>2, ChoosingLeft
  <2>4. Word("from_name", Types(<<t>>))  BY <2>3 DEF Word
  <2>5. State("from_name", Append(p, t))  BY <2>3, <2>4 DEF State
  <2> QED  BY <2>1, <2>5 DEF Fresh
<1> QED
  BY <1>3, <1>4, <1>5, <1>6, <1>7, <1>8, <1>9, <1>10, <1>11 DEF ItemOpen

----------------------------------------------------------------------------
(* The other lists of a SELECT *)

LEMMA ListingStep ==
  ASSUME NEW T, NEW p \in Seq(T), NEW t \in T, NEW begin, NEW separator, NEW shapes,
         NEW o, Framed(begin, separator, shapes),
         Listing(p, begin, separator, shapes, o), ~IsHead(t), t.type # separator
  PROVE  Listing(Append(p, t), begin, separator, shapes, Append(o, t.type))
<1>1. PICK c : InList(p, c, begin, separator, shapes, o)  BY DEF Listing
<1>2. InList(Append(p, t), Append(c, t), begin, separator, shapes, Append(o, t.type))
  BY <1>1, ListStep
<1> QED  BY <1>2 DEF Listing

LEMMA ListingNext ==
  ASSUME NEW T, NEW p \in Seq(T), NEW t \in T, NEW begin, NEW separator, NEW shapes,
         NEW o \in shapes, Framed(begin, separator, shapes),
         Listing(p, begin, separator, shapes, o), t.type = separator
  PROVE  Listing(Append(p, t), begin, separator, shapes, << >>)
<1>1. PICK c : InList(p, c, begin, separator, shapes, o)  BY DEF Listing
<1>2. InList(Append(p, t), Append(c, t), begin, separator, shapes, << >>)
  BY <1>1, ListNext
<1> QED  BY <1>2 DEF Listing

LEMMA ListingLeft ==
  ASSUME NEW T, NEW p \in Seq(T), NEW t \in T, NEW begin, NEW separator, NEW shapes,
         NEW o \in shapes, Framed(begin, separator, shapes),
         Listing(p, begin, separator, shapes, o), begin[1] # "SELECT",
         IsHead(t), Rank[begin[1]] < Rank[t.type]
  PROVE  InSelect(Append(p, t), <<t>>) /\ Types(<<t>>) = <<t.type>>
<1>1. PICK c : InList(p, c, begin, separator, shapes, o)  BY DEF Listing
<1> QED  BY <1>1, ListLeft

\* A word of one or two tokens has been read in front of a list.
LEMMA ListingStart ==
  ASSUME NEW T, NEW p \in Seq(T), NEW c, NEW begin, NEW separator, NEW shapes,
         InSelect(p, c), Types(c) = begin
  PROVE  Listing(p, begin, separator, shapes, << >>)
<1>1. InList(p, c, begin, separator, shapes, << >>)  BY ListStart
<1> QED  BY <1>1 DEF Listing

LEMMA ConditionRead ==
  ASSUME NEW T, NEW p \in Seq(T), NEW t \in T, NEW l, NEW o,
         ConditionOpen(l, o), Filtering(p, o), Fits(l, t)
  PROVE  Fresh(P!Rule(l).next, Append(p, t))
<1> USE DEF Fits, Asks
<1>0. PICK begin : begin = <<"WHERE">>  OBVIOUS
<1>1. /\ Framed(begin, "AND", Conditions) /\ begin[1] = "WHERE"
      /\ Listing(p, begin, "AND", Conditions, o)
  BY <1>0, Frames DEF Filtering
<1>2. t.type \in Operands \cup Comparisons =>
        Filtering(Append(p, t), Append(o, t.type))
  <2>1. t.type \in Operands \cup Comparisons => ~IsHead(t) /\ t.type # "AND"
    BY RanksAre DEF IsHead, Operands, Comparisons, Literals
  <2>2. t.type \in Operands \cup Comparisons =>
          Listing(Append(p, t), begin, "AND", Conditions, Append(o, t.type))
    BY <1>1, <2>1, ListingStep
  <2> QED  BY <1>0, <2>2 DEF Filtering
<1>3. \A n, q : ConditionOpen(n, q) /\ Filtering(Append(p, t), q) => Fresh(n, Append(p, t))
  BY DEF Fresh, State, ConditionOpen
<1>4. IsHead(t) /\ Rank["WHERE"] < Rank[t.type] /\ o \in Conditions =>
        InSelect(Append(p, t), <<t>>) /\ Types(<<t>>) = <<t.type>>
  BY <1>1, ListingLeft
<1>5. CASE l = "left"
  <2>1. t.type \in Operands /\ P!Rule(l).next = "op"  BY <1>5, ConditionRules
  <2>2. o = << >>  BY <1>5 DEF ConditionOpen
  <2>3. Filtering(Append(p, t), <<t.type>>)  BY <1>2, <2>1, <2>2
  <2>4. ConditionOpen("op", <<t.type>>)  BY <2>1 DEF ConditionOpen
  <2> QED  BY <1>3, <2>1, <2>3, <2>4
<1>6. CASE l = "op"
  <2>1. t.type \in Comparisons /\ P!Rule(l).next = "right"  BY <1>6, ConditionRules
  <2>2. PICK a \in Operands : o = <<a>>  BY <1>6 DEF ConditionOpen
  <2>3. Filtering(Append(p, t), <<a, t.type>>)  BY <1>2, <2>1, <2>2, Append2
  <2>4. ConditionOpen("right", <<a, t.type>>)  BY <2>1 DEF ConditionOpen
  <2> QED  BY <1>3, <2>1, <2>3, <2>4
<1>7. CASE l = "right"
  <2>1. t.type \in Operands /\ P!Rule(l).next = "where_more"
    BY <1>7, ConditionRules
  <2>2. PICK a \in Operands, b \in Comparisons : o = <<a, b>>
    BY <1>7 DEF ConditionOpen
  <2>3. Filtering(Append(p, t), <<a, b, t.type>>)  BY <1>2, <2>1, <2>2, Append3
  <2>4. <<a, b, t.type>> \in Conditions  BY <2>1 DEF Conditions
  <2>5. ConditionOpen("where_more", <<a, b, t.type>>)  BY <2>4 DEF ConditionOpen
  <2> QED  BY <1>3, <2>1, <2>3, <2>5
<1>8. CASE l = "where_more"
  <2>1. t.type = "AND" /\ P!Rule(l).next = "left"  BY <1>8, SelectRules
  <2>2. o \in Conditions  BY <1>8 DEF ConditionOpen
  <2>3. Filtering(Append(p, t), << >>)
    BY <1>0, <1>1, <2>1, <2>2, ListingNext DEF Filtering
  <2>4. ConditionOpen("left", << >>)  BY DEF ConditionOpen
  <2> QED  BY <1>3, <2>1, <2>3, <2>4
<1>9. CASE l = "group"
  <2>1. t.type = "GROUP" /\ P!Rule(l).next = "group_by"  BY <1>9, SelectRules
  <2>2. o \in Conditions  BY <1>9 DEF ConditionOpen
  <2>3. InSelect(Append(p, t), <<t>>) /\ Types(<<t>>) = <<"GROUP">>
    BY <1>4, <2>1, <2>2, RanksAre DEF IsHead
  <2>4. Word("group_by", Types(<<t>>))  BY <2>3 DEF Word
  <2>5. State("group_by", Append(p, t))  BY <2>3, <2>4 DEF State
  <2> QED  BY <2>1, <2>5 DEF Fresh
<1>10. CASE l = "order"
  <2>1. t.type = "ORDER" /\ P!Rule(l).next = "order_by"  BY <1>10, SelectRules
  <2>2. o \in Conditions  BY <1>10 DEF ConditionOpen
  <2>3. InSelect(Append(p, t), <<t>>) /\ Types(<<t>>) = <<"ORDER">>
    BY <1>4, <2>1, <2>2, RanksAre DEF IsHead
  <2>4. Word("order_by", Types(<<t>>))  BY <2>3 DEF Word
  <2>5. State("order_by", Append(p, t))  BY <2>3, <2>4 DEF State
  <2> QED  BY <2>1, <2>5 DEF Fresh
<1> QED  BY <1>5, <1>6, <1>7, <1>8, <1>9, <1>10 DEF ConditionOpen

LEMMA NameRead ==
  ASSUME NEW T, NEW p \in Seq(T), NEW t \in T, NEW l, NEW o,
         NameOpen(l, o), Grouping(p, o), Fits(l, t)
  PROVE  Fresh(P!Rule(l).next, Append(p, t))
<1> USE DEF Fits, Asks
<1>0. PICK begin : begin = <<"GROUP", "BY">>  OBVIOUS
<1>1. PICK shapes : shapes = {<<"IDENT">>}  OBVIOUS
<1>2. /\ Framed(begin, "COMMA", shapes) /\ begin[1] = "GROUP"
      /\ Listing(p, begin, "COMMA", shapes, o)
  BY <1>0, <1>1, Frames DEF Grouping
<1>3. \A n, q : NameOpen(n, q) /\ Grouping(Append(p, t), q) => Fresh(n, Append(p, t))
  BY DEF Fresh, State, NameOpen
<1>4. CASE l = "group_col"
  <2>1. t.type = "IDENT" /\ P!Rule(l).next = "group_more"  BY <1>4, SelectRules
  <2>2. o = << >>  BY <1>4 DEF NameOpen
  <2>3. ~IsHead(t) /\ t.type # "COMMA"  BY <2>1, RanksAre DEF IsHead
  <2>4. Listing(Append(p, t), begin, "COMMA", shapes, Append(o, t.type))
    BY <1>2, <2>3, ListingStep
  <2>5. Grouping(Append(p, t), <<"IDENT">>)
    BY <1>0, <1>1, <2>1, <2>2, <2>4 DEF Grouping
  <2>6. NameOpen("group_more", <<"IDENT">>)  BY DEF NameOpen
  <2> QED  BY <1>3, <2>1, <2>5, <2>6
<1>5. CASE l = "group_more"
  <2>1. t.type = "COMMA" /\ P!Rule(l).next = "group_col"  BY <1>5, SelectRules
  <2>2. o \in shapes  BY <1>1, <1>5 DEF NameOpen
  <2>3. Listing(Append(p, t), begin, "COMMA", shapes, << >>)
    BY <1>2, <2>1, <2>2, ListingNext
  <2>4. Grouping(Append(p, t), << >>)  BY <1>0, <1>1, <2>3 DEF Grouping
  <2>5. NameOpen("group_col", << >>)  BY DEF NameOpen
  <2> QED  BY <1>3, <2>1, <2>4, <2>5
<1>6. CASE l = "order"
  <2>1. t.type = "ORDER" /\ P!Rule(l).next = "order_by"  BY <1>6, SelectRules
  <2>2. o \in shapes  BY <1>1, <1>6 DEF NameOpen
  <2>3. IsHead(t) /\ Rank["GROUP"] < Rank[t.type]  BY <2>1, RanksAre DEF IsHead
  <2>4. InSelect(Append(p, t), <<t>>) /\ Types(<<t>>) = <<"ORDER">>
    BY <1>2, <2>1, <2>2, <2>3, ListingLeft
  <2>5. Word("order_by", Types(<<t>>))  BY <2>4 DEF Word
  <2>6. State("order_by", Append(p, t))  BY <2>4, <2>5 DEF State
  <2> QED  BY <2>1, <2>6 DEF Fresh
<1> QED  BY <1>4, <1>5, <1>6 DEF NameOpen

LEMMA KeyRead ==
  ASSUME NEW T, NEW p \in Seq(T), NEW t \in T, NEW l, NEW o,
         KeyOpen(l, o), Ordering(p, o), Fits(l, t)
  PROVE  Fresh(P!Rule(l).next, Append(p, t))
<1> USE DEF Fits, Asks
<1>0. PICK begin : begin = <<"ORDER", "BY">>  OBVIOUS
<1>1. Framed(begin, "COMMA", Keys) /\ Listing(p, begin, "COMMA", Keys, o)
  BY <1>0, Frames DEF Ordering
<1>2. t.type \in {"IDENT", "ASC", "DESC"} => Ordering(Append(p, t), Append(o, t.type))
  <2>1. t.type \in {"IDENT", "ASC", "DESC"} => ~IsHead(t) /\ t.type # "COMMA"
    BY RanksAre DEF IsHead
  <2>2. t.type \in {"IDENT", "ASC", "DESC"} =>
          Listing(Append(p, t), begin, "COMMA", Keys, Append(o, t.type))
    BY <1>1, <2>1, ListingStep
  <2> QED  BY <1>0, <2>2 DEF Ordering
<1>3. CASE l = "order_col"
  <2>1. t.type = "IDENT" /\ P!Rule(l).next = "order_desc"  BY <1>3, SelectRules
  <2>2. o = << >>  BY <1>3 DEF KeyOpen
  <2>3. Ordering(Append(p, t), <<"IDENT">>)  BY <1>2, <2>1, <2>2
  <2>4. State("order_desc", Append(p, t))  BY <2>3 DEF State, KeyOpen
  <2> QED  BY <2>1, <2>4 DEF Fresh
<1>4. CASE l \in {"order_desc", "order_asc"}
  <2>1. t.type \in {"DESC", "ASC"} /\ P!Rule(l).next = "order_more"
    BY <1>4, SelectRules
  <2>2. o = <<"IDENT">>  BY <1>4 DEF KeyOpen
  <2>3. Ordering(Append(p, t), <<"IDENT", t.type>>)  BY <1>2, <2>1, <2>2, Append2
  <2>4. <<"IDENT", t.type>> \in Keys  BY <2>1 DEF Keys
  <2> QED  BY <2>1, <2>3, <2>4 DEF Fresh
<1>5. CASE l = "order_more"
  <2>1. t.type = "COMMA" /\ P!Rule(l).next = "order_col"  BY <1>5, SelectRules
  <2>2. o \in Keys  BY <1>5 DEF KeyOpen
  <2>3. Ordering(Append(p, t), << >>)
    BY <1>0, <1>1, <2>1, <2>2, ListingNext DEF Ordering
  <2>4. State("order_col", Append(p, t))  BY <2>3 DEF State, KeyOpen
  <2> QED  BY <2>1, <2>4 DEF Fresh
<1> QED  BY <1>3, <1>4, <1>5 DEF KeyOpen

----------------------------------------------------------------------------
(* The words of a SELECT *)

\* The two clauses that are no lists.
LEMMA StarIsClause ==
  ASSUME NEW T, NEW c \in Seq(T), Types(c) = <<"SELECT", "STAR">>
  PROVE  IsClause(c) /\ c[1].type = "SELECT"
<1>1. c[1].type = "SELECT" /\ Types(After(c, 1)) = <<"STAR">>  BY TwoTypes
<1> QED  BY <1>1 DEF IsClause

LEMMA FromIsClause ==
  ASSUME NEW T, NEW c \in Seq(T), Types(c) = <<"FROM", "IDENT">>
  PROVE  IsClause(c) /\ c[1].type = "FROM"
<1>1. c[1].type = "FROM" /\ Types(After(c, 1)) = <<"IDENT">>  BY TwoTypes
<1> QED  BY <1>1 DEF IsClause

LEMMA WordRead ==
  ASSUME NEW T, NEW p \in Seq(T), NEW t \in T, NEW l, NEW c, InSelect(p, c),
         Word(l, Types(c)), Fits(l, t)
  PROVE  Fresh(P!Rule(l).next, Append(p, t))
<1> DEFINE w == Append(p, t)
<1>1. w \in Seq(T) /\ c \in Seq(T)  BY InSelectIs, AppendProperties
<1>2. ~IsHead(t) => InSelect(w, Append(c, t)) /\ Append(c, t) \in Seq(T)
                    /\ Types(Append(c, t)) = Append(Types(c), t.type)
  BY <1>1, SelectStep, TypesGrow, AppendProperties
<1>3. /\ IsHead(t) /\ IsClause(c) /\ Rank[c[1].type] < Rank[t.type]
      /\ c[1].type = "SELECT" => t.type = "FROM"
      => InSelect(w, <<t>>) /\ Types(<<t>>) = <<t.type>> /\ <<t>> \in Seq(T)
  <2>1. Types(<<t>>) = <<t.type>> /\ <<t>> \in Seq(T)  BY WordHead
  <2> QED  BY <2>1, SelectNext
<1> HIDE DEF w
<1> USE DEF Fits, Asks
<1>4. CASE l = "star"
  <2>1. t.type = "STAR" /\ P!Rule(l).next = "from"  BY <1>4, SelectRules
  <2>2. Types(c) = <<"SELECT">>  BY <1>4 DEF Word
  <2>3. ~IsHead(t)  BY <2>1, RanksAre DEF IsHead
  <2>4. InSelect(w, Append(c, t)) /\ Types(Append(c, t)) = <<"SELECT", "STAR">>
    BY <1>2, <2>1, <2>2, <2>3, Append2
  <2> QED  BY <2>1, <2>4 DEF Fresh, w
<1>5. CASE l = "from"
  <2>1. t.type = "FROM" /\ P!Rule(l).next = "from_name"  BY <1>5, SelectRules
  <2>2. Types(c) = <<"SELECT", "STAR">>  BY <1>5 DEF Word
  <2>3. IsClause(c) /\ c[1].type = "SELECT"  BY <1>1, <2>2, StarIsClause
  <2>4. IsHead(t) /\ Rank[c[1].type] < Rank[t.type]
    BY <2>1, <2>3, RanksAre DEF IsHead
  <2>5. InSelect(w, <<t>>) /\ Types(<<t>>) = <<"FROM">>  BY <1>3, <2>1, <2>3, <2>4
  <2>6. Word("from_name", Types(<<t>>))  BY <2>5 DEF Word
  <2>7. State("from_name", w)  BY <2>5, <2>6 DEF State
  <2> QED  BY <2>1, <2>7 DEF Fresh, w
<1>6. CASE l = "from_name"
  <2>1. t.type = "IDENT" /\ P!Rule(l).next = "where"  BY <1>6, SelectRules
  <2>2. Types(c) = <<"FROM">>  BY <1>6 DEF Word
  <2>3. ~IsHead(t)  BY <2>1, RanksAre DEF IsHead
  <2>4. InSelect(w, Append(c, t)) /\ Types(Append(c, t)) = <<"FROM", "IDENT">>
    BY <1>2, <2>1, <2>2, <2>3, Append2
  <2>5. Word("where", Types(Append(c, t)))  BY <2>4 DEF Word
  <2>6. State("where", w)  BY <2>4, <2>5 DEF State
  <2> QED  BY <2>1, <2>6 DEF Fresh, w
<1>7. CASE l \in {"where", "group", "order"}
  <2>1. Types(c) = <<"FROM", "IDENT">>  BY <1>7 DEF Word
  <2>2. IsClause(c) /\ c[1].type = "FROM"  BY <1>1, <2>1, FromIsClause
  <2>3. t.type \in {"WHERE", "GROUP", "ORDER"}  BY <1>7, SelectRules
  <2>4. IsHead(t) /\ Rank[c[1].type] < Rank[t.type]
    BY <2>2, <2>3, RanksAre DEF IsHead
  <2>5. InSelect(w, <<t>>) /\ Types(<<t>>) = <<t.type>> /\ <<t>> \in Seq(T)
    BY <1>3, <2>2, <2>4
  <2>6. CASE l = "where"
    <3>1. t.type = "WHERE" /\ P!Rule(l).next = "left"  BY <2>6, SelectRules
    <3>2. PICK begin : begin = <<"WHERE">>  OBVIOUS
    <3>3. Listing(w, begin, "AND", Conditions, << >>)
      BY <1>1, <2>5, <3>1, <3>2, ListingStart
    <3>4. State("left", w)  BY <3>2, <3>3 DEF State, ConditionOpen, Filtering
    <3> QED  BY <3>1, <3>4 DEF Fresh, w
  <2>7. CASE l = "group"
    <3>1. t.type = "GROUP" /\ P!Rule(l).next = "group_by"  BY <2>7, SelectRules
    <3>2. Word("group_by", Types(<<t>>))  BY <2>5, <3>1 DEF Word
    <3>3. State("group_by", w)  BY <2>5, <3>2 DEF State
    <3> QED  BY <3>1, <3>3 DEF Fresh, w
  <2>8. CASE l = "order"
    <3>1. t.type = "ORDER" /\ P!Rule(l).next = "order_by"  BY <2>8, SelectRules
    <3>2. Word("order_by", Types(<<t>>))  BY <2>5, <3>1 DEF Word
    <3>3. State("order_by", w)  BY <2>5, <3>2 DEF State
    <3> QED  BY <3>1, <3>3 DEF Fresh, w
  <2> QED  BY <1>7, <2>6, <2>7, <2>8
<1>8. CASE l = "group_by"
  <2>1. t.type = "BY" /\ P!Rule(l).next = "group_col"  BY <1>8, SelectRules
  <2>2. Types(c) = <<"GROUP">>  BY <1>8 DEF Word
  <2>3. ~IsHead(t)  BY <2>1, RanksAre DEF IsHead
  <2>4. InSelect(w, Append(c, t)) /\ Types(Append(c, t)) = <<"GROUP", "BY">>
    BY <1>2, <2>1, <2>2, <2>3, Append2
  <2>5. PICK begin : begin = <<"GROUP", "BY">>  OBVIOUS
  <2>6. Listing(w, begin, "COMMA", {<<"IDENT">>}, << >>)
    BY <1>1, <2>4, <2>5, ListingStart
  <2>7. State("group_col", w)  BY <2>5, <2>6 DEF State, NameOpen, Grouping
  <2> QED  BY <2>1, <2>7 DEF Fresh, w
<1>9. CASE l = "order_by"
  <2>1. t.type = "BY" /\ P!Rule(l).next = "order_col"  BY <1>9, SelectRules
  <2>2. Types(c) = <<"ORDER">>  BY <1>9 DEF Word
  <2>3. ~IsHead(t)  BY <2>1, RanksAre DEF IsHead
  <2>4. InSelect(w, Append(c, t)) /\ Types(Append(c, t)) = <<"ORDER", "BY">>
    BY <1>2, <2>1, <2>2, <2>3, Append2
  <2>5. PICK begin : begin = <<"ORDER", "BY">>  OBVIOUS
  <2>6. Listing(w, begin, "COMMA", Keys, << >>)  BY <1>1, <2>4, <2>5, ListingStart
  <2>7. State("order_col", w)  BY <2>5, <2>6 DEF State, KeyOpen, Ordering
  <2> QED  BY <2>1, <2>7 DEF Fresh, w
<1> QED  BY <1>4, <1>5, <1>6, <1>7, <1>8, <1>9 DEF Word

LEMMA StateRead ==
  ASSUME NEW T, NEW p \in Seq(T), NEW t \in T, NEW l, State(l, p), Fits(l, t)
  PROVE  Fresh(P!Rule(l).next, Append(p, t))
<1>1. l # "done"  BY LabelsOf DEF Fits, P!Labels, P!Methods
<1> QED
  BY <1>1, PrefixRead, WordRead, ColumnRead, ValueRead, ItemRead, ConditionRead,
     NameRead, KeyRead DEF State

\* What is just read is read.
LEMMA FreshIsState ==
  ASSUME NEW l, NEW p, Fresh(l, p)
  PROVE  State(l, p)
<1>1. CASE l = "item"
  <2>1. ItemOpen("item", << >>)  BY DEF ItemOpen
  <2> QED  BY <1>1, <2>1 DEF Fresh, State
<1>2. CASE l = "item_more"
  <2>1. \A o \in Aliased : ItemOpen("item_more", o)  BY DEF ItemOpen, Items
  <2> QED  BY <1>2, <2>1 DEF Fresh, State
<1>3. CASE l = "from"
  <2>1. Word("from", <<"SELECT", "STAR">>)  BY DEF Word
  <2> QED  BY <1>3, <2>1 DEF Fresh, State
<1>4. CASE l = "order_more"
  <2>1. \A o \in Keys : KeyOpen("order_more", o)  BY DEF KeyOpen
  <2> QED  BY <1>4, <2>1 DEF Fresh, State
<1>5. CASE l = "done"  BY <1>5 DEF Fresh, State
<1> QED  BY <1>1, <1>2, <1>3, <1>4, <1>5 DEF Fresh

----------------------------------------------------------------------------
(* Where the parser goes on without taking a token *)

\* A SELECT whose last clause is complete and not the first is a statement.
LEMMA ListingIsStmt ==
  ASSUME NEW T, NEW p \in Seq(T), NEW begin, NEW separator, NEW shapes, NEW o \in shapes,
         Framed(begin, separator, shapes), begin[1] # "SELECT",
         Listing(p, begin, separator, shapes, o)
  PROVE  IsStmt(p)
<1>1. PICK c : InList(p, c, begin, separator, shapes, o)  BY DEF Listing
<1>2. IsClause(c) /\ c[1].type = begin[1]  BY <1>1, ListDone
<1>3. InSelect(p, c)  BY <1>1 DEF InList
<1>4. IsSelect(p)  BY <1>2, <1>3, SelectIs
<1> QED  BY <1>4 DEF IsStmt

LEMMA StateGoesOn ==
  ASSUME NEW T, NEW p \in Seq(T), NEW l \in P!Labels, State(l, p),
         P!Rule(l).otherwise # "error"
  PROVE  State(P!Rule(l).otherwise, p)
<1> USE DEF Asks
<1>1. CASE Prefix(l, Types(p))
  <2>1. l \notin {"table", "create_name", "create_open", "into", "insert_name",
                  "values", "insert_open", "select"}
    BY CreateRules, InsertRules, ParseRules
  <2>2. l \in {"parse", "insert"} /\ Types(p) = << >>  BY <1>1, <2>1 DEF Prefix
  <2>3. P!Rule(l).otherwise \in {"insert", "select"}  BY <2>2, ParseRules
  <2>4. Prefix(P!Rule(l).otherwise, Types(p))  BY <2>2, <2>3 DEF Prefix
  <2> QED  BY <2>4 DEF State
<1>2. ASSUME NEW c, InSelect(p, c), Word(l, Types(c))
      PROVE  State(P!Rule(l).otherwise, p)
  <2>1. c \in Seq(T)  BY <1>2, InSelectIs
  <2>2. l \notin {"from", "from_name", "group_by", "order_by"}  BY SelectRules
  <2>3. CASE l = "star"
    <3>1. Types(c) = <<"SELECT">>  BY <1>2, <2>3 DEF Word
    <3>2. P!Rule(l).otherwise = "item"  BY <2>3, SelectRules
    <3>3. PICK begin : begin = <<"SELECT">>  OBVIOUS
    <3>4. InList(p, c, begin, "COMMA", Items, << >>)  BY <1>2, <3>1, <3>3, ListStart
    <3>5. ~Starred(p)
      <4>1. c[1].type = "SELECT" /\ Len(c) = 1  BY <2>1, <3>1, OneType
      <4>2. Len(p) = 1  BY <1>2, <4>1, InSelectIs
      <4> QED  BY <4>2 DEF Starred
    <3>6. Choosing(p, << >>)  BY <3>3, <3>4, <3>5 DEF Choosing
    <3>7. ItemOpen("item", << >>)  BY DEF ItemOpen
    <3> QED  BY <3>2, <3>6, <3>7 DEF State
  <2>4. CASE l \in {"where", "group"}
    <3>1. P!Rule(l).otherwise \in {"group", "order"}  BY <2>4, SelectRules
    <3>2. Word(P!Rule(l).otherwise, Types(c))  BY <1>2, <2>4, <3>1 DEF Word
    <3> QED  BY <1>2, <3>2 DEF State
  <2>5. CASE l = "order"
    <3>1. P!Rule(l).otherwise = "done"  BY <2>5, SelectRules
    <3>2. Types(c) = <<"FROM", "IDENT">>  BY <1>2, <2>5 DEF Word
    <3>3. IsClause(c) /\ c[1].type = "FROM"  BY <2>1, <3>2, FromIsClause
    <3>4. IsSelect(p)  BY <1>2, <3>3, SelectIs
    <3> QED  BY <3>1, <3>4 DEF State, IsStmt
  <2> QED  BY <1>2, <2>2, <2>3, <2>4, <2>5 DEF Word
<1>3. ASSUME NEW o, ColumnOpen(l, o), Creating(p, o)
      PROVE  State(P!Rule(l).otherwise, p)
  <2>1. l \notin {"col_name", "col_type", "create_close"}  BY CreateRules
  <2>2. l = "col_more" /\ o \in Columns  BY <1>3, <2>1 DEF ColumnOpen
  <2>3. P!Rule(l).otherwise = "create_close"  BY <2>2, CreateRules
  <2>4. ColumnOpen("create_close", o)  BY <2>2 DEF ColumnOpen
  <2> QED  BY <1>3, <2>3, <2>4 DEF State
<1>4. ASSUME NEW o, ValueOpen(l, o), Inserting(p, o)
      PROVE  State(P!Rule(l).otherwise, p)
  <2>1. l \notin {"value", "insert_close"}  BY InsertRules
  <2>2. l = "value_more" /\ o \in Values  BY <1>4, <2>1 DEF ValueOpen
  <2>3. P!Rule(l).otherwise = "insert_close"  BY <2>2, InsertRules
  <2>4. ValueOpen("insert_close", o)  BY <2>2 DEF ValueOpen
  <2> QED  BY <1>4, <2>3, <2>4 DEF State
<1>5. ASSUME NEW o, ItemOpen(l, o), Choosing(p, o)
      PROVE  State(P!Rule(l).otherwise, p)
  <2>1. l \notin {"agg_open", "agg_col", "agg_close", "item_col", "alias", "from"}
    BY ItemRules, SelectRules
  <2>2. CASE l = "item"
    <3>1. P!Rule(l).otherwise = "item_col"  BY <2>2, ItemRules
    <3>2. ItemOpen("item_col", o)  BY <1>5, <2>2 DEF ItemOpen
    <3> QED  BY <1>5, <3>1, <3>2 DEF State
  <2>3. CASE l = "as"
    <3>1. P!Rule(l).otherwise = "item_more"  BY <2>3, ItemRules
    <3>2. o \in Items  BY <1>5, <2>3 DEF ItemOpen, Items
    <3>3. ItemOpen("item_more", o)  BY <3>2 DEF ItemOpen
    <3> QED  BY <1>5, <3>1, <3>3 DEF State
  <2>4. CASE l = "item_more"
    <3>1. P!Rule(l).otherwise = "from"  BY <2>4, ItemRules
    <3>2. o \in Items  BY <1>5, <2>4 DEF ItemOpen
    <3>3. ItemOpen("from", o)  BY <3>2 DEF ItemOpen
    <3> QED  BY <1>5, <3>1, <3>3 DEF State
  <2> QED  BY <1>5, <2>1, <2>2, <2>3, <2>4 DEF ItemOpen
<1>6. ASSUME NEW o, ConditionOpen(l, o), Filtering(p, o)
      PROVE  State(P!Rule(l).otherwise, p)
  <2>1. l \notin {"left", "op", "right"}  BY ConditionRules
  <2>2. l \in {"where_more", "group", "order"} /\ o \in Conditions
    BY <1>6, <2>1 DEF ConditionOpen
  <2>3. CASE l \in {"where_more", "group"}
    <3>1. P!Rule(l).otherwise \in {"group", "order"}  BY <2>3, SelectRules
    <3>2. ConditionOpen(P!Rule(l).otherwise, o)  BY <2>2, <3>1 DEF ConditionOpen
    <3> QED  BY <1>6, <3>2 DEF State
  <2>4. CASE l = "order"
    <3>1. P!Rule(l).otherwise = "done"  BY <2>4, SelectRules
    <3>2. IsStmt(p)  BY <1>6, <2>2, Frames, ListingIsStmt DEF Filtering
    <3> QED  BY <3>1, <3>2 DEF State
  <2> QED  BY <2>2, <2>3, <2>4
<1>7. ASSUME NEW o, NameOpen(l, o), Grouping(p, o)
      PROVE  State(P!Rule(l).otherwise, p)
  <2>1. l # "group_col"  BY SelectRules
  <2>2. l \in {"group_more", "order"} /\ o = <<"IDENT">>  BY <1>7, <2>1 DEF NameOpen
  <2>3. CASE l = "group_more"
    <3>1. P!Rule(l).otherwise = "order"  BY <2>3, SelectRules
    <3>2. NameOpen("order", o)  BY <2>2 DEF NameOpen
    <3> QED  BY <1>7, <3>1, <3>2 DEF State
  <2>4. CASE l = "order"
    <3>1. P!Rule(l).otherwise = "done"  BY <2>4, SelectRules
    <3>2. o \in {<<"IDENT">>}  BY <2>2
    <3>3. IsStmt(p)  BY <1>7, <3>2, Frames, ListingIsStmt DEF Grouping
    <3> QED  BY <3>1, <3>3 DEF State
  <2> QED  BY <2>2, <2>3, <2>4
<1>8. ASSUME NEW o, KeyOpen(l, o), Ordering(p, o)
      PROVE  State(P!Rule(l).otherwise, p)
  <2>1. l # "order_col"  BY SelectRules
  <2>2. CASE l = "order_desc"
    <3>1. P!Rule(l).otherwise = "order_asc"  BY <2>2, SelectRules
    <3>2. KeyOpen("order_asc", o)  BY <1>8, <2>2 DEF KeyOpen
    <3> QED  BY <1>8, <3>1, <3>2 DEF State
  <2>3. CASE l = "order_asc"
    <3>1. P!Rule(l).otherwise = "order_more"  BY <2>3, SelectRules
    <3>2. o \in Keys  BY <1>8, <2>3 DEF KeyOpen, Keys
    <3>3. KeyOpen("order_more", o)  BY <3>2 DEF KeyOpen
    <3> QED  BY <1>8, <3>1, <3>3 DEF State
  <2>4. CASE l = "order_more"
    <3>1. P!Rule(l).otherwise = "done"  BY <2>4, SelectRules
    <3>2. o \in Keys  BY <1>8, <2>4 DEF KeyOpen
    <3>3. IsStmt(p)  BY <1>8, <3>2, Frames, ListingIsStmt DEF Ordering
    <3> QED  BY <3>1, <3>3 DEF State
  <2> QED  BY <1>8, <2>1, <2>2, <2>3, <2>4 DEF KeyOpen
<1>9. l # "done"  BY LabelsOf DEF P!Labels, P!Methods
<1> QED  BY <1>1, <1>2, <1>3, <1>4, <1>5, <1>6, <1>7, <1>8, <1>9 DEF State

\* What can follow and is not asked for is asked for where the parser goes on.
LEMMA AcceptsGoesOn ==
  ASSUME NEW l \in P!Labels, NEW x, Accepts(l, x), x \notin P!Rule(l).types
  PROVE  P!Rule(l).otherwise # "error" /\ Accepts(P!Rule(l).otherwise, x)
<1> USE DEF Asks
<1>1. CASE l \in {"parse", "insert"} /\ x \in {"INSERT", "SELECT"}
  BY <1>1, ParseRules DEF Accepts
<1>2. CASE l \in {"col_more", "value_more"} /\ x = "RPAREN"
  BY <1>2, CreateRules, InsertRules DEF Accepts
<1>3. CASE l = "star" /\ x \in {"IDENT"} \cup Aggregates
  BY <1>3, SelectRules, ItemRules DEF Accepts
<1>4. CASE l = "item" /\ x = "IDENT"
  BY <1>4, ItemRules DEF Accepts
<1>5. CASE l = "as" /\ x \in {"COMMA", "FROM"}
  BY <1>5, ItemRules DEF Accepts
<1>6. CASE l = "item_more" /\ x = "FROM"
  BY <1>6, ItemRules, SelectRules DEF Accepts
<1>7. CASE l \in {"where", "where_more"} /\ x \in {"GROUP", "ORDER"}
  BY <1>7, SelectRules DEF Accepts
<1>8. CASE l \in {"group", "group_more"} /\ x = "ORDER"
  BY <1>8, SelectRules DEF Accepts
<1>9. CASE l = "order_desc" /\ x \in {"ASC", "COMMA"}
  BY <1>9, SelectRules DEF Accepts
<1>10. CASE l = "order_asc" /\ x = "COMMA"
  BY <1>10, SelectRules DEF Accepts
<1> QED
  BY <1>1, <1>2, <1>3, <1>4, <1>5, <1>6, <1>7, <1>8, <1>9, <1>10 DEF Accepts

----------------------------------------------------------------------------
(* What a statement can go on with where the parser has just come to a label *)

\* The labels a token leads to; to the others the parser goes on without one.
Reached(l) ==
  l \notin {"insert", "select", "create_close", "insert_close", "item_col", "group",
            "order", "order_asc"}

LEMMA NextIsReached ==
  ASSUME NEW l \in P!Labels
  PROVE  Reached(P!Rule(l).next)
<1> USE DEF Asks, Reached
<1>1. CASE l \in DOMAIN P!parse  BY <1>1, ParseRules, LabelsOf
<1>2. CASE l \in DOMAIN P!parse_create  BY <1>2, CreateRules, LabelsOf
<1>3. CASE l \in DOMAIN P!parse_insert  BY <1>3, InsertRules, LabelsOf
<1>4. CASE l \in DOMAIN P!parse_select  BY <1>4, SelectRules, LabelsOf
<1>5. CASE l \in DOMAIN P!parse_select_item  BY <1>5, ItemRules, LabelsOf
<1>6. CASE l \in DOMAIN P!parse_condition  BY <1>6, ConditionRules, LabelsOf
<1> QED  BY <1>1, <1>2, <1>3, <1>4, <1>5, <1>6 DEF P!Labels, P!Methods

LEMMA PrefixFollow ==
  ASSUME NEW T, NEW p \in Seq(T), NEW e \in Seq(T), e # << >>, NEW l, Reached(l),
         Prefix(l, Types(p)), IsStmt(p \o e)
  PROVE  Accepts(l, e[1].type)
<1>1. PICK n \in Nat : n = Len(p)  BY LenProperties
<1>2. PICK y : y = Types(p)  OBVIOUS
<1>3. Len(y) = n /\ \A i \in 1 .. n : y[i] = p[i].type  BY <1>1, <1>2, TypesAre
<1>4. p \o e \in Seq(T)  BY ConcatProperties
<1>5. \/ (p \o e)[1].type = "CREATE" /\ Closed(p \o e, CreateHead, Columns)
      \/ (p \o e)[1].type = "INSERT" /\ Closed(p \o e, InsertHead, Values)
      \/ (p \o e)[1].type = "SELECT" /\ IsSelect(p \o e)
  BY <1>4, StmtOf
<1>6. n > 0 => (p \o e)[1] = p[1] /\ y[1] = p[1].type
  <2> SUFFICES ASSUME n > 0  PROVE (p \o e)[1] = p[1] /\ y[1] = p[1].type
    OBVIOUS
  <2>1. p # << >>  BY <1>1, EmptySeq
  <2>2. 1 \in 1 .. n  OBVIOUS
  <2> QED  BY <1>3, <2>1, <2>2, FirstStays
<1>7. n < 4 /\ n > 0 /\ y[1] = "CREATE" => e[1].type = CreateHead[n + 1]
  <2> SUFFICES ASSUME n < 4, n > 0, y[1] = "CREATE"  PROVE e[1].type = CreateHead[n + 1]
    OBVIOUS
  <2>1. Closed(p \o e, CreateHead, Columns)  BY <1>5, <1>6
  <2>2. PICK head : head = CreateHead  OBVIOUS
  <2>3. /\ DOMAIN head = 1 .. Len(head) /\ Len(head) \in Nat /\ Len(p) < Len(head)
        /\ Closed(p \o e, head, Columns)
    BY <1>1, <2>1, <2>2, HeadsOfKinds
  <2>4. e[1].type = head[Len(p) + 1]  BY <2>3, HeadFollow
  <2> QED  BY <1>1, <2>2, <2>4
<1>8. n < 5 /\ n > 0 /\ y[1] = "INSERT" => e[1].type = InsertHead[n + 1]
  <2> SUFFICES ASSUME n < 5, n > 0, y[1] = "INSERT"  PROVE e[1].type = InsertHead[n + 1]
    OBVIOUS
  <2>1. Closed(p \o e, InsertHead, Values)  BY <1>5, <1>6
  <2>2. PICK head : head = InsertHead  OBVIOUS
  <2>3. /\ DOMAIN head = 1 .. Len(head) /\ Len(head) \in Nat /\ Len(p) < Len(head)
        /\ Closed(p \o e, head, Values)
    BY <1>1, <2>1, <2>2, HeadsOfKinds
  <2>4. e[1].type = head[Len(p) + 1]  BY <2>3, HeadFollow
  <2> QED  BY <1>1, <2>2, <2>4
<1> USE DEF Asks
<1>9. CASE l = "parse"
  <2>1. y = << >>  BY <1>2, <1>9 DEF Prefix
  <2>2. n = 0  BY <1>3, <2>1
  <2>3. (p \o e)[1] = e[1]
    <3>1. (p \o e)[n + 1] = e[1]  BY <1>1, FirstBehind
    <3>2. n + 1 = 1  BY <2>2
    <3> QED  BY <3>1, <3>2
  <2> QED  BY <1>5, <1>9, <2>3, ParseRules DEF Accepts
<1>10. CASE l = "table"
  <2>1. y = <<"CREATE">>  BY <1>2, <1>10 DEF Prefix
  <2>2. n = 1 /\ y[1] = "CREATE"  BY <1>3, <2>1
  <2>3. e[1].type = "TABLE"  BY <1>7, <2>2, HeadsOfKinds
  <2> QED  BY <1>10, <2>3, CreateRules DEF Accepts
<1>11. CASE l = "create_name"
  <2>1. y = <<"CREATE", "TABLE">>  BY <1>2, <1>11 DEF Prefix
  <2>2. n = 2 /\ y[1] = "CREATE"  BY <1>3, <2>1
  <2>3. e[1].type = "IDENT"  BY <1>7, <2>2, HeadsOfKinds
  <2> QED  BY <1>11, <2>3, CreateRules DEF Accepts
<1>12. CASE l = "create_open"
  <2>1. y = <<"CREATE", "TABLE", "IDENT">>  BY <1>2, <1>12 DEF Prefix
  <2>2. n = 3 /\ y[1] = "CREATE"  BY <1>3, <2>1
  <2>3. e[1].type = "LPAREN"  BY <1>7, <2>2, HeadsOfKinds
  <2> QED  BY <1>12, <2>3, CreateRules DEF Accepts
<1>13. CASE l = "into"
  <2>1. y = <<"INSERT">>  BY <1>2, <1>13 DEF Prefix
  <2>2. n = 1 /\ y[1] = "INSERT"  BY <1>3, <2>1
  <2>3. e[1].type = "INTO"  BY <1>8, <2>2, HeadsOfKinds
  <2> QED  BY <1>13, <2>3, InsertRules DEF Accepts
<1>14. CASE l = "insert_name"
  <2>1. y = <<"INSERT", "INTO">>  BY <1>2, <1>14 DEF Prefix
  <2>2. n = 2 /\ y[1] = "INSERT"  BY <1>3, <2>1
  <2>3. e[1].type = "IDENT"  BY <1>8, <2>2, HeadsOfKinds
  <2> QED  BY <1>14, <2>3, InsertRules DEF Accepts
<1>15. CASE l = "values"
  <2>1. y = <<"INSERT", "INTO", "IDENT">>  BY <1>2, <1>15 DEF Prefix
  <2>2. n = 3 /\ y[1] = "INSERT"  BY <1>3, <2>1
  <2>3. e[1].type = "VALUES"  BY <1>8, <2>2, HeadsOfKinds
  <2> QED  BY <1>15, <2>3, InsertRules DEF Accepts
<1>16. CASE l = "insert_open"
  <2>1. y = <<"INSERT", "INTO", "IDENT", "VALUES">>  BY <1>2, <1>16 DEF Prefix
  <2>2. n = 4 /\ y[1] = "INSERT"  BY <1>3, <2>1
  <2>3. e[1].type = "LPAREN"  BY <1>8, <2>2, HeadsOfKinds
  <2> QED  BY <1>16, <2>3, InsertRules DEF Accepts
<1> QED
  BY <1>9, <1>10, <1>11, <1>12, <1>13, <1>14, <1>15, <1>16 DEF Prefix, Reached

\* Behind the head of CREATE or INSERT the kind of the statement is known.
LEMMA HeadKind ==
  ASSUME NEW T, NEW p \in Seq(T), NEW e \in Seq(T), IsStmt(p \o e)
  PROVE  /\ Begins(p, CreateHead) => Closed(p \o e, CreateHead, Columns)
         /\ Begins(p, InsertHead) => Closed(p \o e, InsertHead, Values)
<1>1. PICK n \in Nat : n = Len(p)  BY LenProperties
<1>2. p \o e \in Seq(T)  BY ConcatProperties
<1>3. \/ (p \o e)[1].type = "CREATE" /\ Closed(p \o e, CreateHead, Columns)
      \/ (p \o e)[1].type = "INSERT" /\ Closed(p \o e, InsertHead, Values)
      \/ (p \o e)[1].type = "SELECT" /\ IsSelect(p \o e)
  BY <1>2, StmtOf
<1>4. ASSUME Begins(p, CreateHead)  PROVE Closed(p \o e, CreateHead, Columns)
  <2>1. n >= 4 /\ p[1].type = "CREATE"
    <3>1. n >= 4 /\ \A i \in 1 .. 4 : p[i].type = CreateHead[i]
      BY <1>1, <1>4, HeadsOfKinds DEF Begins
    <3>2. 1 \in 1 .. 4  OBVIOUS
    <3> QED  BY <3>1, <3>2, HeadsOfKinds
  <2>2. p # << >>  BY <1>1, <2>1, EmptySeq
  <2>3. (p \o e)[1].type = "CREATE"  BY <2>1, <2>2, FirstStays
  <2> QED  BY <1>3, <2>3
<1>5. ASSUME Begins(p, InsertHead)  PROVE Closed(p \o e, InsertHead, Values)
  <2>1. n >= 5 /\ p[1].type = "INSERT"
    <3>1. n >= 5 /\ \A i \in 1 .. 5 : p[i].type = InsertHead[i]
      BY <1>1, <1>5, HeadsOfKinds DEF Begins
    <3>2. 1 \in 1 .. 5  OBVIOUS
    <3> QED  BY <3>1, <3>2, HeadsOfKinds
  <2>2. p # << >>  BY <1>1, <2>1, EmptySeq
  <2>3. (p \o e)[1].type = "INSERT"  BY <2>1, <2>2, FirstStays
  <2> QED  BY <1>3, <2>3
<1> QED  BY <1>4, <1>5

LEMMA ColumnsFollow ==
  ASSUME NEW T, NEW p \in Seq(T), NEW e \in Seq(T), e # << >>, NEW o, Creating(p, o),
         IsStmt(p \o e)
  PROVE  \/ e[1].type = "RPAREN" /\ o \in Columns
         \/ MayFollow(e[1].type, o, "COMMA", Columns)
<1>1. Begins(p, CreateHead)  BY DEF Creating, InBrackets
<1>2. Closed(p \o e, CreateHead, Columns)  BY <1>1, HeadKind
<1>3. DOMAIN CreateHead = 1 .. Len(CreateHead) /\ Len(CreateHead) \in Nat
  BY HeadsOfKinds
<1> QED  BY <1>2, <1>3, BracketsFollow DEF Creating

LEMMA ValuesFollow ==
  ASSUME NEW T, NEW p \in Seq(T), NEW e \in Seq(T), e # << >>, NEW o, Inserting(p, o),
         IsStmt(p \o e)
  PROVE  \/ e[1].type = "RPAREN" /\ o \in Values
         \/ MayFollow(e[1].type, o, "COMMA", Values)
<1>1. Begins(p, InsertHead)  BY DEF Inserting, InBrackets
<1>2. Closed(p \o e, InsertHead, Values)  BY <1>1, HeadKind
<1>3. DOMAIN InsertHead = 1 .. Len(InsertHead) /\ Len(InsertHead) \in Nat
  BY HeadsOfKinds
<1> QED  BY <1>2, <1>3, BracketsFollow DEF Inserting

LEMMA CreatingFollow ==
  ASSUME NEW T, NEW p \in Seq(T), NEW e \in Seq(T), e # << >>, NEW l, Reached(l),
         NEW o, ColumnOpen(l, o), Creating(p, o), IsStmt(p \o e)
  PROVE  Accepts(l, e[1].type)
<1> USE DEF Asks
<1>1. PICK x : x = e[1].type  OBVIOUS
<1>2. \/ x = "RPAREN" /\ o \in Columns
      \/ MayFollow(x, o, "COMMA", Columns)
  BY <1>1, ColumnsFollow
<1>3. << >> \notin Columns /\ <<"IDENT">> \notin Columns  BY DEF Columns
<1>4. CASE l = "col_name"
  <2>1. o = << >>  BY <1>4 DEF ColumnOpen
  <2>2. x = "IDENT"  BY <1>2, <1>3, <2>1, ColumnFollow
  <2> QED  BY <1>1, <1>4, <2>2, CreateRules DEF Accepts
<1>5. CASE l = "col_type"
  <2>1. o = <<"IDENT">>  BY <1>5 DEF ColumnOpen
  <2>2. x \in TypeNames  BY <1>2, <1>3, <2>1, ColumnFollow
  <2> QED  BY <1>1, <1>5, <2>2, CreateRules DEF Accepts
<1>6. CASE l = "col_more"
  <2>1. o \in Columns  BY <1>6 DEF ColumnOpen
  <2>2. x \in {"COMMA", "RPAREN"}  BY <1>2, <2>1, ColumnFollow
  <2> QED  BY <1>1, <1>6, <2>2, CreateRules DEF Accepts
<1> QED  BY <1>4, <1>5, <1>6 DEF ColumnOpen, Reached

LEMMA InsertingFollow ==
  ASSUME NEW T, NEW p \in Seq(T), NEW e \in Seq(T), e # << >>, NEW l, Reached(l),
         NEW o, ValueOpen(l, o), Inserting(p, o), IsStmt(p \o e)
  PROVE  Accepts(l, e[1].type)
<1> USE DEF Asks
<1>1. PICK x : x = e[1].type  OBVIOUS
<1>2. \/ x = "RPAREN" /\ o \in Values
      \/ MayFollow(x, o, "COMMA", Values)
  BY <1>1, ValuesFollow
<1>3. << >> \notin Values  BY DEF Values
<1>4. CASE l = "value"
  <2>1. o = << >>  BY <1>4 DEF ValueOpen
  <2>2. x \in Literals  BY <1>2, <1>3, <2>1, ValueFollow
  <2> QED  BY <1>1, <1>4, <2>2, InsertRules DEF Accepts
<1>5. CASE l = "value_more"
  <2>1. o \in Values  BY <1>5 DEF ValueOpen
  <2>2. x \in {"COMMA", "RPAREN"}  BY <1>2, <2>1, ValueFollow
  <2> QED  BY <1>1, <1>5, <2>2, InsertRules DEF Accepts
<1> QED  BY <1>4, <1>5 DEF ValueOpen, Reached

\* Nothing follows the bracket that closes a statement.
LEMMA DoneFollow ==
  ASSUME NEW T, NEW p \in Seq(T), NEW e \in Seq(T), e # << >>, NEW t,
         Creating(p, <<"IDENT", t, "RPAREN">>) \/ Inserting(p, <<t, "RPAREN">>),
         IsStmt(p \o e)
  PROVE  FALSE
<1>1. CASE Creating(p, <<"IDENT", t, "RPAREN">>)
  <2>1. PICK o : o = <<"IDENT", t, "RPAREN">>  OBVIOUS
  <2>2. o \notin Columns  BY <2>1 DEF Columns
  <2>3. MayFollow(e[1].type, o, "COMMA", Columns)
    BY <1>1, <2>1, <2>2, ColumnsFollow
  <2> QED  BY <2>1, <2>3, ColumnFollow
<1>2. CASE Inserting(p, <<t, "RPAREN">>)
  <2>1. PICK o : o = <<t, "RPAREN">>  OBVIOUS
  <2>2. o \notin Values  BY <2>1 DEF Values
  <2>3. MayFollow(e[1].type, o, "COMMA", Values)
    BY <1>2, <2>1, <2>2, ValuesFollow
  <2> QED  BY <2>1, <2>3, ValueFollow
<1> QED  BY <1>1, <1>2

----------------------------------------------------------------------------
(* The clauses of a SELECT that is going on *)

LEMMA SelectGoesOn ==
  ASSUME NEW T, NEW p \in Seq(T), NEW e \in Seq(T), NEW c, InSelect(p, c),
         IsStmt(p \o e)
  PROVE  IsSelect(p \o e)
<1>1. p \o e \in Seq(T)  BY ConcatProperties
<1>2. p[1].type = "SELECT" /\ Len(p) >= Len(c) /\ Len(c) >= 1 /\ p # << >>
  <2>1. p[1].type = "SELECT" /\ Len(p) >= Len(c) /\ Len(c) >= 1 /\ c \in Seq(T)
    BY InSelectIs
  <2>2. PICK n \in Nat : n = Len(p)  BY LenProperties
  <2>3. PICK m \in Nat : m = Len(c)  BY <2>1, LenProperties
  <2>4. n >= m /\ m >= 1  BY <2>1, <2>2, <2>3
  <2>5. n # 0  BY <2>4
  <2> QED  BY <2>1, <2>2, <2>5, EmptySeq
<1>3. (p \o e)[1].type = "SELECT"  BY <1>2, FirstStays
<1> QED  BY <1>1, <1>3, StmtOf

LEMMA ListingFollow ==
  ASSUME NEW T, NEW p \in Seq(T), NEW e \in Seq(T), e # << >>, NEW begin,
         NEW separator, NEW shapes, NEW o, Framed(begin, separator, shapes),
         Listing(p, begin, separator, shapes, o), begin[1] # "SELECT",
         IsStmt(p \o e)
  PROVE  \/ /\ IsHead(e[1]) /\ o \in shapes /\ Rank[begin[1]] < Rank[e[1].type]
         \/ ~IsHead(e[1]) /\ MayFollow(e[1].type, o, separator, shapes)
<1>1. PICK c : InList(p, c, begin, separator, shapes, o)  BY DEF Listing
<1>2. IsSelect(p \o e)  BY <1>1, SelectGoesOn DEF InList
<1> QED  BY <1>1, <1>2, ListFollow

LEMMA ChoosingFollow ==
  ASSUME NEW T, NEW p \in Seq(T), NEW e \in Seq(T), e # << >>, NEW o, Choosing(p, o),
         IsStmt(p \o e), Len(p) = 1 => e[1].type # "STAR"
  PROVE  \/ e[1].type = "FROM" /\ o \in Items
         \/ MayFollow(e[1].type, o, "COMMA", Items)
<1>1. PICK begin : begin = <<"SELECT">>  OBVIOUS
<1>2. PICK c : InList(p, c, begin, "COMMA", Items, o)  BY <1>1 DEF Choosing
<1>3. Framed(begin, "COMMA", Items) /\ begin[1] = "SELECT"  BY <1>1, Frames
<1>4. IsSelect(p \o e)  BY <1>2, SelectGoesOn DEF InList
<1>5. c = p /\ Len(p) \in Nat /\ Len(p) >= 1  BY <1>1, <1>2, ChoosingIs
<1>6. IF Len(c) = 1 THEN e[1].type # "STAR" ELSE c[2].type # "STAR"
  <2>1. Len(p) > 1 => p[2].type # "STAR"  BY DEF Choosing, Starred
  <2>2. PICK n \in Nat : n = Len(p)  BY <1>5
  <2>3. n = 1 \/ n > 1  BY <1>5, <2>2
  <2> QED  BY <1>5, <2>1, <2>2, <2>3
<1> QED  BY <1>2, <1>3, <1>4, <1>6, ListFollow

LEMMA ItemsFollow ==
  ASSUME NEW T, NEW p \in Seq(T), NEW e \in Seq(T), e # << >>, NEW l, Reached(l),
         NEW o, ItemOpen(l, o), Choosing(p, o), IsStmt(p \o e),
         l = "item" => Len(p) > 1, l = "item_more" => o \in Aliased, l # "from"
  PROVE  Accepts(l, e[1].type)
<1> USE DEF Asks
<1>1. PICK x : x = e[1].type  OBVIOUS
<1>2. Len(p) = 1 => o = << >>
  <2> SUFFICES ASSUME Len(p) = 1  PROVE o = << >>
    OBVIOUS
  <2>1. PICK begin : begin = <<"SELECT">>  OBVIOUS
  <2>2. PICK c : InList(p, c, begin, "COMMA", Items, o)  BY <2>1 DEF Choosing
  <2>3. c = p  BY <2>1, <2>2, ChoosingIs
  <2>4. PICK n \in Nat : n = 1 /\ n = Len(begin)  BY <2>1
  <2>5. After(c, n) = << >>
    <3>1. c \in Seq(T)  BY <2>3
    <3>2. n = Len(c)  BY <2>3, <2>4
    <3>3. n >= Len(c)  BY <3>2
    <3> QED  BY <3>1, <3>3, AfterIs
  <2>6. IsOpen(<< >>, "COMMA", Items, o)  BY <2>2, <2>4, <2>5 DEF InList
  <2>7. IsOpen(<< >>, "COMMA", Items, << >>)  BY OpenNone
  <2> QED  BY <2>6, <2>7 DEF IsOpen
<1>3. /\ << >> \notin Items
      /\ \A a \in Aggregates : /\ <<a>> \notin Items /\ <<a, "LPAREN">> \notin Items
                               /\ <<a, "LPAREN", "IDENT">> \notin Items
      /\ \A q \in Plain : Append(q, "AS") \notin Items
  <2>0. "IDENT" \notin Aggregates  BY DEF Aggregates
  <2>1. << >> \notin Items  BY ItemsAre
  <2>2. \A a \in Aggregates : /\ <<a>> \notin Items /\ <<a, "LPAREN">> \notin Items
                              /\ <<a, "LPAREN", "IDENT">> \notin Items
    BY <2>0, ItemsAre
  <2>3. ASSUME NEW q \in Plain  PROVE Append(q, "AS") \notin Items
    <3>1. CASE q = <<"IDENT">>
      <4>1. PICK r : r = <<"IDENT", "AS">>  OBVIOUS
      <4>2. r \notin Items
        <5> SUFFICES ASSUME r \in Items  PROVE FALSE
          OBVIOUS
        <5>1. Len(r) = 2  BY <4>1
        <5>2. PICK k \in {1, 3, 4, 6} : k = Len(r)  BY ItemsAre
        <5> QED  BY <5>1, <5>2
      <4>3. Append(q, "AS") = r  BY <3>1, <4>1, Append2
      <4> QED  BY <4>2, <4>3
    <3>2. CASE \E a \in Aggregates : q = <<a, "LPAREN", "IDENT", "RPAREN">>
      <4>1. PICK a \in Aggregates : q = <<a, "LPAREN", "IDENT", "RPAREN">>  BY <3>2
      <4>2. PICK r : r = <<a, "LPAREN", "IDENT", "RPAREN", "AS">>  OBVIOUS
      <4>3. r \notin Items
        <5> SUFFICES ASSUME r \in Items  PROVE FALSE
          OBVIOUS
        <5>1. Len(r) = 5  BY <4>2
        <5>2. PICK k \in {1, 3, 4, 6} : k = Len(r)  BY ItemsAre
        <5> QED  BY <5>1, <5>2
      <4>4. Append(q, "AS") = r  BY <4>1, <4>2, Append5
      <4> QED  BY <4>3, <4>4
    <3> QED  BY <3>1, <3>2 DEF Plain
  <2> QED  BY <2>1, <2>2, <2>3
<1>4. o # << >> \/ l = "item" =>
        (x = "FROM" /\ o \in Items) \/ MayFollow(x, o, "COMMA", Items)
  <2>1. o # << >> \/ l = "item" => Len(p) # 1
    <3>1. PICK n \in Nat : n = Len(p)  BY LenProperties
    <3>2. ASSUME l = "item"  PROVE n # 1
      <4>1. Len(p) > 1  BY <3>2
      <4>2. n > 1  BY <3>1, <4>1
      <4> QED  BY <4>2
    <3> QED  BY <1>2, <3>1, <3>2
  <2> QED  BY <1>1, <2>1, ChoosingFollow
<1>5. CASE l = "item"
  <2>1. o = << >>  BY <1>5 DEF ItemOpen
  <2>2. x \in {"IDENT"} \cup Aggregates  BY <1>3, <1>4, <1>5, <2>1, ItemFollow
  <2> QED  BY <1>1, <1>5, <2>2, ItemRules DEF Accepts
<1>6. CASE l = "agg_open"
  <2>1. PICK a \in Aggregates : o = <<a>>  BY <1>6 DEF ItemOpen
  <2>2. MayFollow(x, o, "COMMA", Items)  BY <1>3, <1>4, <2>1
  <2>3. x = "LPAREN"  BY <2>1, <2>2, ItemFollow
  <2> QED  BY <1>1, <1>6, <2>3, ItemRules DEF Accepts
<1>7. CASE l = "agg_col"
  <2>1. PICK a \in Aggregates : o = <<a, "LPAREN">>  BY <1>7 DEF ItemOpen
  <2>2. MayFollow(x, o, "COMMA", Items)  BY <1>3, <1>4, <2>1
  <2>3. x = "IDENT"  BY <2>1, <2>2, ItemFollow
  <2> QED  BY <1>1, <1>7, <2>3, ItemRules DEF Accepts
<1>8. CASE l = "agg_close"
  <2>1. PICK a \in Aggregates : o = <<a, "LPAREN", "IDENT">>  BY <1>8 DEF ItemOpen
  <2>2. MayFollow(x, o, "COMMA", Items)  BY <1>3, <1>4, <2>1
  <2>3. x = "RPAREN"  BY <2>1, <2>2, ItemFollow
  <2> QED  BY <1>1, <1>8, <2>3, ItemRules DEF Accepts
<1>9. CASE l = "as"
  <2>1. o \in Plain  BY <1>9 DEF ItemOpen
  <2>2. o # << >>  BY <1>3, <2>1 DEF Items
  <2>3. x \in {"AS", "COMMA", "FROM"}  BY <1>4, <2>1, <2>2, ItemFollow
  <2> QED  BY <1>1, <1>9, <2>3, ItemRules DEF Accepts
<1>10. CASE l = "alias"
  <2>1. PICK q \in Plain : o = Append(q, "AS")  BY <1>10 DEF ItemOpen
  <2>2. o \notin Items  BY <1>3, <2>1
  <2>3. o # << >>
    <3>1. CASE q = <<"IDENT">>  BY <2>1, <3>1, Append2
    <3>2. CASE \E a \in Aggregates : q = <<a, "LPAREN", "IDENT", "RPAREN">>
      <4>1. PICK a \in Aggregates : q = <<a, "LPAREN", "IDENT", "RPAREN">>  BY <3>2
      <4>2. o = <<a, "LPAREN", "IDENT", "RPAREN", "AS">>  BY <2>1, <4>1, Append5
      <4> QED  BY <4>2
    <3> QED  BY <3>1, <3>2 DEF Plain
  <2>4. MayFollow(x, o, "COMMA", Items)  BY <1>4, <2>2, <2>3
  <2>5. x = "IDENT"  BY <2>1, <2>4, ItemFollow
  <2> QED  BY <1>1, <1>10, <2>5, ItemRules DEF Accepts
<1>11. CASE l = "item_more"
  <2>1. o \in Aliased  BY <1>11
  <2>2. o # << >>  BY <1>3, <2>1 DEF Items
  <2>3. x \in {"COMMA", "FROM"}  BY <1>4, <2>1, <2>2, ItemFollow
  <2> QED  BY <1>1, <1>11, <2>3, ItemRules DEF Accepts
<1> QED  BY <1>5, <1>6, <1>7, <1>8, <1>9, <1>10, <1>11 DEF ItemOpen, Reached

LEMMA ConditionsFollow ==
  ASSUME NEW T, NEW p \in Seq(T), NEW e \in Seq(T), e # << >>, NEW l, Reached(l),
         NEW o, ConditionOpen(l, o), Filtering(p, o), IsStmt(p \o e)
  PROVE  Accepts(l, e[1].type)
<1> USE DEF Asks
<1>1. PICK x : x = e[1].type  OBVIOUS
<1>2. PICK begin : begin = <<"WHERE">>  OBVIOUS
<1>3. /\ Framed(begin, "AND", Conditions) /\ begin[1] = "WHERE"
      /\ Listing(p, begin, "AND", Conditions, o)
  BY <1>2, Frames DEF Filtering
<1>4. \/ x \in {"GROUP", "ORDER"} /\ o \in Conditions
      \/ MayFollow(x, o, "AND", Conditions)
  <2>1. \/ /\ IsHead(e[1]) /\ o \in Conditions
           /\ Rank[begin[1]] < Rank[e[1].type]
        \/ ~IsHead(e[1]) /\ MayFollow(e[1].type, o, "AND", Conditions)
    BY <1>3, ListingFollow
  <2>2. IsHead(e[1]) /\ Rank["WHERE"] < Rank[e[1].type] => x \in {"GROUP", "ORDER"}
    BY <1>1, RanksAre DEF IsHead
  <2> QED  BY <1>1, <1>3, <2>1, <2>2
<1>5. /\ << >> \notin Conditions
      /\ \A a : <<a>> \notin Conditions
      /\ \A a, b : <<a, b>> \notin Conditions
  BY DEF Conditions
<1>6. CASE l = "left"
  <2>1. o = << >>  BY <1>6 DEF ConditionOpen
  <2>2. x \in Operands  BY <1>4, <1>5, <2>1, ConditionFollow
  <2> QED  BY <1>1, <1>6, <2>2, ConditionRules DEF Accepts
<1>7. CASE l = "op"
  <2>1. PICK a \in Operands : o = <<a>>  BY <1>7 DEF ConditionOpen
  <2>2. MayFollow(x, o, "AND", Conditions)  BY <1>4, <1>5, <2>1
  <2>3. x \in Comparisons  BY <2>1, <2>2, ConditionFollow
  <2> QED  BY <1>1, <1>7, <2>3, ConditionRules DEF Accepts
<1>8. CASE l = "right"
  <2>1. PICK a \in Operands, b \in Comparisons : o = <<a, b>>
    BY <1>8 DEF ConditionOpen
  <2>2. MayFollow(x, o, "AND", Conditions)  BY <1>4, <1>5, <2>1
  <2>3. x \in Operands  BY <2>1, <2>2, ConditionFollow
  <2> QED  BY <1>1, <1>8, <2>3, ConditionRules DEF Accepts
<1>9. CASE l = "where_more"
  <2>1. o \in Conditions  BY <1>9 DEF ConditionOpen
  <2>2. x \in {"AND", "GROUP", "ORDER"}  BY <1>4, <2>1, ConditionFollow
  <2> QED  BY <1>1, <1>9, <2>2, SelectRules DEF Accepts
<1> QED  BY <1>6, <1>7, <1>8, <1>9 DEF ConditionOpen, Reached

LEMMA NamesFollow ==
  ASSUME NEW T, NEW p \in Seq(T), NEW e \in Seq(T), e # << >>, NEW l, Reached(l),
         NEW o, NameOpen(l, o), Grouping(p, o), IsStmt(p \o e)
  PROVE  Accepts(l, e[1].type)
<1> USE DEF Asks
<1>1. PICK x : x = e[1].type  OBVIOUS
<1>2. PICK begin : begin = <<"GROUP", "BY">>  OBVIOUS
<1>3. PICK shapes : shapes = {<<"IDENT">>}  OBVIOUS
<1>4. /\ Framed(begin, "COMMA", shapes) /\ begin[1] = "GROUP"
      /\ Listing(p, begin, "COMMA", shapes, o)
  BY <1>2, <1>3, Frames DEF Grouping
<1>5. (x = "ORDER" /\ o \in shapes) \/ MayFollow(x, o, "COMMA", shapes)
  <2>1. \/ /\ IsHead(e[1]) /\ o \in shapes /\ Rank[begin[1]] < Rank[e[1].type]
        \/ ~IsHead(e[1]) /\ MayFollow(e[1].type, o, "COMMA", shapes)
    BY <1>4, ListingFollow
  <2>2. IsHead(e[1]) /\ Rank["GROUP"] < Rank[e[1].type] => x = "ORDER"
    BY <1>1, RanksAre DEF IsHead
  <2> QED  BY <1>1, <1>4, <2>1, <2>2
<1>6. CASE l = "group_col"
  <2>1. o = << >>  BY <1>6 DEF NameOpen
  <2>2. o \notin shapes  BY <1>3, <2>1
  <2>3. x = "IDENT"  BY <1>3, <1>5, <2>1, <2>2, NameFollow
  <2> QED  BY <1>1, <1>6, <2>3, SelectRules DEF Accepts
<1>7. CASE l = "group_more"
  <2>1. o = <<"IDENT">>  BY <1>7 DEF NameOpen
  <2>2. x \in {"COMMA", "ORDER"}  BY <1>3, <1>5, <2>1, NameFollow
  <2> QED  BY <1>1, <1>7, <2>2, SelectRules DEF Accepts
<1> QED  BY <1>6, <1>7 DEF NameOpen, Reached

LEMMA KeysFollow ==
  ASSUME NEW T, NEW p \in Seq(T), NEW e \in Seq(T), e # << >>, NEW l, Reached(l),
         NEW o, KeyOpen(l, o), Ordering(p, o), IsStmt(p \o e),
         l = "order_more" => \E b : o = <<"IDENT", b>>
  PROVE  Accepts(l, e[1].type)
<1> USE DEF Asks
<1>1. PICK x : x = e[1].type  OBVIOUS
<1>2. PICK begin : begin = <<"ORDER", "BY">>  OBVIOUS
<1>3. /\ Framed(begin, "COMMA", Keys) /\ begin[1] = "ORDER"
      /\ Listing(p, begin, "COMMA", Keys, o)
  BY <1>2, Frames DEF Ordering
<1>4. MayFollow(x, o, "COMMA", Keys)
  <2>1. \/ /\ IsHead(e[1]) /\ o \in Keys /\ Rank[begin[1]] < Rank[e[1].type]
        \/ ~IsHead(e[1]) /\ MayFollow(e[1].type, o, "COMMA", Keys)
    BY <1>3, ListingFollow
  <2>2. ~(IsHead(e[1]) /\ Rank["ORDER"] < Rank[e[1].type])
    BY RanksAre DEF IsHead
  <2> QED  BY <1>1, <1>3, <2>1, <2>2
<1>5. CASE l = "order_col"
  <2>1. o = << >>  BY <1>5 DEF KeyOpen
  <2>2. x = "IDENT"  BY <1>4, <2>1, KeyFollow
  <2> QED  BY <1>1, <1>5, <2>2, SelectRules DEF Accepts
<1>6. CASE l = "order_desc"
  <2>1. o = <<"IDENT">>  BY <1>6 DEF KeyOpen
  <2>2. x \in {"DESC", "ASC", "COMMA"}  BY <1>4, <2>1, KeyFollow
  <2> QED  BY <1>1, <1>6, <2>2, SelectRules DEF Accepts
<1>7. CASE l = "order_more"
  <2>1. x = "COMMA"  BY <1>4, <1>7, KeyFollow
  <2> QED  BY <1>1, <1>7, <2>1, SelectRules DEF Accepts
<1> QED  BY <1>5, <1>6, <1>7 DEF KeyOpen, Reached

----------------------------------------------------------------------------
(* The words in front of lists *)

LEMMA WordsFollow ==
  ASSUME NEW T, NEW p \in Seq(T), NEW e \in Seq(T), e # << >>, NEW l, Reached(l),
         NEW c, InSelect(p, c), Word(l, Types(c)), IsStmt(p \o e)
  PROVE  Accepts(l, e[1].type)
<1> USE DEF Asks
<1>1. c \in Seq(T)  BY InSelectIs
<1>2. PICK x : x = e[1].type  OBVIOUS
<1>3. \/ /\ IsHead(e[1]) /\ IsClause(c) /\ Rank[c[1].type] < Rank[x]
         /\ c[1].type = "SELECT" => x = "FROM"
      \/ /\ ~IsHead(e[1])
         /\ \E z \in Seq(T) : z # << >> /\ z[1] = e[1] /\ IsClause(c \o z)
  BY <1>2, SelectGoesOn, SelectFollow
<1>4. CASE l = "star"
  <2>1. Types(c) = <<"SELECT">>  BY <1>4 DEF Word
  <2>2. c[1].type = "SELECT" /\ Len(c) = 1  BY <1>1, <2>1, OneType
  <2>3. CASE x = "STAR"  BY <1>2, <1>4, <2>3, SelectRules DEF Accepts
  <2>4. CASE x # "STAR"
    <3>1. PICK begin : begin = <<"SELECT">>  OBVIOUS
    <3>2. InList(p, c, begin, "COMMA", Items, << >>)  BY <2>1, <3>1, ListStart
    <3>3. ~Starred(p)
      <4>1. Len(p) = 1  BY <2>2, InSelectIs
      <4> QED  BY <4>1 DEF Starred
    <3>4. Choosing(p, << >>)  BY <3>1, <3>2, <3>3 DEF Choosing
    <3>5. << >> \notin Items  BY ItemsAre
    <3>6. MayFollow(x, << >>, "COMMA", Items)
      BY <1>2, <2>4, <3>4, <3>5, ChoosingFollow
    <3>7. x \in {"IDENT"} \cup Aggregates  BY <3>6, ItemFollow
    <3> QED  BY <1>2, <1>4, <3>7 DEF Accepts
  <2> QED  BY <2>3, <2>4
<1>5. CASE l = "from"
  <2>1. Types(c) = <<"SELECT", "STAR">>  BY <1>5 DEF Word
  <2>2. c[1].type = "SELECT" /\ Types(After(c, 1)) = <<"STAR">>
    BY <1>1, <2>1, TwoTypes
  <2>3. ASSUME ~IsHead(e[1])  PROVE FALSE
    <3>1. PICK z \in Seq(T) : z # << >> /\ z[1] = e[1] /\ IsClause(c \o z)
      BY <1>3, <2>3
    <3>2. PICK n \in Nat : n = 1  OBVIOUS
    <3>3. PICK a : a = After(c, n)  OBVIOUS
    <3>4. a \in Seq(T) /\ Len(a) = 1 /\ a[1].type = "STAR"
      <4>1. a \in Seq(T)  BY <1>1, <3>3, AfterIs
      <4>2. Types(a) = <<"STAR">>  BY <2>2, <3>2, <3>3
      <4> QED  BY <4>1, <4>2, OneType
    <3>5. n <= Len(c) /\ c # << >>
      <4>1. Len(c) >= 1 /\ c # << >>  BY InSelectIs
      <4> QED  BY <3>2, <4>1
    <3>6. After(c \o z, n) = a \o z  BY <1>1, <3>1, <3>3, <3>5, AfterGoes
    <3>7. (c \o z)[1].type = "SELECT"  BY <1>1, <2>2, <3>1, <3>5, FirstStays
    <3>8. Types(a \o z) = <<"STAR">> \/ IsList(a \o z, "COMMA", Items)
      <4>1. Types(After(c \o z, 1)) = <<"STAR">>
              \/ IsList(After(c \o z, 1), "COMMA", Items)
        BY <3>1, <3>7 DEF IsClause
      <4> QED  BY <3>2, <3>6, <4>1
    <3>9. Types(a \o z) # <<"STAR">>
      <4>1. PICK m \in Nat : m = Len(z)  BY <3>1, LenProperties
      <4>2. m # 0  BY <3>1, <4>1, EmptySeq
      <4>3. PICK k \in Nat : k = 1 /\ k = Len(a)  BY <3>4
      <4>4. a \o z \in Seq(T) /\ Len(a \o z) = k + m
        <5>1. a \in Seq(T)  BY <3>4
        <5>2. a \o z \in Seq(T) /\ Len(a \o z) = Len(a) + Len(z)  BY <5>1, ConcatProperties
        <5> QED  BY <4>1, <4>3, <5>2
      <4>5. k + m # 1  BY <4>2, <4>3
      <4> QED  BY <4>4, <4>5, OneType
    <3>10. IsOpen(a, "COMMA", Items, <<"STAR">>)
      <4>1. PICK s \in Seq(T) : s = << >>
        <5>1. << >> \in Seq(T)  BY EmptySeq
        <5> QED  BY <5>1
      <4>2. PICK k \in Nat : k = 0 /\ k = Len(s)  BY <4>1
      <4>3. PICK t \in T : t = a[1]
        <5>1. PICK n1 \in Nat : n1 = Len(a) /\ n1 = 1  BY <3>4
        <5>2. 1 \in 1 .. n1  BY <5>1
        <5>3. a[1] \in T  BY <3>4, <5>1, <5>2, ElementOfSeq
        <5> QED  BY <5>3
      <4>4. Len(a) = k + 1 /\ a[k + 1] = t /\ \A i \in 1 .. k : a[i] = s[i]
        BY <3>4, <4>2, <4>3
      <4>5. Append(s, t) = a  BY <3>4, <4>2, <4>4, AppendEq
      <4>6. IsOpen(s, "COMMA", Items, << >>)  BY <4>1, OpenNone
      <4>7. t.type = "STAR"  BY <3>4, <4>3
      <4>8. IsOpen(Append(s, t), "COMMA", Items, Append(<< >>, t.type))
        BY <4>6, <4>7, OpenStep
      <4>9. Append(<< >>, t.type) = <<"STAR">>  BY <4>7
      <4> QED  BY <4>5, <4>8, <4>9
    <3>11. MayFollow(z[1].type, <<"STAR">>, "COMMA", Items)
      BY <3>1, <3>4, <3>8, <3>9, <3>10, OpenMayFollow
    <3>12. "STAR" \notin Aggregates  BY DEF Aggregates
    <3>13. \A q \in Items : q[1] # "STAR"  BY <3>12, ItemsAre
    <3>14. <<"STAR">> \notin Items
      <4>1. PICK r : r = <<"STAR">>  OBVIOUS
      <4>2. r[1] = "STAR"  BY <4>1
      <4> QED  BY <3>13, <4>1, <4>2
    <3>15. PICK q \in Items : Prolongs(q, <<"STAR">>, z[1].type)
      BY <3>11, <3>14 DEF MayFollow
    <3>16. q[1] = "STAR"  BY <3>15, Prolongs1
    <3> QED  BY <3>13, <3>16
  <2>4. x = "FROM"  BY <1>3, <2>2, <2>3
  <2> QED  BY <1>2, <1>5, <2>4, SelectRules DEF Accepts
<1>6. CASE l = "from_name"
  <2>1. Types(c) = <<"FROM">>  BY <1>6 DEF Word
  <2>2. c[1].type = "FROM" /\ Len(c) = 1  BY <1>1, <2>1, OneType
  <2>3. ~IsClause(c)
    <3>1. PICK n \in Nat : n = 1  OBVIOUS
    <3>2. n >= Len(c)  BY <2>2, <3>1
    <3>3. After(c, n) = << >>  BY <1>1, <3>2, AfterIs
    <3>4. Types(<< >>) # <<"IDENT">>
      <4>1. Types(<< >>) = << >>  BY DEF Types
      <4>2. << >> # <<"IDENT">>  OBVIOUS
      <4> QED  BY <4>1, <4>2
    <3>5. IsClause(c) => Types(After(c, 1)) = <<"IDENT">>
      BY <2>2 DEF IsClause
    <3> QED  BY <3>1, <3>3, <3>4, <3>5
  <2>4. PICK z \in Seq(T) : z # << >> /\ z[1] = e[1] /\ IsClause(c \o z)
    BY <1>3, <2>3
  <2>5. (c \o z)[1].type = "FROM" /\ After(c \o z, 1) = z
    BY <1>1, <2>2, <2>4, BehindWord
  <2>6. Types(z) = <<"IDENT">>  BY <2>4, <2>5 DEF IsClause
  <2>7. x = "IDENT"  BY <1>2, <2>4, <2>6, OneType
  <2> QED  BY <1>2, <1>6, <2>7, SelectRules DEF Accepts
<1>7. CASE l = "where"
  <2>1. Types(c) = <<"FROM", "IDENT">>  BY <1>7 DEF Word
  <2>2. c[1].type = "FROM"  BY <1>1, <2>1, TwoTypes
  <2>3. ASSUME ~IsHead(e[1])  PROVE FALSE
    <3>1. PICK z \in Seq(T) : z # << >> /\ z[1] = e[1] /\ IsClause(c \o z)
      BY <1>3, <2>3
    <3>2. PICK n \in Nat : n = 1  OBVIOUS
    <3>3. PICK a : a = After(c, n)  OBVIOUS
    <3>4. a \in Seq(T) /\ Len(a) = 1
      <4>1. a \in Seq(T)  BY <1>1, <3>3, AfterIs
      <4>2. Types(a) = <<"IDENT">>  BY <1>1, <2>1, <3>2, <3>3, TwoTypes
      <4> QED  BY <4>1, <4>2, OneType
    <3>5. n <= Len(c) /\ c # << >>
      <4>1. Len(c) >= 1 /\ c # << >>  BY InSelectIs
      <4> QED  BY <3>2, <4>1
    <3>6. After(c \o z, n) = a \o z  BY <1>1, <3>1, <3>3, <3>5, AfterGoes
    <3>7. (c \o z)[1].type = "FROM"  BY <1>1, <2>2, <3>1, <3>5, FirstStays
    <3>8. Types(a \o z) = <<"IDENT">>
      <4>1. Types(After(c \o z, 1)) = <<"IDENT">>
        BY <3>1, <3>7 DEF IsClause
      <4> QED  BY <3>2, <3>6, <4>1
    <3>9. PICK m \in Nat : m = Len(z)  BY <3>1, LenProperties
    <3>10. m # 0  BY <3>1, <3>9, EmptySeq
    <3>11. PICK k \in Nat : k = 1 /\ k = Len(a)  BY <3>4
    <3>12. a \o z \in Seq(T) /\ Len(a \o z) = k + m
      <4>1. a \in Seq(T)  BY <3>4
      <4>2. a \o z \in Seq(T) /\ Len(a \o z) = Len(a) + Len(z)  BY <4>1, ConcatProperties
      <4> QED  BY <3>9, <3>11, <4>2
    <3>13. k + m # 1  BY <3>10, <3>11
    <3> QED  BY <3>8, <3>12, <3>13, OneType
  <2>4. x \in {"WHERE", "GROUP", "ORDER"}
    <3>1. IsHead(e[1]) /\ Rank["FROM"] < Rank[x]  BY <1>3, <2>2, <2>3
    <3> QED  BY <1>2, <3>1, RanksAre DEF IsHead
  <2> QED  BY <1>2, <1>7, <2>4, SelectRules DEF Accepts
<1>8. CASE l \in {"group_by", "order_by"}
  <2>1. Types(c) = <<"GROUP">> \/ Types(c) = <<"ORDER">>  BY <1>8 DEF Word
  <2>2. c[1].type \in {"GROUP", "ORDER"} /\ Len(c) = 1  BY <1>1, <2>1, OneType
  <2>3. ~IsClause(c)
    <3>1. IsClause(c) => Len(c) > 1  BY <2>2 DEF IsClause
    <3>2. PICK n \in Nat : n = 1 /\ n = Len(c)  BY <2>2
    <3>3. ~(n > 1)  BY <3>2
    <3> QED  BY <3>1, <3>2, <3>3
  <2>4. PICK z \in Seq(T) : z # << >> /\ z[1] = e[1] /\ IsClause(c \o z)
    BY <1>3, <2>3
  <2>5. (c \o z)[1] = c[1] /\ (c \o z)[2] = z[1]
    BY <1>1, <2>2, <2>4, BehindWord
  <2>6. (c \o z)[1].type \in {"GROUP", "ORDER"}  BY <2>2, <2>5
  <2>7. (c \o z)[2].type = "BY"  BY <2>4, <2>6 DEF IsClause
  <2>8. x = "BY"  BY <1>2, <2>4, <2>5, <2>7
  <2> QED  BY <1>2, <1>8, <2>8, SelectRules DEF Accepts
<1> QED  BY <1>4, <1>5, <1>6, <1>7, <1>8 DEF Word, Reached

LEMMA FreshFollow ==
  ASSUME NEW T, NEW p \in Seq(T), NEW e \in Seq(T), e # << >>, NEW l, Reached(l),
         Fresh(l, p), IsStmt(p \o e)
  PROVE  Accepts(l, e[1].type)
<1>1. CASE l = "item"
  <2>1. Choosing(p, << >>) /\ Len(p) > 1  BY <1>1 DEF Fresh
  <2>2. ItemOpen("item", << >>)  BY DEF ItemOpen
  <2> QED  BY <1>1, <2>1, <2>2, ItemsFollow
<1>2. CASE l = "item_more"
  <2>1. PICK o \in Aliased : Choosing(p, o)  BY <1>2 DEF Fresh
  <2>2. ItemOpen("item_more", o)  BY DEF ItemOpen, Items
  <2> QED  BY <1>2, <2>1, <2>2, ItemsFollow
<1>3. CASE l = "from"
  <2>1. PICK c : InSelect(p, c) /\ Types(c) = <<"SELECT", "STAR">>
    BY <1>3 DEF Fresh
  <2>2. Word("from", Types(c))  BY <2>1 DEF Word
  <2> QED  BY <1>3, <2>1, <2>2, WordsFollow
<1>4. CASE l = "order_more"
  <2>1. PICK b : <<"IDENT", b>> \in Keys /\ Ordering(p, <<"IDENT", b>>)
    BY <1>4 DEF Fresh
  <2>2. KeyOpen("order_more", <<"IDENT", b>>)  BY <2>1 DEF KeyOpen
  <2> QED  BY <1>4, <2>1, <2>2, KeysFollow
<1>5. CASE l = "done"
  <2>1. PICK t : Creating(p, <<"IDENT", t, "RPAREN">>) \/ Inserting(p, <<t, "RPAREN">>)
    BY <1>5 DEF Fresh
  <2> QED  BY <2>1, DoneFollow
<1>6. CASE l \notin {"item", "item_more", "from", "order_more", "done"}
  <2>1. State(l, p)  BY <1>6 DEF Fresh
  <2>2. \A o : ItemOpen(l, o) /\ Choosing(p, o) => Accepts(l, e[1].type)
    BY <1>6, ItemsFollow
  <2>3. \A o : KeyOpen(l, o) /\ Ordering(p, o) => Accepts(l, e[1].type)
    BY <1>6, KeysFollow
  <2> QED
    BY <1>6, <2>1, <2>2, <2>3, PrefixFollow, WordsFollow, CreatingFollow,
       InsertingFollow, ConditionsFollow, NamesFollow DEF State
<1> QED  BY <1>1, <1>2, <1>3, <1>4, <1>5, <1>6

----------------------------------------------------------------------------
(* Wherever the parser stands, one of the endings makes a statement *)

\* At this label the rest of the ending makes a statement.
Ends(l, e, k, T) == \A p \in Seq(T) : State(l, p) => IsStmt(p \o Left(e, k))

LEMMA EndsDone ==
  ASSUME NEW T, NEW e \in Seq(T), NEW n \in Nat, n = Len(e)
  PROVE  Ends("done", e, n + 1, T)
<1> SUFFICES ASSUME NEW p \in Seq(T), State("done", p)
             PROVE  IsStmt(p \o Left(e, n + 1))
  BY DEF Ends
<1>1. IsStmt(p)  BY DEF State, Prefix, Word, ColumnOpen, ValueOpen, ItemOpen,
                          ConditionOpen, NameOpen, KeyOpen
<1>2. Left(e, n + 1) = << >>
  <2>1. n + 1 \in Int /\ n \in Int /\ n < n + 1  OBVIOUS
  <2> QED  BY <2>1, SubSeqEmpty DEF Left
<1>3. p \o << >> = p  OBVIOUS
<1> QED  BY <1>1, <1>2, <1>3

LEMMA EndsRead ==
  ASSUME NEW T, NEW e \in Seq(T), NEW n \in Nat, n = Len(e), NEW k \in 1 .. n,
         NEW j, j = k + 1, NEW l, NEW types, NEW next, NEW otherwise,
         Asks(l, types, next, otherwise), e[k].type \in types, Ends(next, e, j, T)
  PROVE  Ends(l, e, k, T)
<1> SUFFICES ASSUME NEW p \in Seq(T), State(l, p)
             PROVE  IsStmt(p \o Left(e, k))
  BY DEF Ends
<1>1. e[k] \in T /\ p \o Left(e, k) = Append(p, e[k]) \o Left(e, k + 1)  BY LeftStep
<1>2. PICK t \in T : t = e[k]  BY <1>1
<1>3. Fits(l, t) /\ P!Rule(l).next = next  BY <1>2 DEF Fits, Asks
<1>4. Fresh(next, Append(p, t))  BY <1>3, StateRead
<1>5. State(next, Append(p, t))  BY <1>4, FreshIsState
<1>6. Append(p, t) \in Seq(T)  BY AppendProperties
<1>7. IsStmt(Append(p, t) \o Left(e, k + 1))  BY <1>5, <1>6 DEF Ends
<1> QED  BY <1>1, <1>2, <1>7

LEMMA EndingGoesOn ==
  ASSUME NEW T, NEW e, NEW k, NEW l, NEW types, NEW next, NEW otherwise,
         Asks(l, types, next, otherwise), otherwise # "error", Ends(otherwise, e, k, T)
  PROVE  Ends(l, e, k, T)
<1> SUFFICES ASSUME NEW p \in Seq(T), State(l, p)
             PROVE  IsStmt(p \o Left(e, k))
  BY DEF Ends
<1>1. l \in P!Labels /\ P!Rule(l).otherwise = otherwise  BY DEF Asks
<1>2. State(otherwise, p)  BY <1>1, StateGoesOn
<1> QED  BY <1>2 DEF Ends

\* The endings, and the types in them.
EndTypes ==
  {<<"CREATE", "TABLE", "IDENT", "LPAREN", "IDENT", "KW_INT64", "RPAREN">>,
   <<"INSERT", "INTO", "IDENT", "VALUES", "LPAREN", "INT_LIT", "RPAREN">>,
   <<"SELECT", "SUM", "LPAREN", "IDENT", "RPAREN", "FROM", "IDENT">>,
   <<"SELECT", "IDENT", "FROM", "IDENT">>,
   <<"IDENT", "EQ", "IDENT">>,
   <<"BY", "IDENT">>}

BlankTypes ==
  {"CREATE", "TABLE", "IDENT", "LPAREN", "KW_INT64", "RPAREN", "INSERT", "INTO",
   "VALUES", "INT_LIT", "SELECT", "SUM", "FROM", "EQ", "BY"}

Blanks == {[type |-> x, text |-> << >>, literal |-> << >>] : x \in BlankTypes}

LEMMA DummyIs ==
  ASSUME NEW T, Blanks \subseteq T, NEW n \in Nat, NEW types, DOMAIN types = 1 .. n,
         \A i \in 1 .. n : types[i] \in BlankTypes
  PROVE  /\ Dummy(types) \in Seq(T) /\ Len(Dummy(types)) = n
         /\ \A i \in 1 .. n : Dummy(types)[i].type = types[i]
<1>1. \A i \in 1 .. n :
        [type |-> types[i], text |-> << >>, literal |-> << >>] \in T
  BY DEF Blanks
<1>2. PICK e : e = [i \in 1 .. n |-> [type |-> types[i], text |-> << >>, literal |-> << >>]]
  OBVIOUS
<1>3. e = Dummy(types)  BY <1>2 DEF Dummy
<1>4. e \in [1 .. n -> T]  BY <1>1, <1>2
<1>5. e \in Seq(T) /\ Len(e) = n  BY <1>4
<1>6. \A i \in 1 .. n : e[i].type = types[i]  BY <1>2
<1> QED  BY <1>3, <1>5, <1>6

\* At this label some ending makes a statement.
HasEnding(l, T) ==
  \E e \in Endings : e \in Seq(T) /\ \A p \in Seq(T) : State(l, p) => IsStmt(p \o e)

LEMMA LeftIsEnding ==
  ASSUME NEW T, NEW types \in EndTypes, Dummy(types) \in Seq(T),
         NEW n \in Nat, n = Len(Dummy(types)), NEW k \in 1 .. n
  PROVE  Left(Dummy(types), k) \in Endings /\ Left(Dummy(types), k) \in Seq(T)
<1>1. PICK e : e = Dummy(types)  OBVIOUS
<1>2. SubSeq(e, k, Len(e)) \in Suffixes(e)  BY <1>1 DEF Suffixes
<1>3. Left(e, k) \in Suffixes(Dummy(types))  BY <1>1, <1>2 DEF Left
<1>4. Left(e, k) \in Endings  BY <1>3 DEF Endings, EndTypes
<1>5. Left(e, k) \in Seq(T)
  <2>1. k \in 1 .. n + 1 /\ e \in Seq(T) /\ n = Len(e)  BY <1>1
  <2> QED  BY <2>1, LeftIs
<1> QED  BY <1>1, <1>4, <1>5

\* An ending is read from its last token to its first.
LEMMA EndingIsRead ==
  ASSUME NEW T, Blanks \subseteq T, NEW types \in EndTypes, NEW n \in Nat,
         DOMAIN types = 1 .. n, \A i \in 1 .. n : types[i] \in BlankTypes,
         NEW e, e = Dummy(types)
  PROVE  /\ Ends("done", e, n + 1, T)
         /\ \A k \in 1 .. n : \A l, as, next, otherwise :
              Asks(l, as, next, otherwise) /\ types[k] \in as /\ Ends(next, e, k + 1, T)
              => Ends(l, e, k, T)
<1>1. e \in Seq(T) /\ Len(e) = n /\ \A i \in 1 .. n : e[i].type = types[i]
  BY DummyIs
<1>2. Ends("done", e, n + 1, T)  BY <1>1, EndsDone
<1>4. ASSUME NEW k \in 1 .. n, NEW l, NEW as, NEW next, NEW otherwise,
             Asks(l, as, next, otherwise), types[k] \in as, Ends(next, e, k + 1, T)
      PROVE  Ends(l, e, k, T)
  <2>1. PICK j : j = k + 1  OBVIOUS
  <2>2. e[k].type \in as  BY <1>1, <1>4
  <2> QED  BY <1>1, <1>4, <2>1, <2>2, EndsRead
<1> QED  BY <1>2, <1>4

LEMMA EndingIsThere ==
  ASSUME NEW T, Blanks \subseteq T, NEW types \in EndTypes, NEW n \in Nat,
         DOMAIN types = 1 .. n, \A i \in 1 .. n : types[i] \in BlankTypes,
         NEW e, e = Dummy(types), NEW k \in 1 .. n, NEW l, Ends(l, e, k, T)
  PROVE  HasEnding(l, T)
<1>1. e \in Seq(T) /\ Len(e) = n /\ \A i \in 1 .. n : e[i].type = types[i]
  BY DummyIs
<1>2. Left(e, k) \in Endings /\ Left(e, k) \in Seq(T)  BY <1>1, LeftIsEnding
<1> QED  BY <1>2 DEF HasEnding, Ends

LEMMA CreateEnds ==
  ASSUME NEW T, Blanks \subseteq T
  PROVE  \A l \in {"create_close", "col_more", "col_type", "col_name", "create_open",
                 "create_name", "table", "parse"} :
           HasEnding(l, T)
<1>1. PICK types \in EndTypes :
        types = <<"CREATE", "TABLE", "IDENT", "LPAREN", "IDENT", "KW_INT64", "RPAREN">>
  BY DEF EndTypes
<1>2. PICK n \in Nat : n = 7  OBVIOUS
<1>3. /\ DOMAIN types = 1 .. n /\ types[1] = "CREATE" /\ types[2] = "TABLE"
      /\ types[3] = "IDENT" /\ types[4] = "LPAREN" /\ types[5] = "IDENT"
      /\ types[6] = "KW_INT64" /\ types[7] = "RPAREN"
  BY <1>1, <1>2
<1>4. \A i \in 1 .. n : types[i] \in BlankTypes  BY <1>2, <1>3 DEF BlankTypes
<1>5. PICK e : e = Dummy(types)  OBVIOUS
<1>6. /\ Ends("done", e, 8, T)
      /\ \A k \in 1 .. 7 : \A l : Ends(l, e, k, T) => HasEnding(l, T)
  <2>1. n + 1 = 8  BY <1>2
  <2>2. Ends("done", e, n + 1, T)  BY <1>2, <1>3, <1>4, <1>5, EndingIsRead
  <2>3. \A k \in 1 .. n : \A l : Ends(l, e, k, T) => HasEnding(l, T)
    BY <1>2, <1>3, <1>4, <1>5, EndingIsThere
  <2> QED  BY <1>2, <2>1, <2>2, <2>3
<1>7. \A k \in 1 .. 7 : \A l, as, next, otherwise :
        Asks(l, as, next, otherwise) /\ types[k] \in as /\ Ends(next, e, k + 1, T)
        => Ends(l, e, k, T)
  BY <1>2, <1>3, <1>4, <1>5, EndingIsRead
<1>8. Ends("create_close", e, 7, T)
  BY <1>3, <1>7, <1>6, CreateRules
<1>9. Ends("col_more", e, 7, T)  BY <1>8, CreateRules, EndingGoesOn
<1>10. Ends("col_type", e, 6, T)
  BY <1>3, <1>7, <1>9, CreateRules DEF TypeNames
<1>11. Ends("col_name", e, 5, T)
  BY <1>3, <1>7, <1>10, CreateRules
<1>12. Ends("create_open", e, 4, T)
  BY <1>3, <1>7, <1>11, CreateRules
<1>13. Ends("create_name", e, 3, T)
  BY <1>3, <1>7, <1>12, CreateRules
<1>14. Ends("table", e, 2, T)
  BY <1>3, <1>7, <1>13, CreateRules
<1>15. Ends("parse", e, 1, T)
  BY <1>3, <1>7, <1>14, ParseRules
<1> QED  BY <1>6, <1>8, <1>9, <1>10, <1>11, <1>12, <1>13, <1>14, <1>15

LEMMA InsertEnds ==
  ASSUME NEW T, Blanks \subseteq T
  PROVE  \A l \in {"insert_close", "value_more", "value", "insert_open", "values",
                 "insert_name", "into", "insert"} :
           HasEnding(l, T)
<1>1. PICK types \in EndTypes :
        types = <<"INSERT", "INTO", "IDENT", "VALUES", "LPAREN", "INT_LIT", "RPAREN">>
  BY DEF EndTypes
<1>2. PICK n \in Nat : n = 7  OBVIOUS
<1>3. /\ DOMAIN types = 1 .. n /\ types[1] = "INSERT" /\ types[2] = "INTO"
      /\ types[3] = "IDENT" /\ types[4] = "VALUES" /\ types[5] = "LPAREN"
      /\ types[6] = "INT_LIT" /\ types[7] = "RPAREN"
  BY <1>1, <1>2
<1>4. \A i \in 1 .. n : types[i] \in BlankTypes  BY <1>2, <1>3 DEF BlankTypes
<1>5. PICK e : e = Dummy(types)  OBVIOUS
<1>6. /\ Ends("done", e, 8, T)
      /\ \A k \in 1 .. 7 : \A l : Ends(l, e, k, T) => HasEnding(l, T)
  <2>1. n + 1 = 8  BY <1>2
  <2>2. Ends("done", e, n + 1, T)  BY <1>2, <1>3, <1>4, <1>5, EndingIsRead
  <2>3. \A k \in 1 .. n : \A l : Ends(l, e, k, T) => HasEnding(l, T)
    BY <1>2, <1>3, <1>4, <1>5, EndingIsThere
  <2> QED  BY <1>2, <2>1, <2>2, <2>3
<1>7. \A k \in 1 .. 7 : \A l, as, next, otherwise :
        Asks(l, as, next, otherwise) /\ types[k] \in as /\ Ends(next, e, k + 1, T)
        => Ends(l, e, k, T)
  BY <1>2, <1>3, <1>4, <1>5, EndingIsRead
<1>8. Ends("insert_close", e, 7, T)
  BY <1>3, <1>7, <1>6, InsertRules
<1>9. Ends("value_more", e, 7, T)  BY <1>8, InsertRules, EndingGoesOn
<1>10. Ends("value", e, 6, T)
  BY <1>3, <1>7, <1>9, InsertRules DEF Literals
<1>11. Ends("insert_open", e, 5, T)
  BY <1>3, <1>7, <1>10, InsertRules
<1>12. Ends("values", e, 4, T)
  BY <1>3, <1>7, <1>11, InsertRules
<1>13. Ends("insert_name", e, 3, T)
  BY <1>3, <1>7, <1>12, InsertRules
<1>14. Ends("into", e, 2, T)
  BY <1>3, <1>7, <1>13, InsertRules
<1>15. Ends("insert", e, 1, T)
  BY <1>3, <1>7, <1>14, ParseRules
<1> QED  BY <1>6, <1>8, <1>9, <1>10, <1>11, <1>12, <1>13, <1>14, <1>15

LEMMA AggregateEnds ==
  ASSUME NEW T, Blanks \subseteq T
  PROVE  \A l \in {"agg_close", "agg_col", "agg_open"} :
           HasEnding(l, T)
<1>1. PICK types \in EndTypes :
        types = <<"SELECT", "SUM", "LPAREN", "IDENT", "RPAREN", "FROM", "IDENT">>
  BY DEF EndTypes
<1>2. PICK n \in Nat : n = 7  OBVIOUS
<1>3. /\ DOMAIN types = 1 .. n /\ types[1] = "SELECT" /\ types[2] = "SUM"
      /\ types[3] = "LPAREN" /\ types[4] = "IDENT" /\ types[5] = "RPAREN"
      /\ types[6] = "FROM" /\ types[7] = "IDENT"
  BY <1>1, <1>2
<1>4. \A i \in 1 .. n : types[i] \in BlankTypes  BY <1>2, <1>3 DEF BlankTypes
<1>5. PICK e : e = Dummy(types)  OBVIOUS
<1>6. /\ Ends("done", e, 8, T)
      /\ \A k \in 1 .. 7 : \A l : Ends(l, e, k, T) => HasEnding(l, T)
  <2>1. n + 1 = 8  BY <1>2
  <2>2. Ends("done", e, n + 1, T)  BY <1>2, <1>3, <1>4, <1>5, EndingIsRead
  <2>3. \A k \in 1 .. n : \A l : Ends(l, e, k, T) => HasEnding(l, T)
    BY <1>2, <1>3, <1>4, <1>5, EndingIsThere
  <2> QED  BY <1>2, <2>1, <2>2, <2>3
<1>7. \A k \in 1 .. 7 : \A l, as, next, otherwise :
        Asks(l, as, next, otherwise) /\ types[k] \in as /\ Ends(next, e, k + 1, T)
        => Ends(l, e, k, T)
  BY <1>2, <1>3, <1>4, <1>5, EndingIsRead
<1>8. Ends("order", e, 8, T)  BY <1>6, SelectRules, EndingGoesOn
<1>9. Ends("group", e, 8, T)  BY <1>8, SelectRules, EndingGoesOn
<1>10. Ends("where", e, 8, T)  BY <1>9, SelectRules, EndingGoesOn
<1>11. Ends("from_name", e, 7, T)
  BY <1>3, <1>7, <1>10, SelectRules
<1>12. Ends("from", e, 6, T)
  BY <1>3, <1>7, <1>11, SelectRules
<1>13. Ends("item_more", e, 6, T)  BY <1>12, ItemRules, EndingGoesOn
<1>14. Ends("as", e, 6, T)  BY <1>13, ItemRules, EndingGoesOn
<1>15. Ends("agg_close", e, 5, T)
  BY <1>3, <1>7, <1>14, ItemRules
<1>16. Ends("agg_col", e, 4, T)
  BY <1>3, <1>7, <1>15, ItemRules
<1>17. Ends("agg_open", e, 3, T)
  BY <1>3, <1>7, <1>16, ItemRules
<1> QED  BY <1>6, <1>15, <1>16, <1>17

LEMMA SelectEnds ==
  ASSUME NEW T, Blanks \subseteq T
  PROVE  \A l \in {"from_name", "from", "item_more", "alias", "as", "item_col", "item",
                 "star", "select"} :
           HasEnding(l, T)
<1>1. PICK types \in EndTypes : types = <<"SELECT", "IDENT", "FROM", "IDENT">>
  BY DEF EndTypes
<1>2. PICK n \in Nat : n = 4  OBVIOUS
<1>3. /\ DOMAIN types = 1 .. n /\ types[1] = "SELECT" /\ types[2] = "IDENT"
      /\ types[3] = "FROM" /\ types[4] = "IDENT"
  BY <1>1, <1>2
<1>4. \A i \in 1 .. n : types[i] \in BlankTypes  BY <1>2, <1>3 DEF BlankTypes
<1>5. PICK e : e = Dummy(types)  OBVIOUS
<1>6. /\ Ends("done", e, 5, T)
      /\ \A k \in 1 .. 4 : \A l : Ends(l, e, k, T) => HasEnding(l, T)
  <2>1. n + 1 = 5  BY <1>2
  <2>2. Ends("done", e, n + 1, T)  BY <1>2, <1>3, <1>4, <1>5, EndingIsRead
  <2>3. \A k \in 1 .. n : \A l : Ends(l, e, k, T) => HasEnding(l, T)
    BY <1>2, <1>3, <1>4, <1>5, EndingIsThere
  <2> QED  BY <1>2, <2>1, <2>2, <2>3
<1>7. \A k \in 1 .. 4 : \A l, as, next, otherwise :
        Asks(l, as, next, otherwise) /\ types[k] \in as /\ Ends(next, e, k + 1, T)
        => Ends(l, e, k, T)
  BY <1>2, <1>3, <1>4, <1>5, EndingIsRead
<1>8. Ends("order", e, 5, T)  BY <1>6, SelectRules, EndingGoesOn
<1>9. Ends("group", e, 5, T)  BY <1>8, SelectRules, EndingGoesOn
<1>10. Ends("where", e, 5, T)  BY <1>9, SelectRules, EndingGoesOn
<1>11. Ends("from_name", e, 4, T)
  BY <1>3, <1>7, <1>10, SelectRules
<1>12. Ends("from", e, 3, T)
  BY <1>3, <1>7, <1>11, SelectRules
<1>13. Ends("item_more", e, 3, T)  BY <1>12, ItemRules, EndingGoesOn
<1>14. Ends("as", e, 3, T)  BY <1>13, ItemRules, EndingGoesOn
<1>15. Ends("alias", e, 2, T)
  BY <1>3, <1>7, <1>13, ItemRules
<1>16. Ends("item_col", e, 2, T)
  BY <1>3, <1>7, <1>14, ItemRules
<1>17. Ends("item", e, 2, T)  BY <1>16, ItemRules, EndingGoesOn
<1>18. Ends("star", e, 2, T)  BY <1>17, SelectRules, EndingGoesOn
<1>19. Ends("select", e, 1, T)
  BY <1>3, <1>7, <1>18, ParseRules
<1> QED  BY <1>6, <1>11, <1>12, <1>13, <1>15, <1>14, <1>16, <1>17, <1>18, <1>19

LEMMA WhereEnds ==
  ASSUME NEW T, Blanks \subseteq T
  PROVE  \A l \in {"right", "op", "left"} :
           HasEnding(l, T)
<1>1. PICK types \in EndTypes : types = <<"IDENT", "EQ", "IDENT">>
  BY DEF EndTypes
<1>2. PICK n \in Nat : n = 3  OBVIOUS
<1>3. /\ DOMAIN types = 1 .. n /\ types[1] = "IDENT" /\ types[2] = "EQ"
      /\ types[3] = "IDENT"
  BY <1>1, <1>2
<1>4. \A i \in 1 .. n : types[i] \in BlankTypes  BY <1>2, <1>3 DEF BlankTypes
<1>5. PICK e : e = Dummy(types)  OBVIOUS
<1>6. /\ Ends("done", e, 4, T)
      /\ \A k \in 1 .. 3 : \A l : Ends(l, e, k, T) => HasEnding(l, T)
  <2>1. n + 1 = 4  BY <1>2
  <2>2. Ends("done", e, n + 1, T)  BY <1>2, <1>3, <1>4, <1>5, EndingIsRead
  <2>3. \A k \in 1 .. n : \A l : Ends(l, e, k, T) => HasEnding(l, T)
    BY <1>2, <1>3, <1>4, <1>5, EndingIsThere
  <2> QED  BY <1>2, <2>1, <2>2, <2>3
<1>7. \A k \in 1 .. 3 : \A l, as, next, otherwise :
        Asks(l, as, next, otherwise) /\ types[k] \in as /\ Ends(next, e, k + 1, T)
        => Ends(l, e, k, T)
  BY <1>2, <1>3, <1>4, <1>5, EndingIsRead
<1>8. Ends("order", e, 4, T)  BY <1>6, SelectRules, EndingGoesOn
<1>9. Ends("group", e, 4, T)  BY <1>8, SelectRules, EndingGoesOn
<1>10. Ends("where_more", e, 4, T)  BY <1>9, SelectRules, EndingGoesOn
<1>11. Ends("right", e, 3, T)
  BY <1>3, <1>7, <1>10, ConditionRules DEF Operands
<1>12. Ends("op", e, 2, T)
  BY <1>3, <1>7, <1>11, ConditionRules DEF Comparisons
<1>13. Ends("left", e, 1, T)
  BY <1>3, <1>7, <1>12, ConditionRules DEF Operands
<1> QED  BY <1>6, <1>11, <1>12, <1>13

LEMMA WordEnds ==
  ASSUME NEW T, Blanks \subseteq T
  PROVE  \A l \in {"group_col", "group_by", "order_col", "order_by"} :
           HasEnding(l, T)
<1>1. PICK types \in EndTypes : types = <<"BY", "IDENT">>
  BY DEF EndTypes
<1>2. PICK n \in Nat : n = 2  OBVIOUS
<1>3. /\ DOMAIN types = 1 .. n /\ types[1] = "BY" /\ types[2] = "IDENT"
  BY <1>1, <1>2
<1>4. \A i \in 1 .. n : types[i] \in BlankTypes  BY <1>2, <1>3 DEF BlankTypes
<1>5. PICK e : e = Dummy(types)  OBVIOUS
<1>6. /\ Ends("done", e, 3, T)
      /\ \A k \in 1 .. 2 : \A l : Ends(l, e, k, T) => HasEnding(l, T)
  <2>1. n + 1 = 3  BY <1>2
  <2>2. Ends("done", e, n + 1, T)  BY <1>2, <1>3, <1>4, <1>5, EndingIsRead
  <2>3. \A k \in 1 .. n : \A l : Ends(l, e, k, T) => HasEnding(l, T)
    BY <1>2, <1>3, <1>4, <1>5, EndingIsThere
  <2> QED  BY <1>2, <2>1, <2>2, <2>3
<1>7. \A k \in 1 .. 2 : \A l, as, next, otherwise :
        Asks(l, as, next, otherwise) /\ types[k] \in as /\ Ends(next, e, k + 1, T)
        => Ends(l, e, k, T)
  BY <1>2, <1>3, <1>4, <1>5, EndingIsRead
<1>8. Ends("order", e, 3, T)  BY <1>6, SelectRules, EndingGoesOn
<1>9. Ends("group_more", e, 3, T)  BY <1>8, SelectRules, EndingGoesOn
<1>10. Ends("group_col", e, 2, T)
  BY <1>3, <1>7, <1>9, SelectRules
<1>11. Ends("group_by", e, 1, T)
  BY <1>3, <1>7, <1>10, SelectRules
<1>12. Ends("order_more", e, 3, T)  BY <1>6, SelectRules, EndingGoesOn
<1>13. Ends("order_asc", e, 3, T)  BY <1>12, SelectRules, EndingGoesOn
<1>14. Ends("order_desc", e, 3, T)  BY <1>13, SelectRules, EndingGoesOn
<1>15. Ends("order_col", e, 2, T)
  BY <1>3, <1>7, <1>14, SelectRules
<1>16. Ends("order_by", e, 1, T)
  BY <1>3, <1>7, <1>15, SelectRules
<1> QED  BY <1>6, <1>10, <1>11, <1>15, <1>16

LEMMA OpenAtEnd ==
  ASSUME NEW T, NEW l, Ends(l, << >>, 1, T)
  PROVE  HasEnding(l, T)
<1>1. Left(<< >>, 1) = << >>  BY DEF Left
<1>2. << >> \in Seq(T)  BY EmptySeq
<1>3. << >> \in Endings
  <2>1. << >> \in Suffixes(Dummy(<<"BY", "IDENT">>))  BY DEF Suffixes
  <2> QED  BY <2>1 DEF Endings
<1> QED  BY <1>1, <1>2, <1>3 DEF HasEnding, Ends

LEMMA AllOpen ==
  ASSUME NEW T, Blanks \subseteq T, NEW l \in P!Labels \cup {"done"}
  PROVE  HasEnding(l, T)
<1>1. ASSUME l \in {"done", "order", "group", "where", "where_more", "group_more",
                   "order_more", "order_asc", "order_desc"}
      PROVE  HasEnding(l, T)
  <2>1. << >> \in Seq(T) /\ 0 = Len(<< >>) /\ 0 \in Nat /\ 0 + 1 = 1  BY EmptySeq
  <2>2. Ends("done", << >>, 1, T)
    <3>1. Ends("done", << >>, 0 + 1, T)  BY <2>1, EndsDone
    <3> QED  BY <2>1, <3>1
  <2>3. Ends("order", << >>, 1, T)  BY <2>2, SelectRules, EndingGoesOn
  <2>4. Ends("group", << >>, 1, T)  BY <2>3, SelectRules, EndingGoesOn
  <2>5. Ends("where", << >>, 1, T)  BY <2>4, SelectRules, EndingGoesOn
  <2>6. Ends("where_more", << >>, 1, T)  BY <2>4, SelectRules, EndingGoesOn
  <2>7. Ends("group_more", << >>, 1, T)  BY <2>3, SelectRules, EndingGoesOn
  <2>8. Ends("order_more", << >>, 1, T)  BY <2>2, SelectRules, EndingGoesOn
  <2>9. Ends("order_asc", << >>, 1, T)  BY <2>8, SelectRules, EndingGoesOn
  <2>10. Ends("order_desc", << >>, 1, T)  BY <2>9, SelectRules, EndingGoesOn
  <2> QED
    BY <1>1, <2>2, <2>3, <2>4, <2>5, <2>6, <2>7, <2>8, <2>9, <2>10, OpenAtEnd
<1>2. P!Labels = DOMAIN P!parse \cup DOMAIN P!parse_create \cup DOMAIN P!parse_insert
                  \cup DOMAIN P!parse_select \cup DOMAIN P!parse_select_item
                  \cup DOMAIN P!parse_condition
  BY DEF P!Labels, P!Methods
<1> QED
  BY <1>1, <1>2, LabelsOf, CreateEnds, InsertEnds, AggregateEnds, SelectEnds, WhereEnds,
     WordEnds

LEMMA EndTypesAre ==
  ASSUME NEW types \in EndTypes
  PROVE  \E n \in Nat : DOMAIN types = 1 .. n /\ \A i \in 1 .. n : types[i] \in BlankTypes
<1>1. CASE types = <<"BY", "IDENT">>
  BY <1>1 DEF BlankTypes
<1>2. CASE types = <<"IDENT", "EQ", "IDENT">>
  BY <1>2 DEF BlankTypes
<1>3. CASE types = <<"SELECT", "IDENT", "FROM", "IDENT">>
  BY <1>3 DEF BlankTypes
<1>4. CASE types = <<"CREATE", "TABLE", "IDENT", "LPAREN", "IDENT", "KW_INT64", "RPAREN">>
  BY <1>4 DEF BlankTypes
<1>5. CASE types = <<"INSERT", "INTO", "IDENT", "VALUES", "LPAREN", "INT_LIT", "RPAREN">>
  BY <1>5 DEF BlankTypes
<1>6. CASE types = <<"SELECT", "SUM", "LPAREN", "IDENT", "RPAREN", "FROM", "IDENT">>
  BY <1>6 DEF BlankTypes
<1> QED  BY <1>1, <1>2, <1>3, <1>4, <1>5, <1>6 DEF EndTypes

LEMMA EndingsAre ==
  ASSUME NEW T, Blanks \subseteq T
  PROVE  Endings \subseteq Seq(T)
<1> SUFFICES ASSUME NEW e \in Endings  PROVE e \in Seq(T)
  OBVIOUS
<1>1. PICK types \in EndTypes : e \in Suffixes(Dummy(types))
  BY DEF Endings, EndTypes
<1>2. Dummy(types) \in Seq(T)
  <2>1. PICK n \in Nat : DOMAIN types = 1 .. n /\ \A i \in 1 .. n : types[i] \in BlankTypes
    BY EndTypesAre
  <2> QED  BY <2>1, DummyIs
<1>3. PICK n \in Nat : n = Len(Dummy(types))  BY <1>2, LenProperties
<1>4. CASE e = << >>  BY <1>4, EmptySeq
<1>5. ASSUME NEW k \in 1 .. n, e = SubSeq(Dummy(types), k, n)  PROVE e \in Seq(T)
  <2>1. e = Left(Dummy(types), k)  BY <1>3, <1>5 DEF Left
  <2> QED  BY <1>2, <1>3, <2>1, LeftIsEnding
<1> QED  BY <1>1, <1>3, <1>4, <1>5 DEF Suffixes

\* With the token a statement only goes on if the parser goes on with it.
Sound(l, p, t, T) ==
  \A e \in Seq(T) : IsStmt(Append(p, t) \o e) => Accepts(l, t.type)

LEMMA FreshIsSound ==
  ASSUME NEW T, NEW p \in Seq(T), NEW t \in T, NEW l, Reached(l), Fresh(l, p)
  PROVE  Sound(l, p, t, T)
<1> SUFFICES ASSUME NEW e \in Seq(T), IsStmt(Append(p, t) \o e)
             PROVE  Accepts(l, t.type)
  BY DEF Sound
<1>1. PICK f : f = <<t>> \o e  OBVIOUS
<1>2. f \in Seq(T) /\ f # << >> /\ f[1] = t /\ Append(p, t) \o e = p \o f
  BY <1>1, AppendThen
<1>3. Accepts(l, f[1].type)  BY <1>2, FreshFollow
<1> QED  BY <1>2, <1>3

\* What no statement goes on with is not made good by what follows.
LEMMA NoneGoesOn ==
  ASSUME NEW T, Blanks \subseteq T, NEW p \in Seq(T), NEW t \in T,
         NEW l, Sound(l, p, t, T), ~Accepts(l, t.type)
  PROVE  /\ ~CanBegin(Append(p, t))
         /\ \A x \in T : ~CanBegin(Append(Append(p, t), x))
<1>1. \A e \in Seq(T) : ~IsStmt(Append(p, t) \o e)  BY DEF Sound
<1>2. Endings \subseteq Seq(T)  BY EndingsAre
<1>3. ~CanBegin(Append(p, t))  BY <1>1, <1>2 DEF CanBegin
<1>4. ASSUME NEW x \in T  PROVE ~CanBegin(Append(Append(p, t), x))
  <2> SUFFICES ASSUME NEW e \in Endings, IsStmt(Append(Append(p, t), x) \o e)
               PROVE  FALSE
    BY DEF CanBegin
  <2>1. e \in Seq(T)  BY <1>2
  <2>2. PICK w \in Seq(T) : w = Append(p, t)  BY AppendProperties
  <2>3. <<x>> \o e \in Seq(T) /\ Append(w, x) \o e = w \o (<<x>> \o e)
    BY <2>1, AppendThen
  <2> QED  BY <1>1, <2>2, <2>3
<1> QED  BY <1>3, <1>4

LEMMA TakenIs ==
  ASSUME NEW T, tokens \in Seq(T), NEW n \in Nat, n = Len(tokens), NEW k \in 1 .. n
  PROVE  /\ Taken(k - 1) \in Seq(T) /\ tokens[k] \in T
         /\ Taken(k) = Append(Taken(k - 1), tokens[k])
<1>1. PICK s \in Seq(T) : s = tokens  OBVIOUS
<1>2. PICK j \in 0 .. n : j = k - 1  OBVIOUS
<1>3. Taken(j) = SubSeq(s, 1, j) /\ Taken(k) = SubSeq(s, 1, k)
  BY <1>1 DEF Taken
<1>4. \A i \in 1 .. n : s[i] \in T  BY <1>1, ElementOfSeq
<1>5. PICK u : u = SubSeq(s, 1, j)  OBVIOUS
<1>6. PICK v : v = SubSeq(s, 1, k)  OBVIOUS
<1>7. u \in Seq(T) /\ Len(u) = j /\ \A i \in 1 .. j : u[i] = s[i]
  BY <1>1, <1>2, <1>4, <1>5
<1>8. v \in Seq(T) /\ Len(v) = j + 1 /\ \A i \in 1 .. j + 1 : v[i] = s[i]
  BY <1>1, <1>2, <1>4, <1>6
<1>9. s[k] \in T  BY <1>4
<1>10. Append(u, s[k]) = v
  <2>1. PICK t \in T : t = s[k]  BY <1>9
  <2>2. v[j + 1] = t  BY <1>2, <1>8, <2>1
  <2>3. \A i \in 1 .. j : v[i] = u[i]  BY <1>7, <1>8
  <2>4. Append(u, t) = v  BY <1>7, <1>8, <2>2, <2>3, AppendEq
  <2> QED  BY <2>1, <2>4
<1> QED  BY <1>1, <1>2, <1>3, <1>5, <1>6, <1>7, <1>9, <1>10

\* What has been read is what its label says, and no statement goes on with
\* the next token that the parser would not go on with.
Parses ==
  \E T : /\ Blanks \subseteq T /\ tokens \in Seq(T) /\ cursor \in 1 .. Len(tokens)
         /\ State(pc, Taken(cursor - 1))
         /\ Sound(pc, Taken(cursor - 1), tokens[cursor], T)

ParseInv ==
  /\ pc \in P!Labels \cup {"done"} => Parses
  /\ pc = "error" /\ Lexed => ~CanBegin(Taken(cursor))

\* No token is asked for where the parser has come to an end.
LEMMA DoneIs == ~(\E x : Accepts("done", x))
  BY NoLabels DEF Accepts

LEMMA LexKeepsParseInv ==
  ASSUME LexInv, CursorInv, CursorInv', LexInv', Lex
  PROVE  ParseInv'
<1>1. pc = "lex" /\ cursor' = cursor /\ cursor = 1
  BY DEF Lex, L!Next, L!Tokenize, L!EndOfSource, L!LexerThrows, CursorInv
<1>2. CASE L!Tokenize
  <2>1. pc' = "lex"  BY <1>1, <1>2 DEF L!Tokenize
  <2> QED  BY <2>1, NoLabels DEF ParseInv
<1>3. CASE L!LexerThrows
  <2>1. pc' = "error" /\ tokens' = tokens /\ ~Lexed
    BY <1>1, <1>3 DEF L!LexerThrows, LexInv
  <2>2. ~Lexed'  BY <2>1 DEF Lexed, L!EofToken
  <2> QED  BY <2>1, <2>2, NoLabels DEF ParseInv
<1>4. CASE L!EndOfSource
  <2>1. pc' = "parse"  BY <1>4 DEF L!EndOfSource
  <2>2. PICK S : tokens' \in Seq(S)  BY DEF CursorInv
  <2>3. PICK T : T = S \cup Blanks  OBVIOUS
  <2>4. tokens' \in Seq(T) /\ Blanks \subseteq T  BY <2>2, <2>3
  <2>5. cursor' \in 1 .. Len(tokens')
    BY <2>1, ParseRules DEF CursorInv, Asks
  <2>6. Taken(cursor - 1)' = << >>
    <3>1. Taken(0)' = << >>
      <4>1. Len(tokens') \in Nat  BY <2>4
      <4>2. 0 <= Len(tokens')  BY <4>1
      <4> QED  BY <4>2 DEF Taken
    <3>2. cursor' - 1 = 0  BY <1>1
    <3> QED  BY <3>1, <3>2
  <2>7. PICK t \in T : t = tokens'[cursor']  BY <2>4, <2>5, ElementOfSeq
  <2>8. << >> \in Seq(T)  BY EmptySeq
  <2>9. State("parse", << >>)
    <3>1. Types(<< >>) = << >>  BY DEF Types
    <3> QED  BY <3>1 DEF State, Prefix
  <2>10. Fresh("parse", << >>) /\ Reached("parse")  BY <2>9 DEF Fresh, Reached
  <2>11. Sound("parse", << >>, t, T)  BY <2>8, <2>10, FreshIsSound
  <2>12. Parses'  BY <2>1, <2>4, <2>5, <2>6, <2>7, <2>9, <2>11 DEF Parses
  <2> QED  BY <2>1, <2>12 DEF ParseInv
<1> QED  BY <1>2, <1>3, <1>4 DEF Lex, L!Next

LEMMA ParserTakes ==
  ASSUME LexInv, CursorInv, ParseInv, P!Take
  PROVE  ParseInv'
<1>1. PICK l \in P!Labels : l = pc  BY DEF P!Take
<1>2. PICK T : /\ Blanks \subseteq T /\ tokens \in Seq(T) /\ cursor \in 1 .. Len(tokens)
               /\ State(pc, Taken(cursor - 1))
  BY <1>1 DEF ParseInv, Parses
<1>3. PICK n \in Nat : n = Len(tokens)  BY <1>2, LenProperties
<1>4. PICK i \in 1 .. n : i = cursor  BY <1>2, <1>3
<1>5. PICK p : p = Taken(i - 1)  OBVIOUS
<1>6. PICK t : t = tokens[i]  OBVIOUS
<1>7. p \in Seq(T) /\ t \in T /\ Taken(i) = Append(p, t)
  BY <1>2, <1>3, <1>5, <1>6, TakenIs
<1>8. tokens' = tokens /\ cursor' = i + 1 /\ pc' = P!Rule(l).next /\ Fits(l, t)
  BY <1>1, <1>4, <1>6 DEF P!Take, P!consume, P!peek, Fits
<1>9. i + 1 \in 1 .. n
  <2>1. t.type # "EOF_TOK"  BY <1>1, <1>8, RuleRefuses DEF Refuses, Fits
  <2>2. i # n  BY <1>1, <1>3, <1>6, <2>1 DEF CursorInv, EndsWithEnd
  <2> QED  BY <2>2
<1>10. Fresh(pc', Append(p, t))
  <2>1. State(l, p)  BY <1>1, <1>2, <1>4, <1>5
  <2> QED  BY <1>7, <1>8, <2>1, StateRead
<1>11. Reached(pc')  BY <1>8, NextIsReached
<1>12. PICK w : w = Append(p, t)  OBVIOUS
<1>13. w \in Seq(T)  BY <1>7, <1>12, AppendProperties
<1>14. PICK x \in T : x = tokens[i + 1]  BY <1>2, <1>3, <1>9, ElementOfSeq
<1>15. State(pc', w)  BY <1>10, <1>12, FreshIsState
<1>16. Sound(pc', w, x, T)  BY <1>10, <1>11, <1>12, <1>13, FreshIsSound
<1>17. Taken(cursor - 1)' = w
  <2>1. cursor' - 1 = i  BY <1>8
  <2>2. Taken(i)' = Taken(i)  BY <1>8 DEF Taken
  <2> QED  BY <1>7, <1>12, <2>1, <2>2
<1>18. Parses'
  <2>1. tokens' \in Seq(T) /\ cursor' \in 1 .. Len(tokens') /\ tokens'[cursor'] = x
    BY <1>2, <1>3, <1>8, <1>9, <1>14
  <2> QED  BY <1>2, <1>15, <1>16, <1>17, <2>1 DEF Parses
<1>19. pc' # "error"
  <2>1. ~Reached("error") \/ P!Rule(l).next # "error"
    BY ParseRules, CreateRules, InsertRules, SelectRules, ItemRules, ConditionRules,
       LabelsOf DEF Asks, P!Labels, P!Methods
  <2> QED  BY <1>8, <1>11, <2>1
<1> QED  BY <1>18, <1>19 DEF ParseInv

LEMMA ParserGoesOn ==
  ASSUME LexInv, CursorInv, ParseInv, P!GoOn
  PROVE  ParseInv'
<1>1. PICK l \in P!Labels : l = pc  BY DEF P!GoOn
<1>2. PICK T : /\ Blanks \subseteq T /\ tokens \in Seq(T) /\ cursor \in 1 .. Len(tokens)
               /\ State(pc, Taken(cursor - 1))
               /\ Sound(pc, Taken(cursor - 1), tokens[cursor], T)
  BY <1>1 DEF ParseInv, Parses
<1>3. PICK n \in Nat : n = Len(tokens)  BY <1>2, LenProperties
<1>4. PICK i \in 1 .. n : i = cursor  BY <1>2, <1>3
<1>5. PICK p : p = Taken(i - 1)  OBVIOUS
<1>6. PICK t : t = tokens[i]  OBVIOUS
<1>7. p \in Seq(T) /\ t \in T /\ Taken(i) = Append(p, t)
  BY <1>2, <1>3, <1>5, <1>6, TakenIs
<1>8. PICK m : m = P!Rule(l).otherwise  OBVIOUS
<1>9. /\ tokens' = tokens /\ pc' = m /\ t.type \notin P!Rule(l).types
      /\ cursor' = IF P!Rule(l).taken THEN i + 1 ELSE i
  BY <1>1, <1>4, <1>6, <1>8 DEF P!GoOn, P!consume, P!peek
<1>10. Refuses(P!Rule(l))  BY RuleRefuses
<1>11. State(l, p) /\ Sound(l, p, t, T)  BY <1>1, <1>2, <1>4, <1>5, <1>6
<1>12. CASE m = "error"
  <2>1. ~Accepts(l, t.type)  BY <1>8, <1>9, <1>12, AcceptsGoesOn
  <2>2. ~CanBegin(Append(p, t)) /\ \A x \in T : ~CanBegin(Append(Append(p, t), x))
    BY <1>2, <1>7, <1>11, <2>1, NoneGoesOn
  <2>3. \A k : Taken(k)' = Taken(k)  BY <1>9 DEF Taken
  <2>4. ~CanBegin(Taken(i))  BY <1>7, <2>2
  <2>5. ~CanBegin(Taken(i + 1))
    <3>1. CASE i + 1 \in 1 .. n
      <4>1. PICK j \in 1 .. n : j = i + 1  BY <3>1
      <4>2. tokens[j] \in T /\ Taken(j) = Append(Taken(j - 1), tokens[j])
        BY <1>2, <1>3, TakenIs
      <4>3. j - 1 = i  BY <4>1
      <4> QED  BY <1>7, <2>2, <4>1, <4>2, <4>3
    <3>2. CASE i = n
      <4>1. ~(i + 1 <= n) /\ i <= n  BY <3>2
      <4>2. Taken(i + 1) = Taken(i)  BY <1>3, <3>2, <4>1 DEF Taken
      <4> QED  BY <2>4, <4>2
    <3> QED  BY <3>1, <3>2
  <2>6. ~CanBegin(Taken(cursor))'
    <3>1. ~CanBegin(Taken(cursor'))  BY <1>9, <2>4, <2>5
    <3>2. Taken(cursor)' = Taken(cursor')  BY <2>3
    <3> QED  BY <3>1, <3>2
  <2> QED  BY <1>9, <1>12, <2>6, NoLabels DEF ParseInv
<1>13. CASE m # "error"
  <2>1. cursor' = i  BY <1>8, <1>9, <1>10, <1>13 DEF Refuses
  <2>2. State(m, p)  BY <1>7, <1>8, <1>11, <1>13, StateGoesOn
  <2>3. Sound(m, p, t, T)
    BY <1>8, <1>9, <1>11, AcceptsGoesOn DEF Sound
  <2>4. Taken(cursor - 1)' = p
    <3>1. cursor' - 1 = i - 1  BY <2>1
    <3>2. Taken(i - 1)' = Taken(i - 1)  BY <1>9 DEF Taken
    <3> QED  BY <1>5, <3>1, <3>2
  <2>5. Parses'
    <3>1. tokens' \in Seq(T) /\ cursor' \in 1 .. Len(tokens') /\ tokens'[cursor'] = t
      BY <1>2, <1>3, <1>6, <1>9, <2>1
    <3> QED  BY <1>2, <1>9, <2>2, <2>3, <2>4, <3>1 DEF Parses
  <2> QED  BY <1>9, <1>13, <2>5 DEF ParseInv
<1> QED  BY <1>12, <1>13

ParsesInv == CursorInv /\ LexInv /\ ParseInv

LEMMA Parsed == Spec => []ParsesInv
<1>1. Init => ParsesInv
  <2> SUFFICES ASSUME Init  PROVE ParsesInv  OBVIOUS
  <2>1. tokens \in Seq({}) /\ pc = "lex" /\ cursor = 1
    BY DEF Init, L!Init
  <2>2. CursorInv  BY <2>1, NoLabels DEF CursorInv
  <2>3. ParseInv  BY <2>1, NoLabels DEF ParseInv
  <2> QED  BY <2>2, <2>3, LexStarts DEF ParsesInv
<1>2. ParsesInv /\ [Next]_vars => ParsesInv'
  <2> SUFFICES ASSUME CursorInv, LexInv, ParseInv, [Next]_vars  PROVE ParsesInv'
    BY DEF ParsesInv
  <2>1. LexInv'  BY LexNext
  <2>2. CASE UNCHANGED vars
    <3>1. CursorInv'  BY <2>2 DEF CursorInv, EndsWithEnd, vars
    <3>2. tokens' = tokens /\ cursor' = cursor /\ pc' = pc  BY <2>2 DEF vars
    <3>3. Lexed' <=> Lexed  BY <3>2 DEF Lexed, L!EofToken
    <3>4. \A k : Taken(k)' = Taken(k)  BY <3>2 DEF Taken
    <3>5. ParseInv'  BY <3>2, <3>3, <3>4 DEF ParseInv, Parses
    <3> QED  BY <2>1, <3>1, <3>5 DEF ParsesInv
  <2>3. CASE Lex  BY <2>1, <2>3, LexStep, LexKeepsParseInv DEF ParsesInv
  <2>4. CASE Parse
    <3>1. ParseInv'  BY <2>4, ParserTakes, ParserGoesOn DEF Parse, P!Next
    <3> QED  BY <2>1, <2>4, <3>1, ParseStep DEF ParsesInv
  <2> QED  BY <2>2, <2>3, <2>4 DEF Next
<1> QED  BY <1>1, <1>2, PTL DEF Spec

\* The parser throws at the first token with which no statement can go on, and
\* not before.
THEOREM ThrowsFirst == Spec => []ThrowsAtFirstWrong
<1>1. ParsesInv => ThrowsAtFirstWrong
  <2> SUFFICES ASSUME ParsesInv  PROVE ThrowsAtFirstWrong  OBVIOUS
  <2>1. ASSUME pc \in P!Labels  PROVE CanBegin(Taken(cursor - 1))
    <3>1. PICK T : /\ Blanks \subseteq T /\ tokens \in Seq(T)
                   /\ cursor \in 1 .. Len(tokens) /\ State(pc, Taken(cursor - 1))
      BY <2>1 DEF ParsesInv, ParseInv, Parses
    <3>2. PICK n \in Nat : n = Len(tokens)  BY <3>1, LenProperties
    <3>3. Taken(cursor - 1) \in Seq(T)  BY <3>1, <3>2, TakenIs
    <3>4. HasEnding(pc, T)  BY <2>1, <3>1, AllOpen
    <3> QED  BY <3>1, <3>3, <3>4 DEF HasEnding, CanBegin
  <2> QED  BY <2>1 DEF ParsesInv, ParseInv, ThrowsAtFirstWrong
<1> QED  BY <1>1, Parsed, PTL

----------------------------------------------------------------------------
(* What tokens say that a statement begins with *)

Stmt(kind, name, cols, values, star, items, where, group_by, order_by) ==
  [kind |-> kind, name |-> name, cols |-> cols, values |-> values, star |-> star,
   items |-> items, where |-> where, group_by |-> group_by, order_by |-> order_by]

\* What a piece says, as far as it goes.
ColumnAt(q) == [name |-> q[1].text, type |-> IF Len(q) > 1 THEN q[2].type ELSE ""]

ColAt(q) ==
  IF q[1].type = "IDENT" THEN q[1].text ELSE IF Len(q) > 2 THEN q[3].text ELSE << >>

AliasAt(q) ==
  IF q[1].type = "IDENT" THEN IF Len(q) > 2 THEN q[3].text ELSE q[1].text
  ELSE IF Len(q) > 5 THEN q[6].text ELSE ColAt(q)

ItemAt(q) ==
  [agg |-> IF q[1].type = "IDENT" THEN "none" ELSE q[1].type,
   col |-> ColAt(q), alias |-> AliasAt(q)]

ConditionAt(q) ==
  [left |-> q[1], op |-> IF Len(q) > 1 THEN q[2].type ELSE "",
   right |-> IF Len(q) > 2 THEN q[3] ELSE q[1]]

KeyAt(q) ==
  [col |-> q[1].text, asc |-> IF Len(q) > 1 /\ q[2].type = "DESC" THEN FALSE ELSE TRUE]

ColumnFn(T) == [q \in Seq(T) |-> ColumnAt(q)]

ValueFn(T) == [q \in Seq(T) |-> q[1]]

ItemFn(T) == [q \in Seq(T) |-> ItemAt(q)]

ConditionFn(T) == [q \in Seq(T) |-> ConditionAt(q)]

NameFn(T) == [q \in Seq(T) |-> q[1].text]

KeyFn(T) == [q \in Seq(T) |-> KeyAt(q)]

\* What a row is at first, and what a token changes in it.
NewColumn(x) == [name |-> x, type |-> ""]

Typed(c, x) == [c EXCEPT !.type = x]

NewAgg(x) == [agg |-> x, col |-> << >>, alias |-> << >>]

NewItem(x) == [agg |-> "none", col |-> x, alias |-> x]

WithCol(i, x) == [i EXCEPT !.col = x]

WithAlias(i, x) == [i EXCEPT !.alias = x]

NewCondition(t) == [left |-> t, op |-> "", right |-> t]

WithOp(c, x) == [c EXCEPT !.op = x]

WithRight(c, t) == [c EXCEPT !.right = t]

NewKey(x) == [col |-> x, asc |-> TRUE]

Descending(k) == [k EXCEPT !.asc = FALSE]

\* The rows of the clause with this word, and of the list in brackets.
RowsAt(p, f, word, n, separator) == RowsFrom(f, ListOf(p, word, n, separator))

Bracketed(p) == p # << >> /\ p[1].type \in {"CREATE", "INSERT"}

KindOf(p) ==
  IF p = << >> THEN "none" ELSE IF p[1].type = "CREATE" THEN "create"
  ELSE IF p[1].type = "INSERT" THEN "insert" ELSE "select"

TableOf(p, T) ==
  IF Bracketed(p) THEN IF Len(p) > 2 THEN p[3].text ELSE << >>
  ELSE RowsBegin(RowsAt(p, NameFn(T), "FROM", 1, "COMMA"))

ColsOf(p, T) == RowsWithin(p, ColumnFn(T), "CREATE", 4)

ValuesOf(p, T) == RowsWithin(p, ValueFn(T), "INSERT", 5)

StarOf(p) == IF Starred(p) THEN TRUE ELSE FALSE

ItemsOf(p, T) == IF Starred(p) THEN << >> ELSE RowsAt(p, ItemFn(T), "SELECT", 1, "COMMA")

WhereOf(p, T) == RowsAt(p, ConditionFn(T), "WHERE", 1, "AND")

GroupOf(p, T) == RowsAt(p, NameFn(T), "GROUP", 2, "COMMA")

OrderOf(p, T) == RowsAt(p, KeyFn(T), "ORDER", 2, "COMMA")

Said(p, T) ==
  Stmt(KindOf(p), TableOf(p, T), ColsOf(p, T), ValuesOf(p, T), StarOf(p), ItemsOf(p, T),
       WhereOf(p, T), GroupOf(p, T), OrderOf(p, T))

----------------------------------------------------------------------------
(* The statement, but for one part of it; and what a token changes in it *)

WithKind(p, k, T) ==
  Stmt(k, TableOf(p, T), ColsOf(p, T), ValuesOf(p, T), StarOf(p), ItemsOf(p, T),
       WhereOf(p, T), GroupOf(p, T), OrderOf(p, T))

WithTable(p, n, T) ==
  Stmt(KindOf(p), n, ColsOf(p, T), ValuesOf(p, T), StarOf(p), ItemsOf(p, T),
       WhereOf(p, T), GroupOf(p, T), OrderOf(p, T))

WithCols(p, c, T) ==
  Stmt(KindOf(p), TableOf(p, T), c, ValuesOf(p, T), StarOf(p), ItemsOf(p, T),
       WhereOf(p, T), GroupOf(p, T), OrderOf(p, T))

WithValues(p, v, T) ==
  Stmt(KindOf(p), TableOf(p, T), ColsOf(p, T), v, StarOf(p), ItemsOf(p, T),
       WhereOf(p, T), GroupOf(p, T), OrderOf(p, T))

WithItems(p, st, i, T) ==
  Stmt(KindOf(p), TableOf(p, T), ColsOf(p, T), ValuesOf(p, T), st, i,
       WhereOf(p, T), GroupOf(p, T), OrderOf(p, T))

WithWhere(p, w, T) ==
  Stmt(KindOf(p), TableOf(p, T), ColsOf(p, T), ValuesOf(p, T), StarOf(p), ItemsOf(p, T),
       w, GroupOf(p, T), OrderOf(p, T))

WithGroup(p, g, T) ==
  Stmt(KindOf(p), TableOf(p, T), ColsOf(p, T), ValuesOf(p, T), StarOf(p), ItemsOf(p, T),
       WhereOf(p, T), g, OrderOf(p, T))

WithOrder(p, o, T) ==
  Stmt(KindOf(p), TableOf(p, T), ColsOf(p, T), ValuesOf(p, T), StarOf(p), ItemsOf(p, T),
       WhereOf(p, T), GroupOf(p, T), o)

LEMMA SaidIs ==
  ASSUME NEW T, NEW p
  PROVE  /\ Said(p, T) = WithKind(p, KindOf(p), T)
         /\ Said(p, T) = WithTable(p, TableOf(p, T), T)
         /\ Said(p, T) = WithCols(p, ColsOf(p, T), T)
         /\ Said(p, T) = WithValues(p, ValuesOf(p, T), T)
         /\ Said(p, T) = WithItems(p, StarOf(p), ItemsOf(p, T), T)
         /\ Said(p, T) = WithWhere(p, WhereOf(p, T), T)
         /\ Said(p, T) = WithGroup(p, GroupOf(p, T), T)
         /\ Said(p, T) = WithOrder(p, OrderOf(p, T), T)
BY DEF Said, WithKind, WithTable, WithCols, WithValues, WithItems, WithWhere, WithGroup,
       WithOrder

LEMMA BuiltHead ==
  ASSUME NEW T, NEW p, NEW x, NEW t
  PROVE  /\ P!Built(WithKind(p, x, T), "parse", t) = WithKind(p, "create", T)
         /\ P!Built(WithKind(p, x, T), "insert", t) = WithKind(p, "insert", T)
         /\ P!Built(WithKind(p, x, T), "select", t) = WithKind(p, "select", T)
         /\ \A l \in {"create_name", "insert_name", "from_name"} :
              P!Built(WithTable(p, x, T), l, t) = WithTable(p, t.text, T)
<1>1. PICK s : s = WithKind(p, x, T)  OBVIOUS
<1>2. P!Built(s, "parse", t) = WithKind(p, "create", T)
  BY <1>1 DEF P!Built, Stmt, WithKind
<1>3. P!Built(s, "insert", t) = WithKind(p, "insert", T)
  BY <1>1 DEF P!Built, Stmt, WithKind
<1>4. P!Built(s, "select", t) = WithKind(p, "select", T)
  BY <1>1 DEF P!Built, Stmt, WithKind
<1>5. PICK u : u = WithTable(p, x, T)  OBVIOUS
<1>6. ASSUME NEW l \in {"create_name", "insert_name", "from_name"}
      PROVE  P!Built(u, l, t) = WithTable(p, t.text, T)
  BY <1>5 DEF P!Built, Stmt, WithTable
<1> QED  BY <1>1, <1>2, <1>3, <1>4, <1>5, <1>6

LEMMA BuiltBrackets ==
  ASSUME NEW T, NEW p, NEW x, NEW t
  PROVE  /\ P!Built(WithCols(p, x, T), "col_name", t)
              = WithCols(p, Append(x, NewColumn(t.text)), T)
         /\ P!Built(WithCols(p, x, T), "col_type", t)
              = WithCols(p, Turned(x, Typed(x[Len(x)], t.type)), T)
         /\ P!Built(WithValues(p, x, T), "value", t) = WithValues(p, Append(x, t), T)
<1>1. PICK s : s = WithCols(p, x, T)  OBVIOUS
<1>2. P!Built(s, "col_name", t) = WithCols(p, Append(x, NewColumn(t.text)), T)
  <2>1. P!Built(s, "col_name", t) = P!push_back(s, "cols", NewColumn(t.text))
    BY DEF P!Built, NewColumn
  <2> QED  BY <1>1, <2>1 DEF P!push_back, Stmt, WithCols
<1>3. P!Built(s, "col_type", t)
        = WithCols(p, Turned(x, Typed(x[Len(x)], t.type)), T)
  <2>1. P!Built(s, "col_type", t) = P!SetLast(s, "cols", "type", t.type)
    BY DEF P!Built
  <2> QED  BY <1>1, <2>1 DEF P!SetLast, Stmt, Turned, Typed, WithCols
<1>4. PICK u : u = WithValues(p, x, T)  OBVIOUS
<1>5. P!Built(u, "value", t) = WithValues(p, Append(x, t), T)
  <2>1. P!Built(u, "value", t) = P!push_back(u, "values", t)
    BY DEF P!Built
  <2> QED  BY <1>4, <2>1 DEF P!push_back, Stmt, WithValues
<1> QED  BY <1>1, <1>2, <1>3, <1>4, <1>5

LEMMA BuiltStar ==
  ASSUME NEW T, NEW p, NEW st, NEW x, NEW t
  PROVE  P!Built(WithItems(p, st, x, T), "star", t) = WithItems(p, TRUE, x, T)
<1>1. PICK s : s = WithItems(p, st, x, T)  OBVIOUS
<1>2. P!Built(s, "star", t) = WithItems(p, TRUE, x, T)
  BY <1>1 DEF P!Built, Stmt, WithItems
<1> QED  BY <1>1, <1>2

LEMMA BuiltItem ==
  ASSUME NEW T, NEW p, NEW st, NEW x, NEW t
  PROVE  /\ P!Built(WithItems(p, st, x, T), "item", t)
              = WithItems(p, st, Append(x, NewAgg(t.type)), T)
         /\ P!Built(WithItems(p, st, x, T), "item_col", t)
              = WithItems(p, st, Append(x, NewItem(t.text)), T)
         /\ P!Built(WithItems(p, st, x, T), "alias", t)
              = WithItems(p, st, Turned(x, WithAlias(x[Len(x)], t.text)), T)
<1>1. PICK s : s = WithItems(p, st, x, T)  OBVIOUS
<1>2. P!Built(s, "item", t)
        = WithItems(p, st, Append(x, NewAgg(t.type)), T)
  <2>1. P!Built(s, "item", t)
          = P!push_back(s, "items", NewAgg(t.type))
    BY DEF P!Built, NewAgg
  <2> QED  BY <1>1, <2>1 DEF P!push_back, Stmt, WithItems
<1>3. P!Built(s, "item_col", t)
        = WithItems(p, st, Append(x, NewItem(t.text)), T)
  <2>1. P!Built(s, "item_col", t)
          = P!push_back(s, "items", NewItem(t.text))
    BY DEF P!Built, NewItem
  <2> QED  BY <1>1, <2>1 DEF P!push_back, Stmt, WithItems
<1>4. P!Built(s, "alias", t)
        = WithItems(p, st, Turned(x, WithAlias(x[Len(x)], t.text)), T)
  <2>1. P!Built(s, "alias", t) = P!SetLast(s, "items", "alias", t.text)
    BY DEF P!Built
  <2> QED  BY <1>1, <2>1 DEF P!SetLast, Stmt, Turned, WithAlias, WithItems
<1> QED  BY <1>1, <1>2, <1>3, <1>4

LEMMA BuiltAggregate ==
  ASSUME NEW T, NEW p, NEW st, NEW x, NEW t, NEW y, y = Turned(x, WithCol(x[Len(x)], t.text))
  PROVE  P!Built(WithItems(p, st, x, T), "agg_col", t)
           = WithItems(p, st, Turned(y, WithAlias(y[Len(y)], t.text)), T)
<1>1. PICK s : s = WithItems(p, st, x, T)  OBVIOUS
<1>2. PICK u : u = P!SetLast(s, "items", "col", t.text)  OBVIOUS
<1>3. P!Built(s, "agg_col", t) = P!SetLast(u, "items", "alias", t.text)
  BY <1>2 DEF P!Built
<1>4. u = WithItems(p, st, y, T)
  BY <1>1, <1>2 DEF P!SetLast, Stmt, Turned, WithCol, WithItems
<1>5. P!SetLast(u, "items", "alias", t.text)
        = WithItems(p, st, Turned(y, WithAlias(y[Len(y)], t.text)), T)
  BY <1>4 DEF P!SetLast, Stmt, Turned, WithAlias, WithItems
<1> QED  BY <1>1, <1>3, <1>5

LEMMA BuiltClauses ==
  ASSUME NEW T, NEW p, NEW x, NEW t
  PROVE  /\ P!Built(WithWhere(p, x, T), "left", t)
              = WithWhere(p, Append(x, NewCondition(t)), T)
         /\ P!Built(WithWhere(p, x, T), "op", t)
              = WithWhere(p, Turned(x, WithOp(x[Len(x)], t.type)), T)
         /\ P!Built(WithWhere(p, x, T), "right", t)
              = WithWhere(p, Turned(x, WithRight(x[Len(x)], t)), T)
         /\ P!Built(WithGroup(p, x, T), "group_col", t) = WithGroup(p, Append(x, t.text), T)
         /\ P!Built(WithOrder(p, x, T), "order_col", t)
              = WithOrder(p, Append(x, NewKey(t.text)), T)
         /\ P!Built(WithOrder(p, x, T), "order_desc", t)
              = WithOrder(p, Turned(x, Descending(x[Len(x)])), T)
<1>1. PICK s : s = WithWhere(p, x, T)  OBVIOUS
<1>2. P!Built(s, "left", t)
        = WithWhere(p, Append(x, NewCondition(t)), T)
  <2>1. P!Built(s, "left", t) = P!push_back(s, "where", NewCondition(t))
    BY DEF P!Built, NewCondition
  <2> QED  BY <1>1, <2>1 DEF P!push_back, Stmt, WithWhere
<1>3. P!Built(s, "op", t) = WithWhere(p, Turned(x, WithOp(x[Len(x)], t.type)), T)
  <2>1. P!Built(s, "op", t) = P!SetLast(s, "where", "op", t.type)  BY DEF P!Built
  <2> QED  BY <1>1, <2>1 DEF P!SetLast, Stmt, Turned, WithOp, WithWhere
<1>4. P!Built(s, "right", t) = WithWhere(p, Turned(x, WithRight(x[Len(x)], t)), T)
  <2>1. P!Built(s, "right", t) = P!SetLast(s, "where", "right", t)  BY DEF P!Built
  <2> QED  BY <1>1, <2>1 DEF P!SetLast, Stmt, Turned, WithRight, WithWhere
<1>5. P!Built(WithGroup(p, x, T), "group_col", t) = WithGroup(p, Append(x, t.text), T)
  <2>1. PICK u : u = WithGroup(p, x, T)  OBVIOUS
  <2>2. P!Built(u, "group_col", t) = P!push_back(u, "group_by", t.text)  BY DEF P!Built
  <2> QED  BY <2>1, <2>2 DEF P!push_back, Stmt, WithGroup
<1>6. PICK u : u = WithOrder(p, x, T)  OBVIOUS
<1>7. P!Built(u, "order_col", t) = WithOrder(p, Append(x, NewKey(t.text)), T)
  <2>1. P!Built(u, "order_col", t)
          = P!push_back(u, "order_by", NewKey(t.text))
    BY DEF P!Built, NewKey
  <2> QED  BY <1>6, <2>1 DEF P!push_back, Stmt, WithOrder
<1>8. P!Built(u, "order_desc", t)
        = WithOrder(p, Turned(x, Descending(x[Len(x)])), T)
  <2>1. P!Built(u, "order_desc", t) = P!SetLast(u, "order_by", "asc", FALSE)
    BY DEF P!Built
  <2> QED  BY <1>6, <2>1 DEF P!SetLast, Stmt, Turned, Descending, WithOrder
<1> QED  BY <1>1, <1>2, <1>3, <1>4, <1>5, <1>6, <1>7, <1>8

\* The labels that change nothing.
Silent ==
  {"table", "create_open", "col_more", "create_close", "into", "values", "insert_open",
   "value_more", "insert_close", "from", "where", "where_more", "group", "group_by",
   "group_more", "order", "order_by", "order_asc", "order_more", "agg_open", "agg_close",
   "as", "item_more"}

LEMMA BuiltSilent ==
  ASSUME NEW s, NEW l \in Silent, NEW t
  PROVE  P!Built(s, l, t) = s
BY DEF P!Built, Silent

----------------------------------------------------------------------------
(* What a SELECT says, as its clauses go on *)

LEMMA KindStays ==
  ASSUME NEW T, NEW p \in Seq(T), NEW t \in T, p # << >>
  PROVE  /\ KindOf(Append(p, t)) = KindOf(p)
         /\ Bracketed(Append(p, t)) <=> Bracketed(p)
         /\ Len(p) > 1 => StarOf(Append(p, t)) = StarOf(p)
         /\ Len(p) > 1 => (Starred(Append(p, t)) <=> Starred(p))
<1>1. PICK q : q = Append(p, t)  OBVIOUS
<1>2. q # << >> /\ q[1] = p[1]  BY <1>1, AppendFirst
<1>3. KindOf(q) = KindOf(p)  BY <1>2 DEF KindOf
<1>4. Bracketed(q) <=> Bracketed(p)  BY <1>2 DEF Bracketed
<1>5. ASSUME Len(p) > 1  PROVE Starred(q) <=> Starred(p)
  <2>1. Len(q) > 1 /\ q[2] = p[2]
    <3>1. Len(p) \in Nat /\ Len(q) = Len(p) + 1 /\ \A i \in 1 .. Len(p) : q[i] = p[i]
      BY <1>1, AppendFirst
    <3> QED  BY <1>5, <3>1
  <2> QED  BY <1>5, <2>1 DEF Starred
<1> QED  BY <1>1, <1>3, <1>4, <1>5 DEF StarOf

LEMMA SelectHasNoBrackets ==
  ASSUME NEW T, NEW p, p # << >>, p[1].type = "SELECT"
  PROVE  /\ KindOf(p) = "select" /\ ~Bracketed(p)
         /\ ColsOf(p, T) = << >> /\ ValuesOf(p, T) = << >>
         /\ TableOf(p, T) = RowsBegin(RowsAt(p, NameFn(T), "FROM", 1, "COMMA"))
<1>1. KindOf(p) = "select"  BY DEF KindOf
<1>2. ~Bracketed(p)  BY DEF Bracketed
<1>3. ColsOf(p, T) = << >> /\ ValuesOf(p, T) = << >>  BY DEF ColsOf, ValuesOf, RowsWithin
<1> QED  BY <1>1, <1>2, <1>3 DEF TableOf

\* A clause only begins with its head: it has no rows yet.
LEMMA RowsAtNext ==
  ASSUME NEW T, NEW p \in Seq(T), NEW t \in T, NEW c, InSelect(p, c), IsHead(t),
         Rank[c[1].type] < Rank[t.type], InSelect(Append(p, t), <<t>>),
         NEW f, NEW word \in DOMAIN Rank, NEW n \in {1, 2}, NEW separator
  PROVE  RowsAt(Append(p, t), f, word, n, separator) = RowsAt(p, f, word, n, separator)
<1>1. CASE word # t.type
  <2>1. ListOf(Append(p, t), word, n, separator) = ListOf(p, word, n, separator)
    BY <1>1, ListOfNext
  <2> QED  BY <2>1 DEF RowsAt
<1>2. CASE word = t.type
  <2>1. ListOf(p, word, n, separator) = << >>  BY <1>2, ListOfNone
  <2>2. RowsAt(p, f, word, n, separator) = << >>  BY <2>1, NoRows DEF RowsAt
  <2>3. PICK q \in Seq(T) : q = Append(p, t)  BY AppendProperties
  <2>4. PICK d \in Seq(T) : d = <<t>> /\ Len(d) = 1 /\ d[1] = t  BY OneToken
  <2>5. InSelect(q, d)  BY <2>3, <2>4
  <2>6. ListOf(q, d[1].type, n, separator) = Pieces(After(d, n), separator)
    BY <2>5, ListOfNow
  <2>7. d[1].type = word  BY <1>2, <2>4
  <2>8. After(d, n) = << >>
    <3>1. n \in Nat /\ n >= Len(d)  BY <2>4
    <3> QED  BY <3>1, AfterIs
  <2>9. RowsAt(q, f, word, n, separator) = << >>
    BY <2>6, <2>7, <2>8, NoRows DEF RowsAt, ListRows
  <2> QED  BY <2>2, <2>3, <2>9
<1> QED  BY <1>1, <1>2

LEMMA RowsAtStep ==
  ASSUME NEW T, NEW p \in Seq(T), NEW t \in T, NEW c, InSelect(p, c), ~IsHead(t),
         NEW f, NEW word, word # c[1].type, NEW n, NEW separator
  PROVE  RowsAt(Append(p, t), f, word, n, separator) = RowsAt(p, f, word, n, separator)
BY ListOfStep DEF RowsAt

\* A token that begins a clause says nothing more.
LEMMA HeadSays ==
  ASSUME NEW T, NEW p \in Seq(T), NEW t \in T, NEW c, InSelect(p, c), IsHead(t),
         Rank[c[1].type] < Rank[t.type], InSelect(Append(p, t), <<t>>)
  PROVE  Said(Append(p, t), T) = Said(p, T)
<1>1. PICK q : q = Append(p, t)  OBVIOUS
<1>2. p # << >> /\ p[1].type = "SELECT"  BY InSelectIs DEF InSelect
<1>3. q # << >> /\ q[1].type = "SELECT"  BY <1>1, <1>2, AppendFirst
<1>4. ASSUME NEW f, NEW word \in DOMAIN Rank, NEW n \in {1, 2}, NEW separator
      PROVE  RowsAt(q, f, word, n, separator) = RowsAt(p, f, word, n, separator)
  <2>1. RowsAt(Append(p, t), f, word, n, separator) = RowsAt(p, f, word, n, separator)
    BY RowsAtNext
  <2> QED  BY <1>1, <2>1
<1>5. {"SELECT", "FROM", "WHERE", "GROUP", "ORDER"} \subseteq DOMAIN Rank
  BY RanksAre
<1>6. KindOf(q) = KindOf(p) /\ ColsOf(q, T) = ColsOf(p, T) /\ ValuesOf(q, T) = ValuesOf(p, T)
  BY <1>2, <1>3, SelectHasNoBrackets
<1>7. TableOf(q, T) = TableOf(p, T)
  <2>1. RowsAt(q, NameFn(T), "FROM", 1, "COMMA") = RowsAt(p, NameFn(T), "FROM", 1, "COMMA")
    BY <1>4, <1>5
  <2> QED  BY <1>2, <1>3, <2>1, SelectHasNoBrackets
<1>8. /\ WhereOf(q, T) = WhereOf(p, T) /\ GroupOf(q, T) = GroupOf(p, T)
      /\ OrderOf(q, T) = OrderOf(p, T)
  BY <1>4, <1>5 DEF WhereOf, GroupOf, OrderOf
<1>9. Starred(q) <=> Starred(p)
  <2>1. CASE Len(p) > 1  BY <1>1, <1>2, <2>1, KindStays
  <2>2. CASE ~(Len(p) > 1)
    <3>1. Len(p) = 1 /\ Len(q) = 2 /\ q[2] = t  BY <1>1, <1>2, <2>2, AppendFirst
    <3>2. t.type # "STAR"  BY RanksAre DEF IsHead
    <3> QED  BY <3>1, <3>2 DEF Starred
  <2> QED  BY <2>1, <2>2
<1>10. StarOf(q) = StarOf(p) /\ ItemsOf(q, T) = ItemsOf(p, T)
  <2>1. RowsAt(q, ItemFn(T), "SELECT", 1, "COMMA") = RowsAt(p, ItemFn(T), "SELECT", 1, "COMMA")
    BY <1>4, <1>5
  <2> QED  BY <1>9, <2>1 DEF StarOf, ItemsOf
<1> QED  BY <1>1, <1>6, <1>7, <1>8, <1>10 DEF Said

\* Any other token only changes what the last clause says.
LEMMA SaidElsewhere ==
  ASSUME NEW T, NEW p \in Seq(T), NEW t \in T, NEW c, InSelect(p, c), ~IsHead(t)
  PROVE  /\ KindOf(Append(p, t)) = KindOf(p)
         /\ ColsOf(Append(p, t), T) = ColsOf(p, T)
         /\ ValuesOf(Append(p, t), T) = ValuesOf(p, T)
         /\ c[1].type # "FROM" => TableOf(Append(p, t), T) = TableOf(p, T)
         /\ c[1].type # "SELECT" =>
              StarOf(Append(p, t)) = StarOf(p) /\ ItemsOf(Append(p, t), T) = ItemsOf(p, T)
         /\ c[1].type # "WHERE" => WhereOf(Append(p, t), T) = WhereOf(p, T)
         /\ c[1].type # "GROUP" => GroupOf(Append(p, t), T) = GroupOf(p, T)
         /\ c[1].type # "ORDER" => OrderOf(Append(p, t), T) = OrderOf(p, T)
<1>1. PICK q : q = Append(p, t)  OBVIOUS
<1>2. p # << >> /\ p[1].type = "SELECT"  BY InSelectIs DEF InSelect
<1>3. q # << >> /\ q[1].type = "SELECT"  BY <1>1, <1>2, AppendFirst
<1>4. ASSUME NEW f, NEW word, word # c[1].type, NEW n, NEW separator
      PROVE  RowsAt(q, f, word, n, separator) = RowsAt(p, f, word, n, separator)
  BY <1>1, <1>4, RowsAtStep
<1>5. KindOf(q) = KindOf(p) /\ ColsOf(q, T) = ColsOf(p, T) /\ ValuesOf(q, T) = ValuesOf(p, T)
  BY <1>2, <1>3, SelectHasNoBrackets
<1>6. ASSUME c[1].type # "FROM"  PROVE TableOf(q, T) = TableOf(p, T)
  <2>1. RowsAt(q, NameFn(T), "FROM", 1, "COMMA") = RowsAt(p, NameFn(T), "FROM", 1, "COMMA")
    BY <1>4, <1>6
  <2> QED  BY <1>2, <1>3, <2>1, SelectHasNoBrackets
<1>7. ASSUME c[1].type # "SELECT"
      PROVE  StarOf(q) = StarOf(p) /\ ItemsOf(q, T) = ItemsOf(p, T)
  <2>1. RowsAt(q, ItemFn(T), "SELECT", 1, "COMMA") = RowsAt(p, ItemFn(T), "SELECT", 1, "COMMA")
    BY <1>4, <1>7
  <2>2. Len(p) > 1
    <3>1. Len(c) >= 1 /\ Len(p) >= Len(c) /\ Len(p) # Len(c) /\ c \in Seq(T)
      BY <1>7, InSelectIs
    <3>2. Len(p) \in Nat /\ Len(c) \in Nat  BY <3>1, LenProperties
    <3> QED  BY <3>1, <3>2
  <2>3. Starred(q) <=> Starred(p)  BY <1>1, <1>2, <2>2, KindStays
  <2> QED  BY <2>1, <2>3 DEF StarOf, ItemsOf
<1>8. c[1].type # "WHERE" => WhereOf(q, T) = WhereOf(p, T)  BY <1>4 DEF WhereOf
<1>9. c[1].type # "GROUP" => GroupOf(q, T) = GroupOf(p, T)  BY <1>4 DEF GroupOf
<1>10. c[1].type # "ORDER" => OrderOf(q, T) = OrderOf(p, T)  BY <1>4 DEF OrderOf
<1> QED  BY <1>1, <1>5, <1>6, <1>7, <1>8, <1>9, <1>10

----------------------------------------------------------------------------
(* The rows of the last clause *)

LEMMA FramedShapes ==
  ASSUME NEW begin, NEW separator, NEW shapes, Framed(begin, separator, shapes)
  PROVE  << >> \notin shapes
<1>1. << >> \notin Items
  <2>1. \A q \in Items : Len(q) >= 1  BY ItemsAre
  <2> QED  BY <2>1
<1>2. << >> \notin Conditions  BY DEF Conditions
<1>3. << >> \notin {<<"IDENT">>}  OBVIOUS
<1>4. << >> \notin Keys  BY DEF Keys
<1> QED  BY <1>1, <1>2, <1>3, <1>4 DEF Framed

LEMMA RowsAtLast ==
  ASSUME NEW T, NEW p \in Seq(T), NEW t \in T, NEW c, NEW begin, NEW separator,
         NEW shapes, NEW o, Framed(begin, separator, shapes), ~IsHead(t),
         InList(p, c, begin, separator, shapes, o), NEW f
  PROVE  \E s \in Seq(T) :
           /\ IsOpen(s, separator, shapes, o)
           /\ RowsAt(p, f, begin[1], Len(begin), separator) = ListRows(f, s, separator)
           /\ RowsAt(Append(p, t), f, begin[1], Len(begin), separator)
                = ListRows(f, Append(s, t), separator)
<1>1. InSelect(p, c) /\ Begins(c, begin) /\ IsOpen(After(c, Len(begin)), separator, shapes, o)
  BY DEF InList
<1>2. PICK n \in 1 .. 2 : n = Len(begin)  BY FramedIs
<1>3. c \in Seq(T) /\ c # << >>  BY <1>1, InSelectIs
<1>4. c[1].type = begin[1] /\ n <= Len(c)  BY <1>1, <1>2 DEF Begins
<1>5. PICK s \in Seq(T) : s = After(c, n)
  <2>1. n \in Nat  BY <1>2
  <2> QED  BY <1>3, <2>1, AfterIs
<1>6. PICK d \in Seq(T) : d = Append(c, t)  BY <1>3, AppendProperties
<1>7. PICK q \in Seq(T) : q = Append(p, t)  BY AppendProperties
<1>8. InSelect(q, d)  BY <1>1, <1>6, <1>7, SelectStep
<1>9. d[1] = c[1]  BY <1>3, <1>6, AppendFirst
<1>10. After(d, n) = Append(s, t)
  <2>1. n \in Nat  BY <1>2
  <2> QED  BY <1>3, <1>4, <1>5, <1>6, <2>1, AfterGrows
<1>11. ListOf(p, c[1].type, n, separator) = Pieces(s, separator)
  BY <1>1, <1>5, ListOfNow
<1>12. ListOf(q, d[1].type, n, separator) = Pieces(Append(s, t), separator)
  <2>1. ListOf(q, d[1].type, n, separator) = Pieces(After(d, n), separator)
    BY <1>8, ListOfNow
  <2> QED  BY <1>10, <2>1
<1> QED  BY <1>1, <1>2, <1>4, <1>5, <1>7, <1>9, <1>11, <1>12 DEF RowsAt, ListRows

LEMMA ClauseMoves ==
  ASSUME NEW T, NEW p \in Seq(T), NEW t \in T, NEW c, NEW begin, NEW separator,
         NEW shapes, NEW o, Framed(begin, separator, shapes), ~IsHead(t),
         InList(p, c, begin, separator, shapes, o), NEW f
  PROVE  Moves(RowsAt(p, f, begin[1], Len(begin), separator),
               RowsAt(Append(p, t), f, begin[1], Len(begin), separator),
               f, o, separator, shapes, t, T)
<1>1. PICK s \in Seq(T) :
        /\ IsOpen(s, separator, shapes, o)
        /\ RowsAt(p, f, begin[1], Len(begin), separator) = ListRows(f, s, separator)
        /\ RowsAt(Append(p, t), f, begin[1], Len(begin), separator)
             = ListRows(f, Append(s, t), separator)
  BY RowsAtLast
<1>2. << >> \notin shapes  BY FramedShapes
<1>3. Moves(ListRows(f, s, separator), ListRows(f, Append(s, t), separator),
            f, o, separator, shapes, t, T)
  BY <1>1, <1>2, RowsMove
<1> QED  BY <1>1, <1>3

----------------------------------------------------------------------------
(* WHERE, GROUP BY and ORDER BY *)

LEMMA ListClause ==
  ASSUME NEW T, NEW p \in Seq(T), NEW c, NEW begin, NEW separator, NEW shapes, NEW o,
         Framed(begin, separator, shapes), InList(p, c, begin, separator, shapes, o)
  PROVE  InSelect(p, c) /\ c[1].type = begin[1]
<1>1. InSelect(p, c) /\ Begins(c, begin)  BY DEF InList
<1>2. Len(begin) \in 1 .. 2  BY FramedIs
<1> QED  BY <1>1, <1>2 DEF Begins

\* The head of another clause says nothing.
LEMMA ListHeadSays ==
  ASSUME NEW T, NEW p \in Seq(T), NEW t \in T, NEW begin, NEW separator, NEW shapes,
         NEW o \in shapes, Framed(begin, separator, shapes),
         Listing(p, begin, separator, shapes, o), begin[1] # "SELECT",
         IsHead(t), Rank[begin[1]] < Rank[t.type]
  PROVE  Said(Append(p, t), T) = Said(p, T)
<1>1. PICK c : InList(p, c, begin, separator, shapes, o)  BY DEF Listing
<1>2. InSelect(p, c) /\ c[1].type = begin[1]  BY <1>1, ListClause
<1>3. InSelect(Append(p, t), <<t>>)  BY ListingLeft
<1>4. Rank[c[1].type] < Rank[t.type]  BY <1>2
<1> QED  BY <1>2, <1>3, <1>4, HeadSays

LEMMA WhereMoves ==
  ASSUME NEW T, NEW p \in Seq(T), NEW t \in T, ~IsHead(t), NEW o, Filtering(p, o)
  PROVE  /\ Moves(WhereOf(p, T), WhereOf(Append(p, t), T), ConditionFn(T), o, "AND",
                  Conditions, t, T)
         /\ Said(Append(p, t), T) = WithWhere(p, WhereOf(Append(p, t), T), T)
<1>0. PICK begin : begin = <<"WHERE">>  OBVIOUS
<1>1. Framed(begin, "AND", Conditions) /\ begin[1] = "WHERE" /\ Len(begin) = 1
  BY <1>0, Frames
<1>2. PICK c : InList(p, c, begin, "AND", Conditions, o)
  BY <1>0 DEF Filtering, Listing
<1>3. InSelect(p, c) /\ c[1].type = "WHERE"  BY <1>1, <1>2, ListClause
<1>4. PICK f : f = ConditionFn(T)  OBVIOUS
<1>5. Moves(RowsAt(p, f, begin[1], Len(begin), "AND"),
            RowsAt(Append(p, t), f, begin[1], Len(begin), "AND"),
            f, o, "AND", Conditions, t, T)
  BY <1>1, <1>2, ClauseMoves
<1>6. Moves(WhereOf(p, T), WhereOf(Append(p, t), T), f, o, "AND", Conditions, t, T)
  BY <1>1, <1>4, <1>5 DEF WhereOf
<1>7. /\ KindOf(Append(p, t)) = KindOf(p) /\ ColsOf(Append(p, t), T) = ColsOf(p, T)
      /\ ValuesOf(Append(p, t), T) = ValuesOf(p, T)
      /\ TableOf(Append(p, t), T) = TableOf(p, T)
      /\ StarOf(Append(p, t)) = StarOf(p) /\ ItemsOf(Append(p, t), T) = ItemsOf(p, T)
      /\ GroupOf(Append(p, t), T) = GroupOf(p, T)
      /\ OrderOf(Append(p, t), T) = OrderOf(p, T)
  BY <1>3, SaidElsewhere
<1> QED  BY <1>4, <1>6, <1>7 DEF Said, WithWhere

LEMMA GroupMoves ==
  ASSUME NEW T, NEW p \in Seq(T), NEW t \in T, ~IsHead(t), NEW o, Grouping(p, o)
  PROVE  /\ Moves(GroupOf(p, T), GroupOf(Append(p, t), T), NameFn(T), o, "COMMA",
                  {<<"IDENT">>}, t, T)
         /\ Said(Append(p, t), T) = WithGroup(p, GroupOf(Append(p, t), T), T)
<1>0. PICK begin : begin = <<"GROUP", "BY">>  OBVIOUS
<1>1. Framed(begin, "COMMA", {<<"IDENT">>}) /\ begin[1] = "GROUP" /\ Len(begin) = 2
  BY <1>0, Frames
<1>2. PICK c : InList(p, c, begin, "COMMA", {<<"IDENT">>}, o)
  BY <1>0 DEF Grouping, Listing
<1>3. InSelect(p, c) /\ c[1].type = "GROUP"  BY <1>1, <1>2, ListClause
<1>4. PICK f : f = NameFn(T)  OBVIOUS
<1>5. Moves(RowsAt(p, f, begin[1], Len(begin), "COMMA"),
            RowsAt(Append(p, t), f, begin[1], Len(begin), "COMMA"),
            f, o, "COMMA", {<<"IDENT">>}, t, T)
  BY <1>1, <1>2, ClauseMoves
<1>6. Moves(GroupOf(p, T), GroupOf(Append(p, t), T), f, o, "COMMA", {<<"IDENT">>}, t, T)
  BY <1>1, <1>4, <1>5 DEF GroupOf
<1>7. /\ KindOf(Append(p, t)) = KindOf(p) /\ ColsOf(Append(p, t), T) = ColsOf(p, T)
      /\ ValuesOf(Append(p, t), T) = ValuesOf(p, T)
      /\ TableOf(Append(p, t), T) = TableOf(p, T)
      /\ StarOf(Append(p, t)) = StarOf(p) /\ ItemsOf(Append(p, t), T) = ItemsOf(p, T)
      /\ WhereOf(Append(p, t), T) = WhereOf(p, T)
      /\ OrderOf(Append(p, t), T) = OrderOf(p, T)
  BY <1>3, SaidElsewhere
<1> QED  BY <1>4, <1>6, <1>7 DEF Said, WithGroup

LEMMA OrderMoves ==
  ASSUME NEW T, NEW p \in Seq(T), NEW t \in T, ~IsHead(t), NEW o, Ordering(p, o)
  PROVE  /\ Moves(OrderOf(p, T), OrderOf(Append(p, t), T), KeyFn(T), o, "COMMA",
                  Keys, t, T)
         /\ Said(Append(p, t), T) = WithOrder(p, OrderOf(Append(p, t), T), T)
<1>0. PICK begin : begin = <<"ORDER", "BY">>  OBVIOUS
<1>1. Framed(begin, "COMMA", Keys) /\ begin[1] = "ORDER" /\ Len(begin) = 2
  BY <1>0, Frames
<1>2. PICK c : InList(p, c, begin, "COMMA", Keys, o)
  BY <1>0 DEF Ordering, Listing
<1>3. InSelect(p, c) /\ c[1].type = "ORDER"  BY <1>1, <1>2, ListClause
<1>4. PICK f : f = KeyFn(T)  OBVIOUS
<1>5. Moves(RowsAt(p, f, begin[1], Len(begin), "COMMA"),
            RowsAt(Append(p, t), f, begin[1], Len(begin), "COMMA"),
            f, o, "COMMA", Keys, t, T)
  BY <1>1, <1>2, ClauseMoves
<1>6. Moves(OrderOf(p, T), OrderOf(Append(p, t), T), f, o, "COMMA", Keys, t, T)
  BY <1>1, <1>4, <1>5 DEF OrderOf
<1>7. /\ KindOf(Append(p, t)) = KindOf(p) /\ ColsOf(Append(p, t), T) = ColsOf(p, T)
      /\ ValuesOf(Append(p, t), T) = ValuesOf(p, T)
      /\ TableOf(Append(p, t), T) = TableOf(p, T)
      /\ StarOf(Append(p, t)) = StarOf(p) /\ ItemsOf(Append(p, t), T) = ItemsOf(p, T)
      /\ WhereOf(Append(p, t), T) = WhereOf(p, T)
      /\ GroupOf(Append(p, t), T) = GroupOf(p, T)
  BY <1>3, SaidElsewhere
<1> QED  BY <1>4, <1>6, <1>7 DEF Said, WithOrder

----------------------------------------------------------------------------
(* What a piece says as it grows *)

LEMMA FnsAre ==
  ASSUME NEW T, NEW q \in Seq(T)
  PROVE  /\ ColumnFn(T)[q] = ColumnAt(q) /\ ValueFn(T)[q] = q[1]
         /\ ItemFn(T)[q] = ItemAt(q) /\ ConditionFn(T)[q] = ConditionAt(q)
         /\ NameFn(T)[q] = q[1].text /\ KeyFn(T)[q] = KeyAt(q)
BY DEF ColumnFn, ValueFn, ItemFn, ConditionFn, NameFn, KeyFn

LEMMA ConditionGrows ==
  ASSUME NEW T, NEW t \in T
  PROVE  /\ ConditionFn(T)[<<t>>] = NewCondition(t)
         /\ \A q \in Seq(T) : \A a : Types(q) = <<a>> =>
              ConditionFn(T)[Append(q, t)] = WithOp(ConditionFn(T)[q], t.type)
         /\ \A q \in Seq(T) : \A a, b : Types(q) = <<a, b>> =>
              ConditionFn(T)[Append(q, t)] = WithRight(ConditionFn(T)[q], t)
<1>1. ConditionFn(T)[<<t>>] = NewCondition(t)
  <2>1. PICK q \in Seq(T) : q = <<t>> /\ Len(q) = 1 /\ q[1] = t  BY OneToken
  <2>2. ConditionAt(q) = NewCondition(t)  BY <2>1 DEF ConditionAt, NewCondition
  <2>3. ConditionFn(T)[q] = ConditionAt(q)  BY FnsAre
  <2> QED  BY <2>1, <2>2, <2>3
<1>2. ASSUME NEW q \in Seq(T), NEW a, Types(q) = <<a>>
      PROVE  ConditionFn(T)[Append(q, t)] = WithOp(ConditionFn(T)[q], t.type)
  <2>1. PICK o : o = <<a>>  OBVIOUS
  <2>2. Len(o) = 1  BY <2>1
  <2>3. PICK u \in Seq(T) : Longer(q, u, t, 1)  BY <1>2, <2>1, <2>2, LongerIs
  <2>4. u = Append(q, t) /\ Len(q) = 1 /\ Len(u) = 2 /\ u[2] = t /\ u[1] = q[1]
    BY <2>3 DEF Longer
  <2>5. ConditionAt(u) = WithOp(ConditionAt(q), t.type)
    <3>1. PICK e : e = ""  OBVIOUS
    <3>2. PICK c : c = [left |-> q[1], op |-> e, right |-> q[1]]  OBVIOUS
    <3>3. ConditionAt(q) = [left |-> q[1], op |-> "", right |-> q[1]]
      BY <2>4 DEF ConditionAt
    <3>4. ConditionAt(u) = [left |-> q[1], op |-> t.type, right |-> q[1]]
      BY <2>4 DEF ConditionAt
    <3>5. WithOp(c, t.type) = [left |-> q[1], op |-> t.type, right |-> q[1]]
      BY <3>2 DEF WithOp
    <3> QED  BY <3>1, <3>2, <3>3, <3>4, <3>5
  <2>6. ConditionFn(T)[u] = ConditionAt(u) /\ ConditionFn(T)[q] = ConditionAt(q)  BY FnsAre
  <2> QED  BY <2>4, <2>5, <2>6
<1>3. ASSUME NEW q \in Seq(T), NEW a, NEW b, Types(q) = <<a, b>>
      PROVE  ConditionFn(T)[Append(q, t)] = WithRight(ConditionFn(T)[q], t)
  <2>1. PICK o : o = <<a, b>>  OBVIOUS
  <2>2. Len(o) = 2  BY <2>1
  <2>3. PICK u \in Seq(T) : Longer(q, u, t, 2)  BY <1>3, <2>1, <2>2, LongerIs
  <2>4. /\ u = Append(q, t) /\ Len(q) = 2 /\ Len(u) = 3 /\ u[3] = t
        /\ u[1] = q[1] /\ u[2] = q[2]
    BY <2>3 DEF Longer
  <2>5. ConditionAt(u) = WithRight(ConditionAt(q), t)
    <3>1. ConditionAt(q) = [left |-> q[1], op |-> q[2].type, right |-> q[1]]
      BY <2>4 DEF ConditionAt
    <3>2. ConditionAt(u) = [left |-> q[1], op |-> q[2].type, right |-> t]
      BY <2>4 DEF ConditionAt
    <3> QED  BY <3>1, <3>2 DEF WithRight
  <2>6. ConditionFn(T)[u] = ConditionAt(u) /\ ConditionFn(T)[q] = ConditionAt(q)  BY FnsAre
  <2> QED  BY <2>4, <2>5, <2>6
<1> QED  BY <1>1, <1>2, <1>3

LEMMA KeyGrows ==
  ASSUME NEW T, NEW t \in T
  PROVE  /\ NameFn(T)[<<t>>] = t.text
         /\ KeyFn(T)[<<t>>] = NewKey(t.text)
         /\ \A q \in Seq(T) : Types(q) = <<"IDENT">> =>
              /\ t.type = "DESC" =>
                   KeyFn(T)[Append(q, t)] = Descending(KeyFn(T)[q])
              /\ t.type # "DESC" => KeyFn(T)[Append(q, t)] = KeyFn(T)[q]
<1>1. NameFn(T)[<<t>>] = t.text /\ KeyFn(T)[<<t>>] = NewKey(t.text)
  <2>1. PICK q \in Seq(T) : q = <<t>> /\ Len(q) = 1 /\ q[1] = t  BY OneToken
  <2>2. KeyAt(q) = NewKey(t.text)  BY <2>1 DEF KeyAt, NewKey
  <2>3. KeyFn(T)[q] = KeyAt(q) /\ NameFn(T)[q] = q[1].text  BY FnsAre
  <2> QED  BY <2>1, <2>2, <2>3
<1>2. ASSUME NEW q \in Seq(T), Types(q) = <<"IDENT">>
      PROVE  /\ t.type = "DESC" =>
                  KeyFn(T)[Append(q, t)] = Descending(KeyFn(T)[q])
             /\ t.type # "DESC" => KeyFn(T)[Append(q, t)] = KeyFn(T)[q]
  <2>1. PICK o : o = <<"IDENT">>  OBVIOUS
  <2>2. Len(o) = 1  BY <2>1
  <2>3. PICK u \in Seq(T) : Longer(q, u, t, 1)  BY <1>2, <2>1, <2>2, LongerIs
  <2>4. u = Append(q, t) /\ Len(q) = 1 /\ Len(u) = 2 /\ u[2] = t /\ u[1] = q[1]
    BY <2>3 DEF Longer
  <2>5. t.type = "DESC" => KeyAt(u) = Descending(KeyAt(q))
    <3>1. KeyAt(q) = [col |-> q[1].text, asc |-> TRUE]  BY <2>4 DEF KeyAt
    <3>2. t.type = "DESC" => KeyAt(u) = [col |-> q[1].text, asc |-> FALSE]
      BY <2>4 DEF KeyAt
    <3> QED  BY <3>1, <3>2 DEF Descending
  <2>6. t.type # "DESC" => KeyAt(u) = KeyAt(q)  BY <2>4 DEF KeyAt
  <2>7. KeyFn(T)[u] = KeyAt(u) /\ KeyFn(T)[q] = KeyAt(q)  BY FnsAre
  <2> QED  BY <2>4, <2>5, <2>6, <2>7
<1> QED  BY <1>1, <1>2

----------------------------------------------------------------------------
(* What is built at a label is what the tokens say, with the one taken there *)

Tells(p, l, t, T) == Said(Append(p, t), T) = P!Built(Said(p, T), l, t)

LEMMA SilentTells ==
  ASSUME NEW T, NEW p, NEW t, NEW l \in Silent, Said(Append(p, t), T) = Said(p, T)
  PROVE  Tells(p, l, t, T)
BY BuiltSilent DEF Tells

LEMMA NoHeads ==
  \A t : t.type \in Operands \cup Comparisons \cup Aggregates \cup TypeNames
                    \cup {"AND", "COMMA", "BY", "DESC", "ASC", "AS", "LPAREN", "RPAREN"}
         => ~IsHead(t)
BY RanksAre DEF IsHead, Operands, Literals, Comparisons, Aggregates, TypeNames

LEMMA SilentLabels ==
  /\ {"where_more", "group", "order", "group_more", "order_asc", "order_more"} \subseteq Silent
  /\ {"agg_open", "agg_close", "as", "item_more", "from", "where", "group_by", "order_by"}
       \subseteq Silent
  /\ {"table", "create_open", "col_more", "create_close", "into", "values", "insert_open",
      "value_more", "insert_close"} \subseteq Silent
BY DEF Silent

LEMMA ConditionTells ==
  ASSUME NEW T, NEW p \in Seq(T), NEW t \in T, NEW l, NEW o,
         ConditionOpen(l, o), Filtering(p, o), Fits(l, t)
  PROVE  Tells(p, l, t, T)
<1> USE DEF Fits, Asks
<1>1. PICK r : r = WhereOf(p, T)  OBVIOUS
<1>2. PICK z : z = WhereOf(Append(p, t), T)  OBVIOUS
<1>3. PICK f : f = ConditionFn(T)  OBVIOUS
<1>4. ~IsHead(t) => /\ Moves(r, z, f, o, "AND", Conditions, t, T)
                    /\ Said(Append(p, t), T) = WithWhere(p, z, T)
  BY <1>1, <1>2, <1>3, WhereMoves
<1>5. Said(p, T) = WithWhere(p, r, T)  BY <1>1, SaidIs
<1>6. CASE l = "left"
  <2>1. t.type \in Operands /\ o = << >>  BY <1>6, ConditionRules DEF ConditionOpen
  <2>2. ~IsHead(t)  BY <2>1, NoHeads
  <2>3. t.type # "AND"  BY <2>1 DEF Operands, Literals
  <2>4. z = Append(r, f[<<t>>])  BY <1>4, <2>1, <2>2, <2>3 DEF Moves, Started
  <2>5. f[<<t>>] = NewCondition(t)  BY <1>3, ConditionGrows
  <2>6. P!Built(WithWhere(p, r, T), "left", t) = WithWhere(p, z, T)
    BY <2>4, <2>5, BuiltClauses
  <2> QED  BY <1>4, <1>5, <1>6, <2>2, <2>6 DEF Tells
<1>7. CASE l = "op"
  <2>1. t.type \in Comparisons  BY <1>7, ConditionRules
  <2>2. PICK a : o = <<a>>  BY <1>7 DEF ConditionOpen
  <2>3. ~IsHead(t)  BY <2>1, NoHeads
  <2>4. t.type # "AND" /\ o # << >>  BY <2>1, <2>2 DEF Comparisons
  <2>5. PICK q \in Seq(T) : Types(q) = o /\ Changed(r, z, f, q, t, T)
    BY <1>4, <2>3, <2>4 DEF Moves
  <2>6. z = Turned(r, f[Append(q, t)]) /\ r[Len(r)] = f[q]  BY <2>5 DEF Changed
  <2>7. f[Append(q, t)] = WithOp(f[q], t.type)  BY <1>3, <2>2, <2>5, ConditionGrows
  <2>8. P!Built(WithWhere(p, r, T), "op", t) = WithWhere(p, z, T)
    BY <2>6, <2>7, BuiltClauses
  <2> QED  BY <1>4, <1>5, <1>7, <2>3, <2>8 DEF Tells
<1>8. CASE l = "right"
  <2>1. t.type \in Operands  BY <1>8, ConditionRules
  <2>2. PICK a, b : o = <<a, b>>  BY <1>8 DEF ConditionOpen
  <2>3. ~IsHead(t)  BY <2>1, NoHeads
  <2>4. t.type # "AND" /\ o # << >>  BY <2>1, <2>2 DEF Operands, Literals
  <2>5. PICK q \in Seq(T) : Types(q) = o /\ Changed(r, z, f, q, t, T)
    BY <1>4, <2>3, <2>4 DEF Moves
  <2>6. z = Turned(r, f[Append(q, t)]) /\ r[Len(r)] = f[q]  BY <2>5 DEF Changed
  <2>7. Types(q) = <<a, b>>  BY <2>2, <2>5
  <2>8. f[Append(q, t)] = WithRight(f[q], t)  BY <1>3, <2>7, ConditionGrows, ZenonT(60)
  <2>9. P!Built(WithWhere(p, r, T), "right", t) = WithWhere(p, z, T)
    BY <2>6, <2>8, BuiltClauses
  <2> QED  BY <1>4, <1>5, <1>8, <2>3, <2>9 DEF Tells
<1>9. CASE l = "where_more"
  <2>1. t.type = "AND" /\ o \in Conditions  BY <1>9, SelectRules DEF ConditionOpen
  <2>2. ~IsHead(t)  BY <2>1, NoHeads
  <2>3. z = r  BY <1>4, <2>1, <2>2 DEF Moves
  <2>4. Said(Append(p, t), T) = Said(p, T)  BY <1>4, <1>5, <2>2, <2>3
  <2> QED  BY <1>9, <2>4, SilentLabels, SilentTells
<1>10. CASE l \in {"group", "order"}
  <2>1. t.type \in {"GROUP", "ORDER"} /\ o \in Conditions
    BY <1>10, SelectRules DEF ConditionOpen
  <2>2. PICK begin : begin = <<"WHERE">>  OBVIOUS
  <2>3. begin[1] = "WHERE" /\ Framed(begin, "AND", Conditions)  BY <2>2, Frames
  <2>4. Listing(p, begin, "AND", Conditions, o)  BY <2>2 DEF Filtering
  <2>5. IsHead(t) /\ Rank[begin[1]] < Rank[t.type]  BY <2>1, <2>3, RanksAre DEF IsHead
  <2>6. Said(Append(p, t), T) = Said(p, T)
    BY <2>1, <2>3, <2>4, <2>5, ListHeadSays
  <2> QED  BY <1>10, <2>6, SilentLabels, SilentTells
<1> QED  BY <1>6, <1>7, <1>8, <1>9, <1>10 DEF ConditionOpen

LEMMA NameTells ==
  ASSUME NEW T, NEW p \in Seq(T), NEW t \in T, NEW l, NEW o,
         NameOpen(l, o), Grouping(p, o), Fits(l, t)
  PROVE  Tells(p, l, t, T)
<1> USE DEF Fits, Asks
<1>1. PICK r : r = GroupOf(p, T)  OBVIOUS
<1>2. PICK z : z = GroupOf(Append(p, t), T)  OBVIOUS
<1>3. PICK f : f = NameFn(T)  OBVIOUS
<1>4. ~IsHead(t) => /\ Moves(r, z, f, o, "COMMA", {<<"IDENT">>}, t, T)
                    /\ Said(Append(p, t), T) = WithGroup(p, z, T)
  BY <1>1, <1>2, <1>3, GroupMoves
<1>5. Said(p, T) = WithGroup(p, r, T)  BY <1>1, SaidIs
<1>6. CASE l = "group_col"
  <2>1. t.type = "IDENT" /\ o = << >>  BY <1>6, SelectRules DEF NameOpen
  <2>2. ~IsHead(t)  BY <2>1, NoHeads DEF Operands
  <2>3. z = Append(r, f[<<t>>])  BY <1>4, <2>1, <2>2 DEF Moves, Started
  <2>4. f[<<t>>] = t.text  BY <1>3, KeyGrows
  <2>5. P!Built(WithGroup(p, r, T), "group_col", t) = WithGroup(p, z, T)
    BY <2>3, <2>4, BuiltClauses
  <2> QED  BY <1>4, <1>5, <1>6, <2>2, <2>5 DEF Tells
<1>7. CASE l = "group_more"
  <2>1. t.type = "COMMA" /\ o \in {<<"IDENT">>}  BY <1>7, SelectRules DEF NameOpen
  <2>2. ~IsHead(t)  BY <2>1, NoHeads
  <2>3. z = r  BY <1>4, <2>1, <2>2 DEF Moves
  <2>4. Said(Append(p, t), T) = Said(p, T)  BY <1>4, <1>5, <2>2, <2>3
  <2> QED  BY <1>7, <2>4, SilentLabels, SilentTells
<1>8. CASE l = "order"
  <2>1. t.type = "ORDER" /\ o \in {<<"IDENT">>}  BY <1>8, SelectRules DEF NameOpen
  <2>2. PICK begin : begin = <<"GROUP", "BY">>  OBVIOUS
  <2>3. begin[1] = "GROUP" /\ Framed(begin, "COMMA", {<<"IDENT">>})  BY <2>2, Frames
  <2>4. Listing(p, begin, "COMMA", {<<"IDENT">>}, o)  BY <2>2 DEF Grouping
  <2>5. IsHead(t) /\ Rank[begin[1]] < Rank[t.type]  BY <2>1, <2>3, RanksAre DEF IsHead
  <2>6. Said(Append(p, t), T) = Said(p, T)
    BY <2>1, <2>3, <2>4, <2>5, ListHeadSays
  <2> QED  BY <1>8, <2>6, SilentLabels, SilentTells
<1> QED  BY <1>6, <1>7, <1>8 DEF NameOpen

LEMMA KeyTells ==
  ASSUME NEW T, NEW p \in Seq(T), NEW t \in T, NEW l, NEW o,
         KeyOpen(l, o), Ordering(p, o), Fits(l, t)
  PROVE  Tells(p, l, t, T)
<1> USE DEF Fits, Asks
<1>1. PICK r : r = OrderOf(p, T)  OBVIOUS
<1>2. PICK z : z = OrderOf(Append(p, t), T)  OBVIOUS
<1>3. PICK f : f = KeyFn(T)  OBVIOUS
<1>4. ~IsHead(t) => /\ Moves(r, z, f, o, "COMMA", Keys, t, T)
                    /\ Said(Append(p, t), T) = WithOrder(p, z, T)
  BY <1>1, <1>2, <1>3, OrderMoves
<1>5. Said(p, T) = WithOrder(p, r, T)  BY <1>1, SaidIs
<1>6. CASE l = "order_col"
  <2>1. t.type = "IDENT" /\ o = << >>  BY <1>6, SelectRules DEF KeyOpen
  <2>2. ~IsHead(t)  BY <2>1, NoHeads DEF Operands
  <2>3. z = Append(r, f[<<t>>])  BY <1>4, <2>1, <2>2 DEF Moves, Started
  <2>4. f[<<t>>] = NewKey(t.text)  BY <1>3, KeyGrows
  <2>5. P!Built(WithOrder(p, r, T), "order_col", t) = WithOrder(p, z, T)
    BY <2>3, <2>4, BuiltClauses
  <2> QED  BY <1>4, <1>5, <1>6, <2>2, <2>5 DEF Tells
<1>7. CASE l \in {"order_desc", "order_asc"}
  <2>1. t.type \in {"DESC", "ASC"} /\ o = <<"IDENT">>  BY <1>7, SelectRules DEF KeyOpen
  <2>2. ~IsHead(t)  BY <2>1, NoHeads
  <2>3. o # << >> /\ t.type # "COMMA"  BY <2>1
  <2>4. PICK q \in Seq(T) : Types(q) = o /\ Changed(r, z, f, q, t, T)
    BY <1>4, <2>2, <2>3 DEF Moves
  <2>5. /\ z = Turned(r, f[Append(q, t)]) /\ r[Len(r)] = f[q]
        /\ r \in Seq(Sayings(f, T)) /\ Len(r) >= 1
    BY <2>4 DEF Changed
  <2>6. Types(q) = <<"IDENT">>  BY <2>1, <2>4
  <2>7. CASE l = "order_desc"
    <3>1. t.type = "DESC"  BY <2>7, SelectRules
    <3>2. f[Append(q, t)] = Descending(f[q])  BY <1>3, <2>6, <3>1, KeyGrows
    <3>3. P!Built(WithOrder(p, r, T), "order_desc", t) = WithOrder(p, z, T)
      BY <2>5, <3>2, BuiltClauses
    <3> QED  BY <1>4, <1>5, <2>2, <2>7, <3>3 DEF Tells
  <2>8. CASE l = "order_asc"
    <3>1. t.type = "ASC"  BY <2>8, SelectRules
    <3>2. f[Append(q, t)] = f[q]  BY <1>3, <2>6, <3>1, KeyGrows
    <3>3. z = r  BY <2>5, <3>2, TurnedSame
    <3>4. Said(Append(p, t), T) = Said(p, T)  BY <1>4, <1>5, <2>2, <3>3
    <3> QED  BY <2>8, <3>4, SilentLabels, SilentTells
  <2> QED  BY <1>7, <2>7, <2>8
<1>8. CASE l = "order_more"
  <2>1. t.type = "COMMA" /\ o \in Keys  BY <1>8, SelectRules DEF KeyOpen
  <2>2. ~IsHead(t)  BY <2>1, NoHeads
  <2>3. z = r  BY <1>4, <2>1, <2>2 DEF Moves
  <2>4. Said(Append(p, t), T) = Said(p, T)  BY <1>4, <1>5, <2>2, <2>3
  <2> QED  BY <1>8, <2>4, SilentLabels, SilentTells
<1> QED  BY <1>6, <1>7, <1>8 DEF KeyOpen

----------------------------------------------------------------------------
(* The items of a SELECT *)

LEMMA ItemMoves ==
  ASSUME NEW T, NEW p \in Seq(T), NEW t \in T, ~IsHead(t), NEW o, Choosing(p, o),
         ~Starred(Append(p, t))
  PROVE  /\ Moves(ItemsOf(p, T), ItemsOf(Append(p, t), T), ItemFn(T), o, "COMMA",
                  Items, t, T)
         /\ Said(Append(p, t), T) = WithItems(p, StarOf(p), ItemsOf(Append(p, t), T), T)
<1>0. PICK begin : begin = <<"SELECT">>  OBVIOUS
<1>1. Framed(begin, "COMMA", Items) /\ begin[1] = "SELECT" /\ Len(begin) = 1
  BY <1>0, Frames
<1>2. PICK c : InList(p, c, begin, "COMMA", Items, o)  BY <1>0 DEF Choosing
<1>3. InSelect(p, c) /\ c[1].type = "SELECT"  BY <1>1, <1>2, ListClause
<1>4. PICK f : f = ItemFn(T)  OBVIOUS
<1>5. Moves(RowsAt(p, f, begin[1], Len(begin), "COMMA"),
            RowsAt(Append(p, t), f, begin[1], Len(begin), "COMMA"),
            f, o, "COMMA", Items, t, T)
  BY <1>1, <1>2, ClauseMoves
<1>6. ~Starred(p)  BY DEF Choosing
<1>7. ItemsOf(p, T) = RowsAt(p, f, begin[1], Len(begin), "COMMA")
  BY <1>1, <1>4, <1>6 DEF ItemsOf
<1>8. ItemsOf(Append(p, t), T) = RowsAt(Append(p, t), f, begin[1], Len(begin), "COMMA")
  BY <1>1, <1>4 DEF ItemsOf
<1>9. /\ KindOf(Append(p, t)) = KindOf(p) /\ ColsOf(Append(p, t), T) = ColsOf(p, T)
      /\ ValuesOf(Append(p, t), T) = ValuesOf(p, T)
      /\ TableOf(Append(p, t), T) = TableOf(p, T)
      /\ WhereOf(Append(p, t), T) = WhereOf(p, T)
      /\ GroupOf(Append(p, t), T) = GroupOf(p, T)
      /\ OrderOf(Append(p, t), T) = OrderOf(p, T)
  BY <1>3, SaidElsewhere
<1>10. StarOf(Append(p, t)) = StarOf(p)  BY <1>6 DEF StarOf
<1> QED  BY <1>4, <1>5, <1>7, <1>8, <1>9, <1>10 DEF Said, WithItems

LEMMA ItemBegins ==
  ASSUME NEW T, NEW t \in T
  PROVE  /\ t.type = "IDENT" => ItemFn(T)[<<t>>] = NewItem(t.text)
         /\ t.type # "IDENT" => ItemFn(T)[<<t>>] = NewAgg(t.type)
<1>1. PICK q \in Seq(T) : q = <<t>> /\ Len(q) = 1 /\ q[1] = t  BY OneToken
<1>2. t.type = "IDENT" => ItemAt(q) = NewItem(t.text)
  BY <1>1 DEF ItemAt, ColAt, AliasAt, NewItem
<1>3. t.type # "IDENT" => ItemAt(q) = NewAgg(t.type)
  BY <1>1 DEF ItemAt, ColAt, AliasAt, NewAgg
<1>4. ItemFn(T)[q] = ItemAt(q)  BY FnsAre
<1> QED  BY <1>1, <1>2, <1>3, <1>4

\* Of an item of n tokens: what its next token t does.
LEMMA ItemGrows ==
  ASSUME NEW T, NEW t \in T, NEW q \in Seq(T), NEW n \in 1 .. 5, Len(q) = n
  PROVE  /\ n \in {1, 3, 4} /\ (n > 1 => q[1].type # "IDENT") =>
              ItemFn(T)[Append(q, t)] = ItemFn(T)[q]
         /\ n = 2 /\ q[1].type # "IDENT" =>
              ItemFn(T)[Append(q, t)] = WithAlias(WithCol(ItemFn(T)[q], t.text), t.text)
         /\ \/ n = 2 /\ q[1].type = "IDENT"
            \/ n = 5 /\ q[1].type # "IDENT"
            => ItemFn(T)[Append(q, t)] = WithAlias(ItemFn(T)[q], t.text)
<1>1. PICK u : u = Append(q, t)  OBVIOUS
<1>2. /\ u \in Seq(T) /\ Len(u) = n + 1 /\ u[n + 1] = t
      /\ \A i \in 1 .. n : u[i] = q[i]
  BY <1>1, AppendProperties
<1>3. ItemFn(T)[u] = ItemAt(u) /\ ItemFn(T)[q] = ItemAt(q)  BY <1>2, FnsAre
<1>4. PICK k, x, a, b : k = q[1].type /\ x = t.text /\ a = ColAt(q) /\ b = AliasAt(q)
  OBVIOUS
<1>5. u[1].type = k  BY <1>2, <1>4
<1>6. PICK g : g = IF k = "IDENT" THEN "none" ELSE k  OBVIOUS
<1>7. ItemAt(q) = [agg |-> g, col |-> a, alias |-> b]  BY <1>4, <1>6 DEF ItemAt
<1>8. ItemAt(u) = [agg |-> g, col |-> ColAt(u), alias |-> AliasAt(u)]
  BY <1>5, <1>6 DEF ItemAt
<1>9. ASSUME n \in {1, 3, 4}, n > 1 => k # "IDENT"  PROVE ItemAt(u) = ItemAt(q)
  <2>1. ColAt(u) = a
    <3>1. CASE k = "IDENT"  BY <1>2, <1>4, <1>5, <1>9, <3>1 DEF ColAt
    <3>2. CASE k # "IDENT" /\ n = 1  BY <1>2, <1>4, <1>5, <3>2 DEF ColAt
    <3>3. CASE k # "IDENT" /\ n \in {3, 4}
      <4>1. u[3] = q[3]  BY <1>2, <3>3
      <4> QED  BY <1>2, <1>4, <1>5, <3>3, <4>1 DEF ColAt
    <3> QED  BY <1>9, <3>1, <3>2, <3>3
  <2>2. AliasAt(u) = b
    <3>1. CASE k = "IDENT"  BY <1>2, <1>4, <1>5, <1>9, <3>1 DEF AliasAt
    <3>2. CASE k # "IDENT"
      <4>1. AliasAt(u) = ColAt(u)  BY <1>2, <1>5, <1>9, <3>2 DEF AliasAt
      <4>2. b = a  BY <1>4, <1>9, <3>2 DEF AliasAt
      <4> QED  BY <2>1, <4>1, <4>2
    <3> QED  BY <3>1, <3>2
  <2> QED  BY <1>7, <1>8, <2>1, <2>2
<1>10. ASSUME n = 2, k # "IDENT"
       PROVE  ItemAt(u) = WithAlias(WithCol(ItemAt(q), x), x)
  <2>1. ColAt(u) = x  BY <1>2, <1>4, <1>5, <1>10 DEF ColAt
  <2>2. AliasAt(u) = x  BY <1>2, <1>5, <1>10, <2>1 DEF AliasAt
  <2>3. ItemAt(u) = [agg |-> g, col |-> x, alias |-> x]  BY <1>8, <2>1, <2>2
  <2>4. WithCol(ItemAt(q), x) = [agg |-> g, col |-> x, alias |-> b]  BY <1>7 DEF WithCol
  <2>5. PICK i : i = WithCol(ItemAt(q), x)  OBVIOUS
  <2>6. WithAlias(i, x) = [agg |-> g, col |-> x, alias |-> x]  BY <2>4, <2>5 DEF WithAlias
  <2> QED  BY <2>3, <2>5, <2>6
<1>11. ASSUME (n = 2 /\ k = "IDENT") \/ (n = 5 /\ k # "IDENT")
       PROVE  ItemAt(u) = WithAlias(ItemAt(q), x)
  <2>1. ColAt(u) = a
    <3>1. n = 5 => u[3] = q[3]  BY <1>2
    <3> QED  BY <1>2, <1>4, <1>5, <1>11, <3>1 DEF ColAt
  <2>2. AliasAt(u) = x  BY <1>2, <1>4, <1>5, <1>11 DEF AliasAt
  <2>3. ItemAt(u) = [agg |-> g, col |-> a, alias |-> x]  BY <1>8, <2>1, <2>2
  <2> QED  BY <1>7, <2>3 DEF WithAlias
<1>12. PICK i, j : i = ItemFn(T)[q] /\ j = ItemFn(T)[Append(q, t)]  OBVIOUS
<1>13. i = ItemAt(q) /\ j = ItemAt(u)  BY <1>1, <1>3, <1>12
<1>14. n \in {1, 3, 4} /\ (n > 1 => k # "IDENT") => j = i  BY <1>9, <1>13
<1>15. n = 2 /\ k # "IDENT" => j = WithAlias(WithCol(i, x), x)  BY <1>10, <1>13
<1>16. (n = 2 /\ k = "IDENT") \/ (n = 5 /\ k # "IDENT") => j = WithAlias(i, x)
  BY <1>11, <1>13
<1> QED  BY <1>4, <1>12, <1>14, <1>15, <1>16

Simple(o, n) == Len(o) = n /\ o[1] = "IDENT"

Aggregate(o, n) == Len(o) = n /\ o[1] # "IDENT"

LEMMA PlainAre ==
  ASSUME NEW o \in Plain
  PROVE  \/ Simple(o, 1) /\ Simple(Append(o, "AS"), 2)
         \/ Aggregate(o, 4) /\ Aggregate(Append(o, "AS"), 5)
<1>1. PICK d : d = <<"IDENT">>  OBVIOUS
<1>2. CASE o = d
  <2>1. Simple(d, 1)  BY <1>1 DEF Simple
  <2>2. Simple(Append(d, "AS"), 2)  BY <1>1 DEF Simple
  <2> QED  BY <1>2, <2>1, <2>2
<1>3. CASE o # d
  <2>1. PICK a \in Aggregates : o = <<a, "LPAREN", "IDENT", "RPAREN">>
    BY <1>1, <1>3 DEF Plain
  <2>2. PICK e : e = <<a, "LPAREN", "IDENT", "RPAREN">>  OBVIOUS
  <2>3. a # "IDENT"  BY DEF Aggregates
  <2>4. Aggregate(e, 4)  BY <2>2, <2>3 DEF Aggregate
  <2>5. Aggregate(Append(e, "AS"), 5)  BY <2>2, <2>3 DEF Aggregate
  <2> QED  BY <2>1, <2>2, <2>4, <2>5
<1> QED  BY <1>2, <1>3

LEMMA ItemStays ==
  ASSUME NEW T, NEW t \in T, NEW r, NEW z, NEW f, f = ItemFn(T), NEW q, NEW o,
         LastSays(r, z, f, q, o, t, T)
  PROVE  /\ Simple(o, 1) \/ Aggregate(o, 1) \/ Aggregate(o, 3) \/ Aggregate(o, 4)
              => f[Append(q, t)] = f[q]
         /\ Aggregate(o, 2) => f[Append(q, t)] = WithAlias(WithCol(f[q], t.text), t.text)
         /\ Simple(o, 2) \/ Aggregate(o, 5) => f[Append(q, t)] = WithAlias(f[q], t.text)
<1>1. q \in Seq(T) /\ Len(q) = Len(o) /\ q[1].type = o[1]  BY DEF LastSays
<1>2. CASE Simple(o, 1)
  <2>1. Len(q) = 1  BY <1>1, <1>2 DEF Simple
  <2>2. f[Append(q, t)] = f[q]  BY <1>1, <2>1, ItemGrows
  <2> QED  BY <1>2, <2>2 DEF Simple, Aggregate
<1>3. CASE Aggregate(o, 1)
  <2>1. Len(q) = 1  BY <1>1, <1>3 DEF Aggregate
  <2>2. f[Append(q, t)] = f[q]  BY <1>1, <2>1, ItemGrows
  <2> QED  BY <1>3, <2>2 DEF Simple, Aggregate
<1>4. CASE Aggregate(o, 2)
  <2>1. Len(q) = 2 /\ q[1].type # "IDENT"  BY <1>1, <1>4 DEF Aggregate
  <2>2. f[Append(q, t)] = WithAlias(WithCol(f[q], t.text), t.text)
    BY <1>1, <2>1, ItemGrows
  <2> QED  BY <1>4, <2>2 DEF Simple, Aggregate
<1>5. CASE Aggregate(o, 3)
  <2>1. Len(q) = 3 /\ q[1].type # "IDENT"  BY <1>1, <1>5 DEF Aggregate
  <2>2. f[Append(q, t)] = f[q]  BY <1>1, <2>1, ItemGrows
  <2> QED  BY <1>5, <2>2 DEF Simple, Aggregate
<1>6. CASE Aggregate(o, 4)
  <2>1. Len(q) = 4 /\ q[1].type # "IDENT"  BY <1>1, <1>6 DEF Aggregate
  <2>2. f[Append(q, t)] = f[q]  BY <1>1, <2>1, ItemGrows
  <2> QED  BY <1>6, <2>2 DEF Simple, Aggregate
<1>7. CASE Simple(o, 2)
  <2>1. Len(q) = 2 /\ q[1].type = "IDENT"  BY <1>1, <1>7 DEF Simple
  <2>2. f[Append(q, t)] = WithAlias(f[q], t.text)  BY <1>1, <2>1, ItemGrows
  <2> QED  BY <1>7, <2>2 DEF Simple, Aggregate
<1>8. CASE Aggregate(o, 5)
  <2>1. Len(q) = 5 /\ q[1].type # "IDENT"  BY <1>1, <1>8 DEF Aggregate
  <2>2. f[Append(q, t)] = WithAlias(f[q], t.text)  BY <1>1, <2>1, ItemGrows
  <2> QED  BY <1>8, <2>2 DEF Simple, Aggregate
<1> QED  BY <1>2, <1>3, <1>4, <1>5, <1>6, <1>7, <1>8

LEMMA StarNot ==
  ASSUME NEW T, NEW p \in Seq(T), NEW t \in T, NEW o, Choosing(p, o), t.type # "STAR"
  PROVE  ~Starred(Append(p, t))
<1>1. PICK c : InList(p, c, <<"SELECT">>, "COMMA", Items, o)  BY DEF Choosing
<1>2. p # << >> /\ ~Starred(p)  BY <1>1, ChoosingIs DEF Choosing
<1> QED  BY <1>2, StarStays

LEMMA ItemTells ==
  ASSUME NEW T, NEW p \in Seq(T), NEW t \in T, NEW l, NEW o,
         ItemOpen(l, o), Choosing(p, o), Fits(l, t)
  PROVE  Tells(p, l, t, T)
<1> USE DEF Fits, Asks
<1>1. PICK r : r = ItemsOf(p, T)  OBVIOUS
<1>2. PICK z : z = ItemsOf(Append(p, t), T)  OBVIOUS
<1>3. PICK f : f = ItemFn(T)  OBVIOUS
<1>4. PICK st : st = StarOf(p)  OBVIOUS
<1>5. ~IsHead(t) /\ t.type # "STAR" =>
        /\ Moves(r, z, f, o, "COMMA", Items, t, T)
        /\ Said(Append(p, t), T) = WithItems(p, st, z, T)
  BY <1>1, <1>2, <1>3, <1>4, ItemMoves, StarNot
<1>6. ASSUME ~IsHead(t), t.type # "STAR", t.type # "COMMA", o # << >>, Len(o) >= 1
       PROVE  \E q : LastSays(r, z, f, q, o, t, T)
  <2>1. PICK separator, shapes : separator = "COMMA" /\ shapes = Items  OBVIOUS
  <2>2. Moves(r, z, f, o, separator, shapes, t, T)  BY <1>5, <1>6, <2>1
  <2>3. t.type # separator  BY <1>6, <2>1
  <2> QED  BY <1>6, <2>2, <2>3, MovesLast
<1>7. Said(p, T) = WithItems(p, st, r, T)  BY <1>1, <1>4, SaidIs
<1>8. z = r /\ ~IsHead(t) /\ t.type # "STAR" /\ l \in Silent => Tells(p, l, t, T)
  BY <1>5, <1>7, SilentTells
<1>9. ASSUME P!Built(WithItems(p, st, r, T), l, t) = WithItems(p, st, z, T),
             ~IsHead(t), t.type # "STAR"
      PROVE  Tells(p, l, t, T)
  BY <1>5, <1>7, <1>9 DEF Tells
<1>10. CASE l = "item"
  <2>1. t.type \in Aggregates /\ o = << >>  BY <1>10, ItemRules DEF ItemOpen, Aggregates
  <2>2. ~IsHead(t) /\ t.type \notin {"COMMA", "STAR", "IDENT"}
    BY <2>1, NoHeads DEF Aggregates
  <2>3. f[<<t>>] = NewAgg(t.type)  BY <1>3, <2>2, ItemBegins
  <2>4. z = Append(r, NewAgg(t.type))  BY <1>5, <2>1, <2>2, <2>3 DEF Moves, Started
  <2>5. P!Built(WithItems(p, st, r, T), "item", t) = WithItems(p, st, z, T)
    BY <2>4, BuiltItem
  <2> QED  BY <1>9, <1>10, <2>2, <2>5
<1>11. CASE l = "item_col"
  <2>1. t.type = "IDENT" /\ o = << >>  BY <1>11, ItemRules DEF ItemOpen, Aggregates
  <2>2. ~IsHead(t) /\ t.type \notin {"COMMA", "STAR"}
    BY <2>1, NoHeads DEF Operands
  <2>3. f[<<t>>] = NewItem(t.text)  BY <1>3, <2>1, ItemBegins
  <2>4. z = Append(r, NewItem(t.text))  BY <1>5, <2>1, <2>2, <2>3 DEF Moves, Started
  <2>5. P!Built(WithItems(p, st, r, T), "item_col", t) = WithItems(p, st, z, T)
    BY <2>4, BuiltItem
  <2> QED  BY <1>9, <1>11, <2>2, <2>5
<1>12. CASE l \in {"agg_open", "agg_close", "as"}
  <2>1. t.type \in {"LPAREN", "RPAREN", "AS"}  BY <1>12, ItemRules
  <2>2. ~IsHead(t) /\ t.type \notin {"COMMA", "STAR"}  BY <2>1, NoHeads
  <2>3. Simple(o, 1) \/ Aggregate(o, 1) \/ Aggregate(o, 3) \/ Aggregate(o, 4)
    <3>1. CASE l = "agg_open"
      <4>1. PICK a \in Aggregates : o = <<a>>  BY <3>1 DEF ItemOpen
      <4>2. a # "IDENT"  BY DEF Aggregates
      <4>3. Aggregate(o, 1)  BY <4>1, <4>2 DEF Aggregate
      <4> QED  BY <4>3
    <3>2. CASE l = "agg_close"
      <4>1. PICK a \in Aggregates : o = <<a, "LPAREN", "IDENT">>  BY <3>2 DEF ItemOpen
      <4>2. a # "IDENT"  BY DEF Aggregates
      <4>3. Aggregate(o, 3)  BY <4>1, <4>2 DEF Aggregate
      <4> QED  BY <4>3
    <3>3. CASE l = "as"
      <4>1. o \in Plain  BY <3>3 DEF ItemOpen
      <4> QED  BY <4>1, PlainAre
    <3> QED  BY <1>12, <3>1, <3>2, <3>3
  <2>4. PICK q : LastSays(r, z, f, q, o, t, T)
    <3>1. Len(o) >= 1 /\ o # << >>
      <4>1. Len(o) >= 1  BY <2>3 DEF Simple, Aggregate
      <4> QED  BY <4>1, NotEmpty
    <3> QED  BY <1>6, <2>2, <3>1
  <2>5. f[Append(q, t)] = f[q]  BY <1>3, <2>3, <2>4, ItemStays
  <2>6. z = r  BY <2>4, <2>5, TurnedSame DEF LastSays
  <2> QED  BY <1>8, <1>12, <2>2, <2>6, SilentLabels
<1>13. CASE l = "agg_col"
  <2>1. t.type = "IDENT"  BY <1>13, ItemRules
  <2>2. ~IsHead(t) /\ t.type \notin {"COMMA", "STAR"}  BY <2>1, NoHeads DEF Operands
  <2>3. PICK a \in Aggregates : o = <<a, "LPAREN">>  BY <1>13 DEF ItemOpen
  <2>4. a # "IDENT"  BY DEF Aggregates
  <2>5. Aggregate(o, 2)  BY <2>3, <2>4 DEF Aggregate
  <2>6. PICK q : LastSays(r, z, f, q, o, t, T)
    <3>1. Len(o) >= 1 /\ o # << >>
      <4>1. Len(o) >= 1  BY <2>5 DEF Aggregate
      <4> QED  BY <4>1, NotEmpty
    <3> QED  BY <1>6, <2>2, <3>1
  <2>7. f[Append(q, t)] = WithAlias(WithCol(f[q], t.text), t.text)
    BY <1>3, <2>5, <2>6, ItemStays
  <2>8. /\ z = Turned(r, f[Append(q, t)]) /\ r[Len(r)] = f[q]
        /\ r \in Seq(Sayings(f, T)) /\ Len(r) >= 1
    BY <2>6 DEF LastSays
  <2>9. PICK x : x = WithCol(r[Len(r)], t.text)  OBVIOUS
  <2>10. PICK y : y = Turned(r, x)  OBVIOUS
  <2>11. y[Len(y)] = x /\ Turned(y, WithAlias(x, t.text)) = Turned(r, WithAlias(x, t.text))
    BY <2>8, <2>10, TurnedTwice
  <2>12. z = Turned(y, WithAlias(y[Len(y)], t.text))  BY <2>7, <2>8, <2>9, <2>11
  <2>13. P!Built(WithItems(p, st, r, T), "agg_col", t) = WithItems(p, st, z, T)
    BY <2>9, <2>10, <2>12, BuiltAggregate
  <2> QED  BY <1>9, <1>13, <2>2, <2>13
<1>14. CASE l = "alias"
  <2>1. t.type = "IDENT"  BY <1>14, ItemRules
  <2>2. ~IsHead(t) /\ t.type \notin {"COMMA", "STAR"}  BY <2>1, NoHeads DEF Operands
  <2>3. PICK d \in Plain : o = Append(d, "AS")  BY <1>14 DEF ItemOpen
  <2>4. Simple(o, 2) \/ Aggregate(o, 5)  BY <2>3, PlainAre
  <2>5. PICK q : LastSays(r, z, f, q, o, t, T)
    <3>1. Len(o) >= 1 /\ o # << >>
      <4>1. Len(o) >= 1  BY <2>4 DEF Simple, Aggregate
      <4> QED  BY <4>1, NotEmpty
    <3> QED  BY <1>6, <2>2, <3>1
  <2>6. f[Append(q, t)] = WithAlias(f[q], t.text)  BY <1>3, <2>4, <2>5, ItemStays
  <2>7. z = Turned(r, WithAlias(r[Len(r)], t.text))  BY <2>5, <2>6 DEF LastSays
  <2>8. P!Built(WithItems(p, st, r, T), "alias", t) = WithItems(p, st, z, T)
    BY <2>7, BuiltItem
  <2> QED  BY <1>9, <1>14, <2>2, <2>8
<1>15. CASE l = "item_more"
  <2>1. t.type = "COMMA" /\ o \in Items  BY <1>15, ItemRules DEF ItemOpen
  <2>2. ~IsHead(t) /\ t.type # "STAR"  BY <2>1, NoHeads
  <2>3. z = r  BY <1>5, <2>1, <2>2 DEF Moves
  <2> QED  BY <1>8, <1>15, <2>2, <2>3, SilentLabels
<1>16. CASE l = "from"
  <2>1. t.type = "FROM" /\ o \in Items  BY <1>16, SelectRules DEF ItemOpen
  <2>2. InSelect(Append(p, t), <<t>>)  BY <2>1, ChoosingLeft
  <2>3. PICK begin : begin = <<"SELECT">>  OBVIOUS
  <2>4. begin[1] = "SELECT" /\ Framed(begin, "COMMA", Items)  BY <2>3, Frames
  <2>5. PICK c : InList(p, c, begin, "COMMA", Items, o)  BY <2>3 DEF Choosing
  <2>6. InSelect(p, c) /\ c[1].type = "SELECT"  BY <2>4, <2>5, ListClause
  <2>7. IsHead(t) /\ Rank[c[1].type] < Rank[t.type]  BY <2>1, <2>6, RanksAre DEF IsHead
  <2>8. Said(Append(p, t), T) = Said(p, T)  BY <2>2, <2>6, <2>7, HeadSays
  <2> QED  BY <1>16, <2>8, SilentLabels, SilentTells
<1> QED  BY <1>10, <1>11, <1>12, <1>13, <1>14, <1>15, <1>16 DEF ItemOpen

----------------------------------------------------------------------------
(* The clauses that are no lists, and the words in front of lists *)

\* A clause of n tokens or fewer has no rows behind them.
LEMMA NoRowsYet ==
  ASSUME NEW T, NEW p \in Seq(T), NEW c, InSelect(p, c), NEW n \in Nat, Len(c) <= n,
         NEW word, word = c[1].type, NEW f, NEW separator
  PROVE  RowsAt(p, f, word, n, separator) = << >>
<1>1. c \in Seq(T)  BY InSelectIs
<1>2. After(c, n) = << >>  BY <1>1, AfterIs, LenProperties
<1>3. ListOf(p, word, n, separator) = Pieces(<< >>, separator)
  BY <1>2, ListOfNow
<1> QED  BY <1>3, NoRows DEF RowsAt, ListRows

LEMMA ClauseHeadTells ==
  ASSUME NEW T, NEW p \in Seq(T), NEW t \in T, NEW c, InSelect(p, c), IsClause(c),
         IsHead(t), Rank[c[1].type] < Rank[t.type],
         c[1].type = "SELECT" => t.type = "FROM", NEW l \in Silent
  PROVE  Tells(p, l, t, T)
<1>1. InSelect(Append(p, t), <<t>>)  BY SelectNext
<1>2. Said(Append(p, t), T) = Said(p, T)  BY <1>1, HeadSays
<1> QED  BY <1>2, SilentTells

LEMMA StarTells ==
  ASSUME NEW T, NEW p \in Seq(T), NEW t \in T, NEW c, InSelect(p, c),
         Types(c) = <<"SELECT">>, t.type = "STAR"
  PROVE  Tells(p, "star", t, T)
<1>1. c \in Seq(T) /\ c[1].type = "SELECT" /\ Len(c) = 1  BY InSelectIs, OneType
<1>2. Len(p) = 1 /\ p # << >>  BY <1>1, InSelectIs
<1>3. ~IsHead(t)  BY RanksAre DEF IsHead
<1>4. Starred(Append(p, t)) /\ ~Starred(p)
  <2>1. Len(Append(p, t)) = 2 /\ Append(p, t)[2] = t  BY <1>2, AppendSecond
  <2> QED  BY <1>2, <2>1 DEF Starred
<1>5. ItemsOf(p, T) = << >>
  <2>1. PICK n \in Nat : n = 1  OBVIOUS
  <2>2. Len(c) <= n  BY <1>1, <2>1
  <2>3. RowsAt(p, ItemFn(T), "SELECT", n, "COMMA") = << >>  BY <1>1, <2>2, NoRowsYet
  <2> QED  BY <2>1, <2>3 DEF ItemsOf
<1>6. ItemsOf(Append(p, t), T) = << >>  BY <1>4 DEF ItemsOf
<1>7. StarOf(Append(p, t)) = TRUE  BY <1>4 DEF StarOf
<1>8. Said(Append(p, t), T) = WithItems(p, TRUE, << >>, T)
  <2>1. /\ KindOf(Append(p, t)) = KindOf(p) /\ ColsOf(Append(p, t), T) = ColsOf(p, T)
        /\ ValuesOf(Append(p, t), T) = ValuesOf(p, T)
        /\ TableOf(Append(p, t), T) = TableOf(p, T)
        /\ WhereOf(Append(p, t), T) = WhereOf(p, T)
        /\ GroupOf(Append(p, t), T) = GroupOf(p, T)
        /\ OrderOf(Append(p, t), T) = OrderOf(p, T)
    BY <1>1, <1>3, SaidElsewhere
  <2> QED  BY <1>6, <1>7, <2>1 DEF Said, WithItems
<1>9. Said(p, T) = WithItems(p, StarOf(p), << >>, T)  BY <1>5, SaidIs
<1>10. P!Built(WithItems(p, StarOf(p), << >>, T), "star", t) = WithItems(p, TRUE, << >>, T)
  BY BuiltStar
<1> QED  BY <1>8, <1>9, <1>10 DEF Tells

LEMMA FromTells ==
  ASSUME NEW T, NEW p \in Seq(T), NEW t \in T, NEW c, InSelect(p, c),
         Types(c) = <<"FROM">>, t.type = "IDENT"
  PROVE  Tells(p, "from_name", t, T)
<1>1. c \in Seq(T) /\ c[1].type = "FROM" /\ Len(c) = 1 /\ c # << >>
  BY InSelectIs, OneType
<1>2. p # << >> /\ p[1].type = "SELECT"
  <2>1. Len(p) >= Len(c) /\ p[1].type = "SELECT"  BY InSelectIs
  <2> QED  BY <1>1, <2>1, NotEmpty
<1>3. ~IsHead(t)  BY RanksAre DEF IsHead
<1>4. PICK w : w = Append(p, t)  OBVIOUS
<1>5. PICK d : d = Append(c, t)  OBVIOUS
<1>6. w \in Seq(T) /\ w # << >> /\ w[1].type = "SELECT"  BY <1>2, <1>4, AppendFirst
<1>7. d \in Seq(T) /\ d[1].type = "FROM"  BY <1>1, <1>5, AppendFirst
<1>8. InSelect(w, d)  BY <1>3, <1>4, <1>5, SelectStep
<1>9. PICK f : f = NameFn(T)  OBVIOUS
<1>10. RowsAt(w, f, "FROM", 1, "COMMA") = <<t.text>>
  <2>1. After(c, 1) = << >>
    <3>1. PICK n \in Nat : n = 1  OBVIOUS
    <3>2. n >= Len(c)  BY <1>1, <3>1
    <3> QED  BY <1>1, <3>1, <3>2, AfterIs
  <2>2. After(d, 1) = Append(<< >>, t)  BY <1>1, <1>5, <2>1, AfterGrows
  <2>3. ListOf(w, "FROM", 1, "COMMA") = Pieces(Append(<< >>, t), "COMMA")
    BY <1>6, <1>7, <1>8, <2>2, ListOfNow
  <2>4. PICK s \in Seq(T) : s = << >>  BY EmptySeq
  <2>5. PICK shapes : shapes = {<<"IDENT">>}  OBVIOUS
  <2>6. IsOpen(s, "COMMA", shapes, << >>)  BY <2>4, OpenNone
  <2>7. << >> \notin shapes  BY <2>5
  <2>8. Started(ListRows(f, s, "COMMA"), ListRows(f, Append(s, t), "COMMA"), f, t)
    BY <2>6, <2>7, RowsStart
  <2>9. ListRows(f, s, "COMMA") = << >>  BY <2>4, NoRows
  <2>10. f[<<t>>] = t.text  BY <1>9, KeyGrows
  <2>11. ListRows(f, Append(s, t), "COMMA") = <<t.text>>
    BY <2>8, <2>9, <2>10 DEF Started
  <2> QED  BY <2>3, <2>4, <2>11 DEF RowsAt, ListRows
<1>11. TableOf(w, T) = t.text
  <2>1. TableOf(w, T) = RowsBegin(RowsAt(w, f, "FROM", 1, "COMMA"))
    BY <1>6, <1>9, SelectHasNoBrackets
  <2>2. PICK r : r = <<t.text>>  OBVIOUS
  <2>3. r # << >> /\ r[1] = t.text  BY <2>2
  <2>4. RowsBegin(r) = t.text  BY <2>3 DEF RowsBegin
  <2> QED  BY <1>10, <2>1, <2>2, <2>4
<1>12. Said(w, T) = WithTable(p, t.text, T)
  <2>1. /\ KindOf(w) = KindOf(p) /\ ColsOf(w, T) = ColsOf(p, T)
        /\ ValuesOf(w, T) = ValuesOf(p, T)
        /\ StarOf(w) = StarOf(p) /\ ItemsOf(w, T) = ItemsOf(p, T)
        /\ WhereOf(w, T) = WhereOf(p, T)
        /\ GroupOf(w, T) = GroupOf(p, T)
        /\ OrderOf(w, T) = OrderOf(p, T)
    BY <1>1, <1>3, <1>4, SaidElsewhere
  <2> QED  BY <1>11, <2>1 DEF Said, WithTable
<1>13. Said(p, T) = WithTable(p, TableOf(p, T), T)  BY SaidIs
<1>14. P!Built(WithTable(p, TableOf(p, T), T), "from_name", t) = WithTable(p, t.text, T)
  BY BuiltHead
<1> QED  BY <1>4, <1>12, <1>13, <1>14 DEF Tells

LEMMA ByTells ==
  ASSUME NEW T, NEW p \in Seq(T), NEW t \in T, NEW c, InSelect(p, c),
         NEW l, NEW word, Types(c) = <<word>>, t.type = "BY",
         (l = "group_by" /\ word = "GROUP") \/ (l = "order_by" /\ word = "ORDER")
  PROVE  Tells(p, l, t, T)
<1>1. c \in Seq(T) /\ c[1].type = word /\ Len(c) = 1 /\ c # << >>
  BY InSelectIs, OneType
<1>2. ~IsHead(t)  BY NoHeads
<1>3. PICK w : w = Append(p, t)  OBVIOUS
<1>4. PICK d : d = Append(c, t)  OBVIOUS
<1>5. w \in Seq(T)  BY <1>3, AppendProperties
<1>6. d[1].type = word /\ Len(d) = 2  BY <1>1, <1>4, AppendSecond
<1>7. InSelect(w, d)  BY <1>2, <1>3, <1>4, SelectStep
<1>8. \A f : RowsAt(w, f, word, 2, "COMMA") = RowsAt(p, f, word, 2, "COMMA")
  <2> SUFFICES ASSUME NEW f
               PROVE  RowsAt(w, f, word, 2, "COMMA") = RowsAt(p, f, word, 2, "COMMA")
    OBVIOUS
  <2>1. PICK n \in Nat : n = 2  OBVIOUS
  <2>2. Len(c) <= n /\ Len(d) <= n  BY <1>1, <1>6, <2>1
  <2>3. RowsAt(p, f, word, n, "COMMA") = << >>  BY <1>1, <2>2, NoRowsYet
  <2>4. RowsAt(w, f, word, n, "COMMA") = << >>  BY <1>5, <1>6, <1>7, <2>2, NoRowsYet
  <2> QED  BY <2>1, <2>3, <2>4
<1>9. /\ KindOf(w) = KindOf(p) /\ ColsOf(w, T) = ColsOf(p, T)
      /\ ValuesOf(w, T) = ValuesOf(p, T) /\ TableOf(w, T) = TableOf(p, T)
      /\ StarOf(w) = StarOf(p) /\ ItemsOf(w, T) = ItemsOf(p, T)
      /\ WhereOf(w, T) = WhereOf(p, T)
      /\ word # "GROUP" => GroupOf(w, T) = GroupOf(p, T)
      /\ word # "ORDER" => OrderOf(w, T) = OrderOf(p, T)
  BY <1>1, <1>2, <1>3, SaidElsewhere
<1>10. GroupOf(w, T) = GroupOf(p, T)
  <2>1. CASE word = "GROUP"  BY <1>8, <2>1 DEF GroupOf
  <2> QED  BY <1>9, <2>1
<1>11. OrderOf(w, T) = OrderOf(p, T)
  <2>1. CASE word = "ORDER"  BY <1>8, <2>1 DEF OrderOf
  <2> QED  BY <1>9, <2>1
<1>12. Said(w, T) = Said(p, T)  BY <1>9, <1>10, <1>11 DEF Said
<1> QED  BY <1>3, <1>12, SilentLabels, SilentTells

LEMMA WordTells ==
  ASSUME NEW T, NEW p \in Seq(T), NEW t \in T, NEW l, NEW c, InSelect(p, c),
         Word(l, Types(c)), Fits(l, t)
  PROVE  Tells(p, l, t, T)
<1> USE DEF Fits, Asks
<1>1. c \in Seq(T)  BY InSelectIs
<1>2. CASE l = "star"
  <2>1. t.type = "STAR" /\ Types(c) = <<"SELECT">>  BY <1>2, SelectRules DEF Word
  <2> QED  BY <1>2, <2>1, StarTells
<1>3. CASE l = "from"
  <2>1. t.type = "FROM" /\ Types(c) = <<"SELECT", "STAR">>
    BY <1>3, SelectRules DEF Word
  <2>2. IsClause(c) /\ c[1].type = "SELECT"  BY <1>1, <2>1, StarIsClause
  <2>3. IsHead(t) /\ Rank[c[1].type] < Rank[t.type]  BY <2>1, <2>2, RanksAre DEF IsHead
  <2> QED  BY <1>3, <2>1, <2>2, <2>3, SilentLabels, ClauseHeadTells
<1>4. CASE l = "from_name"
  <2>1. t.type = "IDENT" /\ Types(c) = <<"FROM">>  BY <1>4, SelectRules DEF Word
  <2> QED  BY <1>4, <2>1, FromTells
<1>5. CASE l \in {"where", "group", "order"}
  <2>1. t.type \in {"WHERE", "GROUP", "ORDER"} /\ Types(c) = <<"FROM", "IDENT">>
    BY <1>5, SelectRules DEF Word
  <2>2. IsClause(c) /\ c[1].type = "FROM"  BY <1>1, <2>1, FromIsClause
  <2>3. IsHead(t) /\ Rank[c[1].type] < Rank[t.type]  BY <2>1, <2>2, RanksAre DEF IsHead
  <2> QED  BY <1>5, <2>1, <2>2, <2>3, SilentLabels, ClauseHeadTells
<1>6. CASE l = "group_by"
  <2>1. t.type = "BY" /\ Types(c) = <<"GROUP">>  BY <1>6, SelectRules DEF Word
  <2> QED  BY <1>6, <2>1, ByTells
<1>7. CASE l = "order_by"
  <2>1. t.type = "BY" /\ Types(c) = <<"ORDER">>  BY <1>7, SelectRules DEF Word
  <2> QED  BY <1>7, <2>1, ByTells
<1> QED  BY <1>2, <1>3, <1>4, <1>5, <1>6, <1>7 DEF Word

----------------------------------------------------------------------------
(* CREATE and INSERT *)

\* In a CREATE or an INSERT no word is there that a clause begins with.
Quiet(p) == Bracketed(p) => Heads(p) = {} /\ ~Starred(p)

Mute(t) == ~IsHead(t) /\ t.type # "STAR"

LEMMA MuteAre ==
  \A t : t.type \in Operands \cup TypeNames
                    \cup {"COMMA", "LPAREN", "RPAREN", "CREATE", "INSERT", "TABLE", "INTO",
                          "VALUES"}
         => Mute(t)
BY RanksAre DEF Mute, IsHead, Operands, Literals, TypeNames

LEMMA NoHeadsSay ==
  ASSUME NEW p, Heads(p) = {}
  PROVE  \A f, word, n, separator : RowsAt(p, f, word, n, separator) = << >>
<1> SUFFICES ASSUME NEW f, NEW word, NEW n, NEW separator
             PROVE  RowsAt(p, f, word, n, separator) = << >>
  OBVIOUS
<1>1. ListOf(p, word, n, separator) = << >>  BY DEF ListOf
<1> QED  BY <1>1, NoRows DEF RowsAt

LEMMA NoHeadsOf ==
  ASSUME NEW T, NEW p, Heads(p) = {}
  PROVE  /\ WhereOf(p, T) = << >> /\ GroupOf(p, T) = << >> /\ OrderOf(p, T) = << >>
         /\ ItemsOf(p, T) = << >>
         /\ ~Bracketed(p) => TableOf(p, T) = << >>
<1>1. WhereOf(p, T) = << >> /\ GroupOf(p, T) = << >> /\ OrderOf(p, T) = << >>
  BY NoHeadsSay DEF WhereOf, GroupOf, OrderOf
<1>2. ItemsOf(p, T) = << >>  BY NoHeadsSay DEF ItemsOf
<1>3. RowsAt(p, NameFn(T), "FROM", 1, "COMMA") = << >>  BY NoHeadsSay
<1>4. ~Bracketed(p) => TableOf(p, T) = << >>  BY <1>3 DEF TableOf, RowsBegin
<1> QED  BY <1>1, <1>2, <1>4

LEMMA NoHeadsStep ==
  ASSUME NEW T, NEW p \in Seq(T), NEW t \in T, Heads(p) = {}, ~IsHead(t)
  PROVE  Heads(Append(p, t)) = {}
<1>1. PICK w : w = Append(p, t)  OBVIOUS
<1>2. PICK n : n = Len(p)  OBVIOUS
<1>3. /\ n \in Nat /\ DOMAIN w = 1 .. n + 1 /\ w[n + 1] = t
      /\ \A i \in 1 .. n : w[i] = p[i]
      /\ DOMAIN p = 1 .. n
  BY <1>1, <1>2, AppendProperties, LenProperties
<1>4. ASSUME NEW i \in Heads(w)
      PROVE  FALSE
  <2>1. i \in 1 .. n + 1 /\ IsHead(w[i])  BY <1>3, <1>4 DEF Heads, IsHead
  <2>2. CASE i = n + 1  BY <1>3, <2>1, <2>2
  <2>3. CASE i \in 1 .. n
    <3>1. i \in Heads(p)  BY <1>3, <2>1, <2>3 DEF Heads, IsHead
    <3> QED  BY <3>1
  <2> QED  BY <1>3, <2>1, <2>2, <2>3
<1> QED  BY <1>1, <1>4

LEMMA QuietStep ==
  ASSUME NEW T, NEW p \in Seq(T), NEW t \in T, Bracketed(p), Quiet(p), Mute(t)
  PROVE  Quiet(Append(p, t))
<1>1. p # << >> /\ Heads(p) = {} /\ ~Starred(p)  BY DEF Quiet, Bracketed
<1>2. Heads(Append(p, t)) = {}  BY <1>1, NoHeadsStep DEF Mute
<1>3. ~Starred(Append(p, t))  BY <1>1, StarStays DEF Mute
<1> QED  BY <1>2, <1>3 DEF Quiet

\* What such a token does not change.
LEMMA BracketsSay ==
  ASSUME NEW T, NEW p \in Seq(T), NEW t \in T, Bracketed(p), Quiet(p), Mute(t)
  PROVE  LET w == Append(p, t)
         IN /\ w \in Seq(T) /\ Bracketed(w) /\ KindOf(w) = KindOf(p)
            /\ w[1] = p[1] /\ w # << >> /\ p # << >>
            /\ ItemsOf(w, T) = ItemsOf(p, T)
            /\ WhereOf(w, T) = WhereOf(p, T) /\ GroupOf(w, T) = GroupOf(p, T)
            /\ OrderOf(w, T) = OrderOf(p, T)
            /\ ~Starred(w) /\ ~Starred(p)
            /\ Len(p) # 2 => TableOf(w, T) = TableOf(p, T)
            /\ Len(p) = 2 => TableOf(w, T) = t.text
            /\ p[1].type # "CREATE" => ColsOf(w, T) = ColsOf(p, T)
            /\ p[1].type # "INSERT" => ValuesOf(w, T) = ValuesOf(p, T)
<1>0. PICK w : w = Append(p, t)  OBVIOUS
<1>1. p # << >> /\ Heads(p) = {} /\ ~Starred(p)  BY DEF Quiet, Bracketed
<1>2. w \in Seq(T) /\ w # << >> /\ w[1] = p[1]  BY <1>0, <1>1, AppendFirst
<1>3. Bracketed(w) /\ KindOf(w) = KindOf(p)  BY <1>0, <1>1, KindStays
<1>4. Heads(w) = {} /\ ~Starred(w)  BY <1>0, <1>3, QuietStep DEF Quiet
<1>5. /\ ItemsOf(w, T) = ItemsOf(p, T)
      /\ WhereOf(w, T) = WhereOf(p, T) /\ GroupOf(w, T) = GroupOf(p, T)
      /\ OrderOf(w, T) = OrderOf(p, T)
  BY <1>1, <1>4, NoHeadsOf
<1>6. /\ Len(p) # 2 => TableOf(w, T) = TableOf(p, T)
      /\ Len(p) = 2 => TableOf(w, T) = t.text
  <2>1. PICK n : n = Len(p)  OBVIOUS
  <2>2. /\ n \in Nat /\ n >= 1 /\ Len(w) = n + 1 /\ \A i \in 1 .. n : w[i] = p[i]
        /\ w[n + 1] = t
    BY <1>0, <1>1, <2>1, AppendFirst
  <2>3. TableOf(w, T) = IF n + 1 > 2 THEN w[3].text ELSE << >>
    BY <1>3, <2>2 DEF TableOf
  <2>4. TableOf(p, T) = IF n > 2 THEN p[3].text ELSE << >>  BY <2>1 DEF TableOf
  <2>5. n # 2 => TableOf(w, T) = TableOf(p, T)  BY <2>2, <2>3, <2>4
  <2>6. n = 2 => TableOf(w, T) = t.text  BY <2>2, <2>3
  <2> QED  BY <2>1, <2>5, <2>6
<1>7. p[1].type # "CREATE" => ColsOf(w, T) = ColsOf(p, T)
  BY <1>2 DEF ColsOf, RowsWithin
<1>8. p[1].type # "INSERT" => ValuesOf(w, T) = ValuesOf(p, T)
  BY <1>2 DEF ValuesOf, RowsWithin
<1> QED  BY <1>0, <1>1, <1>2, <1>3, <1>4, <1>5, <1>6, <1>7, <1>8

LEMMA BracketsAre ==
  ASSUME NEW T, NEW p \in Seq(T), NEW t \in T, Bracketed(p), Quiet(p), Mute(t)
  PROVE  /\ /\ Len(p) # 2 /\ p[1].type = "CREATE" =>
                 Said(Append(p, t), T) = WithCols(p, ColsOf(Append(p, t), T), T)
            /\ Len(p) # 2 /\ p[1].type = "INSERT" =>
                 Said(Append(p, t), T) = WithValues(p, ValuesOf(Append(p, t), T), T)
         /\ /\ ColsOf(Append(p, t), T) = ColsOf(p, T)
            /\ ValuesOf(Append(p, t), T) = ValuesOf(p, T)
            => Said(Append(p, t), T) = WithTable(p, TableOf(Append(p, t), T), T)
<1>1. PICK w : w = Append(p, t)  OBVIOUS
<1>2. /\ KindOf(w) = KindOf(p)
      /\ ItemsOf(w, T) = ItemsOf(p, T)
      /\ WhereOf(w, T) = WhereOf(p, T) /\ GroupOf(w, T) = GroupOf(p, T)
      /\ OrderOf(w, T) = OrderOf(p, T)
      /\ ~Starred(w) /\ ~Starred(p)
      /\ Len(p) # 2 => TableOf(w, T) = TableOf(p, T)
      /\ p[1].type # "CREATE" => ColsOf(w, T) = ColsOf(p, T)
      /\ p[1].type # "INSERT" => ValuesOf(w, T) = ValuesOf(p, T)
  BY <1>1, BracketsSay
<1>3. StarOf(w) = StarOf(p)  BY <1>2 DEF StarOf
<1>4. Len(p) # 2 /\ p[1].type = "CREATE" => Said(w, T) = WithCols(p, ColsOf(w, T), T)
  BY <1>2, <1>3 DEF Said, WithCols
<1>5. Len(p) # 2 /\ p[1].type = "INSERT" => Said(w, T) = WithValues(p, ValuesOf(w, T), T)
  BY <1>2, <1>3 DEF Said, WithValues
<1>6. ColsOf(w, T) = ColsOf(p, T) /\ ValuesOf(w, T) = ValuesOf(p, T)
        => Said(w, T) = WithTable(p, TableOf(w, T), T)
  BY <1>2, <1>3 DEF Said, WithTable
<1> QED  BY <1>1, <1>4, <1>5, <1>6

----------------------------------------------------------------------------
(* The tokens of a CREATE and of an INSERT, and the first of any statement *)

FirstSays(kind) == Stmt(kind, << >>, << >>, << >>, FALSE, << >>, << >>, << >>, << >>)

LEMMA NothingSaid ==
  ASSUME NEW T
  PROVE  Said(<< >>, T) = P!NoStmt /\ P!NoStmt = FirstSays("none") /\ Quiet(<< >>)
<1>1. PICK p \in Seq(T) : p = << >>  BY EmptySeq
<1>2. Heads(p) = {}  BY <1>1 DEF Heads
<1>3. ~Bracketed(p)  BY <1>1 DEF Bracketed
<1>4. ~Starred(p)
  <2>1. Len(p) = 0  BY <1>1
  <2> QED  BY <2>1 DEF Starred
<1>5. KindOf(p) = "none" /\ TableOf(p, T) = << >> /\ ItemsOf(p, T) = << >>
  BY <1>1, <1>2, <1>3, NoHeadsOf DEF KindOf
<1>6. WhereOf(p, T) = << >> /\ GroupOf(p, T) = << >> /\ OrderOf(p, T) = << >>
  BY <1>2, NoHeadsOf
<1>7. ColsOf(p, T) = << >> /\ ValuesOf(p, T) = << >>  BY <1>1 DEF ColsOf, ValuesOf, RowsWithin
<1>8. StarOf(p) = FALSE  BY <1>4 DEF StarOf
<1>9. Said(p, T) = FirstSays("none")  BY <1>5, <1>6, <1>7, <1>8 DEF Said, FirstSays
<1>10. P!NoStmt = FirstSays("none")  BY DEF P!NoStmt, FirstSays, Stmt
<1> QED  BY <1>1, <1>3, <1>9, <1>10 DEF Quiet

LEMMA FirstSaid ==
  ASSUME NEW T, NEW t \in T, t.type \in {"CREATE", "INSERT", "SELECT"}, NEW w, w = <<t>>
  PROVE  Said(w, T) = FirstSays(KindOf(w)) /\ Quiet(w)
<1>1. w \in Seq(T) /\ Len(w) = 1 /\ w[1] = t  BY OneToken
<1>2. w # << >>  BY <1>1
<1>3. ~Starred(w) /\ StarOf(w) = FALSE  BY <1>1 DEF Starred, StarOf
<1>4. PICK a \in Nat, b \in Nat : a = 4 /\ b = 5  OBVIOUS
<1>5. Len(w) <= a /\ Len(w) <= b  BY <1>1, <1>4
<1>6. ColsOf(w, T) = << >> /\ ValuesOf(w, T) = << >>
  BY <1>1, <1>4, <1>5, NoRowsIn DEF ColsOf, ValuesOf
<1>7. CASE Bracketed(w)
  <2>1. Heads(w) = {}
    <3>1. t.type \in {"CREATE", "INSERT"}  BY <1>1, <1>7 DEF Bracketed
    <3>2. t.type \notin DOMAIN Rank  BY <3>1, RanksAre
    <3>3. DOMAIN w = {1}  BY <1>1
    <3> QED  BY <1>1, <3>2, <3>3 DEF Heads
  <2>2. TableOf(w, T) = << >>  BY <1>1, <1>7 DEF TableOf
  <2>3. /\ WhereOf(w, T) = << >> /\ GroupOf(w, T) = << >> /\ OrderOf(w, T) = << >>
        /\ ItemsOf(w, T) = << >>
    BY <2>1, NoHeadsOf
  <2>4. Said(w, T) = FirstSays(KindOf(w))
    BY <1>3, <1>6, <2>2, <2>3 DEF Said, FirstSays
  <2> QED  BY <1>3, <2>1, <2>4 DEF Quiet
<1>8. CASE ~Bracketed(w)
  <2>1. t.type = "SELECT"  BY <1>1, <1>2, <1>8 DEF Bracketed
  <2>2. InSelect(w, w)  BY <2>1, SelectFirst
  <2>3. w[1].type = "SELECT"  BY <1>1, <2>1
  <2>4. \A word \in {"FROM", "WHERE", "GROUP", "ORDER"} : \A f, n, separator :
          RowsAt(w, f, word, n, separator) = << >>
    <3> SUFFICES ASSUME NEW word \in {"FROM", "WHERE", "GROUP", "ORDER"}, NEW f, NEW n,
                        NEW separator
                 PROVE  RowsAt(w, f, word, n, separator) = << >>
      OBVIOUS
    <3>1. word \in DOMAIN Rank /\ Rank[w[1].type] < Rank[word]  BY <2>3, RanksAre
    <3>2. ListOf(w, word, n, separator) = << >>  BY <1>1, <2>2, <3>1, ListOfNone
    <3> QED  BY <3>2, NoRows DEF RowsAt
  <2>5. TableOf(w, T) = << >>  BY <1>8, <2>4 DEF TableOf, RowsBegin
  <2>6. WhereOf(w, T) = << >> /\ GroupOf(w, T) = << >> /\ OrderOf(w, T) = << >>
    BY <2>4 DEF WhereOf, GroupOf, OrderOf
  <2>7. ItemsOf(w, T) = << >>
    <3>1. PICK k \in Nat : k = 1  OBVIOUS
    <3>2. Len(w) <= k  BY <1>1, <3>1
    <3>3. RowsAt(w, ItemFn(T), "SELECT", k, "COMMA") = << >>
      BY <1>1, <2>2, <2>3, <3>2, NoRowsYet
    <3> QED  BY <3>1, <3>3 DEF ItemsOf
  <2>8. Said(w, T) = FirstSays(KindOf(w))
    BY <1>3, <1>6, <2>5, <2>6, <2>7 DEF Said, FirstSays
  <2> QED  BY <1>8, <2>8 DEF Quiet
<1> QED  BY <1>7, <1>8

LEMMA FirstBuilt ==
  ASSUME NEW t
  PROVE  /\ P!Built(FirstSays("none"), "parse", t) = FirstSays("create")
         /\ P!Built(FirstSays("none"), "insert", t) = FirstSays("insert")
         /\ P!Built(FirstSays("none"), "select", t) = FirstSays("select")
<1>1. PICK s : s = FirstSays("none")  OBVIOUS
<1>2. P!Built(s, "parse", t) = FirstSays("create")
  BY <1>1 DEF P!Built, Stmt, FirstSays
<1>3. P!Built(s, "insert", t) = FirstSays("insert")
  BY <1>1 DEF P!Built, Stmt, FirstSays
<1>4. P!Built(s, "select", t) = FirstSays("select")
  BY <1>1 DEF P!Built, Stmt, FirstSays
<1> QED  BY <1>1, <1>2, <1>3, <1>4

LEMMA FirstTells ==
  ASSUME NEW T, NEW p \in Seq(T), NEW t \in T, NEW l \in {"parse", "insert", "select"},
         p = << >>, Fits(l, t)
  PROVE  Tells(p, l, t, T) /\ Quiet(Append(p, t))
<1> USE DEF Fits, Asks
<1>1. PICK w : w = <<t>>  OBVIOUS
<1>2. Append(p, t) = w  BY <1>1
<1>3. Said(p, T) = FirstSays("none")  BY NothingSaid
<1>4. w[1] = t /\ w # << >>  BY <1>1
<1>5. CASE l = "parse"
  <2>1. t.type = "CREATE"  BY <1>5, ParseRules
  <2>2. KindOf(w) = "create"  BY <1>4, <2>1 DEF KindOf
  <2>3. Said(w, T) = FirstSays("create") /\ Quiet(w)  BY <1>1, <2>1, <2>2, FirstSaid
  <2> QED  BY <1>2, <1>3, <1>5, <2>3, FirstBuilt DEF Tells
<1>6. CASE l = "insert"
  <2>1. t.type = "INSERT"  BY <1>6, ParseRules
  <2>2. KindOf(w) = "insert"  BY <1>4, <2>1 DEF KindOf
  <2>3. Said(w, T) = FirstSays("insert") /\ Quiet(w)  BY <1>1, <2>1, <2>2, FirstSaid
  <2> QED  BY <1>2, <1>3, <1>6, <2>3, FirstBuilt DEF Tells
<1>7. CASE l = "select"
  <2>1. t.type = "SELECT"  BY <1>7, ParseRules
  <2>2. KindOf(w) = "select"  BY <1>4, <2>1 DEF KindOf
  <2>3. Said(w, T) = FirstSays("select") /\ Quiet(w)  BY <1>1, <2>1, <2>2, FirstSaid
  <2> QED  BY <1>2, <1>3, <1>7, <2>3, FirstBuilt DEF Tells
<1> QED  BY <1>5, <1>6, <1>7

\* The other tokens in front of a list in brackets.
LEMMA HeadTells ==
  ASSUME NEW T, NEW p \in Seq(T), NEW t \in T, Bracketed(p), Quiet(p), Mute(t),
         NEW k \in Nat, Len(p) = k, k < 5, p[1].type = "CREATE" => k < 4, NEW l
  PROVE  /\ k # 2 /\ l \in Silent => Tells(p, l, t, T)
         /\ k = 2 /\ l \in {"create_name", "insert_name"} => Tells(p, l, t, T)
<1>1. PICK w : w = Append(p, t)  OBVIOUS
<1>2. w \in Seq(T) /\ w # << >> /\ p # << >> /\ w[1] = p[1]  BY <1>1, BracketsSay
<1>3. Len(w) = k + 1  BY <1>1, <1>2, AppendFirst
<1>4. PICK a \in Nat, b \in Nat : a = 4 /\ b = 5  OBVIOUS
<1>5. ColsOf(w, T) = ColsOf(p, T)
  <2>1. CASE p[1].type = "CREATE"
    <3>1. Len(p) <= a /\ Len(w) <= a  BY <1>3, <1>4, <2>1
    <3>2. ColsOf(w, T) = << >>  BY <1>2, <1>4, <3>1, NoRowsIn DEF ColsOf
    <3>3. ColsOf(p, T) = << >>  BY <1>4, <3>1, NoRowsIn DEF ColsOf
    <3> QED  BY <3>2, <3>3
  <2> QED  BY <1>1, <2>1, BracketsSay
<1>6. ValuesOf(w, T) = ValuesOf(p, T)
  <2>1. Len(p) <= b /\ Len(w) <= b  BY <1>3, <1>4
  <2>2. ValuesOf(w, T) = << >>  BY <1>2, <1>4, <2>1, NoRowsIn DEF ValuesOf
  <2>3. ValuesOf(p, T) = << >>  BY <1>4, <2>1, NoRowsIn DEF ValuesOf
  <2> QED  BY <2>2, <2>3
<1>7. Said(w, T) = WithTable(p, TableOf(w, T), T)  BY <1>1, <1>5, <1>6, BracketsAre
<1>8. Said(p, T) = WithTable(p, TableOf(p, T), T)  BY SaidIs
<1>9. ASSUME k # 2, l \in Silent
      PROVE  Tells(p, l, t, T)
  <2>1. TableOf(w, T) = TableOf(p, T)  BY <1>1, <1>9, BracketsSay
  <2>2. Said(w, T) = Said(p, T)  BY <1>7, <1>8, <2>1
  <2> QED  BY <1>1, <1>9, <2>2, SilentTells
<1>10. ASSUME k = 2, l \in {"create_name", "insert_name"}
       PROVE  Tells(p, l, t, T)
  <2>1. TableOf(w, T) = t.text  BY <1>1, <1>10, BracketsSay
  <2>2. P!Built(WithTable(p, TableOf(p, T), T), l, t) = WithTable(p, t.text, T)
    BY <1>10, BuiltHead
  <2> QED  BY <1>1, <1>7, <1>8, <2>1, <2>2 DEF Tells
<1> QED  BY <1>9, <1>10

\* A label in front of a list in brackets, with k tokens read.
Leads(l, k, first) ==
  \/ k = 1 /\ l \in {"table", "into"}
  \/ k = 2 /\ l \in {"create_name", "insert_name"}
  \/ k = 3 /\ l \in {"create_open", "values"}
  \/ k = 4 /\ l = "insert_open" /\ first = "INSERT"

LEMMA PrefixLeads ==
  ASSUME NEW l, NEW o, Prefix(l, o), o # << >>
  PROVE  o[1] \in {"CREATE", "INSERT"} /\ Leads(l, Len(o), o[1])
<1>1. CASE l = "table" /\ o = <<"CREATE">>  BY <1>1 DEF Leads
<1>2. CASE l = "create_name" /\ o = <<"CREATE", "TABLE">>  BY <1>2 DEF Leads
<1>3. CASE l = "create_open" /\ o = <<"CREATE", "TABLE", "IDENT">>  BY <1>3 DEF Leads
<1>4. CASE l = "into" /\ o = <<"INSERT">>  BY <1>4 DEF Leads
<1>5. CASE l = "insert_name" /\ o = <<"INSERT", "INTO">>  BY <1>5 DEF Leads
<1>6. CASE l = "values" /\ o = <<"INSERT", "INTO", "IDENT">>  BY <1>6 DEF Leads
<1>7. CASE l = "insert_open" /\ o = <<"INSERT", "INTO", "IDENT", "VALUES">>
  BY <1>7 DEF Leads
<1> QED  BY <1>1, <1>2, <1>3, <1>4, <1>5, <1>6, <1>7 DEF Prefix

LEMMA PrefixNone ==
  ASSUME NEW l, NEW o, Prefix(l, o), o = << >>
  PROVE  l \in {"parse", "insert", "select"}
BY DEF Prefix

LEMMA LeadsMute ==
  ASSUME NEW l, NEW k, NEW first, Leads(l, k, first), NEW t, Fits(l, t)
  PROVE  Mute(t)
<1> USE DEF Fits, Asks
<1>1. CASE l \in {"table", "create_name", "create_open"}
  <2>1. t.type \in {"TABLE", "IDENT", "LPAREN"}  BY <1>1, CreateRules
  <2> QED  BY <2>1, MuteAre DEF Operands
<1>2. CASE l \in {"into", "insert_name", "values", "insert_open"}
  <2>1. t.type \in {"INTO", "IDENT", "VALUES", "LPAREN"}  BY <1>2, InsertRules
  <2> QED  BY <2>1, MuteAre DEF Operands
<1> QED  BY <1>1, <1>2 DEF Leads

LEMMA PrefixTells ==
  ASSUME NEW T, NEW p \in Seq(T), NEW t \in T, NEW l, Prefix(l, Types(p)), Fits(l, t),
         Quiet(p)
  PROVE  Tells(p, l, t, T) /\ Quiet(Append(p, t))
<1>1. PICK o : o = Types(p)  OBVIOUS
<1>2. Len(o) = Len(p) /\ \A i \in 1 .. Len(p) : o[i] = p[i].type  BY <1>1, TypesAre
<1>3. CASE p = << >>
  <2>1. o = << >>  BY <1>2, <1>3, EmptySeq, TypesAre, <1>1
  <2>2. l \in {"parse", "insert", "select"}  BY <1>1, <2>1, PrefixNone
  <2> QED  BY <1>3, <2>2, FirstTells
<1>4. CASE p # << >>
  <2>1. PICK k \in Nat : k = Len(p)  BY LenProperties
  <2>2. k >= 1  BY <1>4, <2>1, EmptySeq
  <2>3. o # << >> /\ o[1] = p[1].type  BY <1>2, <2>1, <2>2, NotEmpty
  <2>4. p[1].type \in {"CREATE", "INSERT"} /\ Leads(l, k, p[1].type)
    BY <1>1, <1>2, <2>1, <2>3, PrefixLeads
  <2>5. Bracketed(p)  BY <1>4, <2>4 DEF Bracketed
  <2>6. Mute(t)  BY <2>4, LeadsMute
  <2>7. k < 5 /\ (p[1].type = "CREATE" => k < 4)  BY <2>4 DEF Leads
  <2>8. \/ k # 2 /\ l \in Silent
        \/ k = 2 /\ l \in {"create_name", "insert_name"}
    BY <2>4, SilentLabels DEF Leads
  <2>9. Tells(p, l, t, T)  BY <2>1, <2>5, <2>6, <2>7, <2>8, HeadTells
  <2> QED  BY <2>5, <2>6, <2>9, QuietStep
<1> QED  BY <1>3, <1>4

LEMMA ColumnGrows ==
  ASSUME NEW T, NEW t \in T
  PROVE  /\ ColumnFn(T)[<<t>>] = NewColumn(t.text)
         /\ \A q \in Seq(T) : \A a : Types(q) = <<a>> =>
              ColumnFn(T)[Append(q, t)] = Typed(ColumnFn(T)[q], t.type)
         /\ \A q \in Seq(T) : \A a, b : Types(q) = <<a, b>> =>
              ColumnFn(T)[Append(q, t)] = ColumnFn(T)[q]
<1>1. ColumnFn(T)[<<t>>] = NewColumn(t.text)
  <2>1. PICK q \in Seq(T) : q = <<t>> /\ Len(q) = 1 /\ q[1] = t  BY OneToken
  <2>2. ColumnAt(q) = NewColumn(t.text)  BY <2>1 DEF ColumnAt, NewColumn
  <2>3. ColumnFn(T)[q] = ColumnAt(q)  BY FnsAre
  <2> QED  BY <2>1, <2>2, <2>3
<1>2. ASSUME NEW q \in Seq(T), NEW a, Types(q) = <<a>>
      PROVE  ColumnFn(T)[Append(q, t)] = Typed(ColumnFn(T)[q], t.type)
  <2>1. PICK o : o = <<a>>  OBVIOUS
  <2>2. Len(o) = 1  BY <2>1
  <2>3. PICK u \in Seq(T) : Longer(q, u, t, 1)  BY <1>2, <2>1, <2>2, LongerIs
  <2>4. u = Append(q, t) /\ Len(q) = 1 /\ Len(u) = 2 /\ u[2] = t /\ u[1] = q[1]
    BY <2>3 DEF Longer
  <2>5. ColumnAt(u) = Typed(ColumnAt(q), t.type)
    <3>1. PICK e : e = ""  OBVIOUS
    <3>2. PICK c : c = [name |-> q[1].text, type |-> e]  OBVIOUS
    <3>3. ColumnAt(q) = [name |-> q[1].text, type |-> ""]  BY <2>4 DEF ColumnAt
    <3>4. ColumnAt(u) = [name |-> q[1].text, type |-> t.type]  BY <2>4 DEF ColumnAt
    <3>5. Typed(c, t.type) = [name |-> q[1].text, type |-> t.type]  BY <3>2 DEF Typed
    <3> QED  BY <3>1, <3>2, <3>3, <3>4, <3>5
  <2>6. ColumnFn(T)[u] = ColumnAt(u) /\ ColumnFn(T)[q] = ColumnAt(q)  BY FnsAre
  <2> QED  BY <2>4, <2>5, <2>6
<1>3. ASSUME NEW q \in Seq(T), NEW a, NEW b, Types(q) = <<a, b>>
      PROVE  ColumnFn(T)[Append(q, t)] = ColumnFn(T)[q]
  <2>1. PICK o : o = <<a, b>>  OBVIOUS
  <2>2. Len(o) = 2  BY <2>1
  <2>3. PICK u \in Seq(T) : Longer(q, u, t, 2)  BY <1>3, <2>1, <2>2, LongerIs
  <2>4. /\ u = Append(q, t) /\ Len(q) = 2 /\ Len(u) = 3
        /\ u[1] = q[1] /\ u[2] = q[2]
    BY <2>3 DEF Longer
  <2>5. ColumnAt(u) = ColumnAt(q)  BY <2>4 DEF ColumnAt
  <2>6. ColumnFn(T)[u] = ColumnAt(u) /\ ColumnFn(T)[q] = ColumnAt(q)  BY FnsAre
  <2> QED  BY <2>4, <2>5, <2>6
<1> QED  BY <1>1, <1>2, <1>3

LEMMA ValueGrows ==
  ASSUME NEW T, NEW t \in T
  PROVE  /\ ValueFn(T)[<<t>>] = t
         /\ \A q \in Seq(T) : \A a : Types(q) = <<a>> =>
              ValueFn(T)[Append(q, t)] = ValueFn(T)[q]
<1>1. ValueFn(T)[<<t>>] = t
  <2>1. PICK q \in Seq(T) : q = <<t>> /\ Len(q) = 1 /\ q[1] = t  BY OneToken
  <2>2. ValueFn(T)[q] = q[1]  BY FnsAre
  <2> QED  BY <2>1, <2>2
<1>2. ASSUME NEW q \in Seq(T), NEW a, Types(q) = <<a>>
      PROVE  ValueFn(T)[Append(q, t)] = ValueFn(T)[q]
  <2>1. PICK o : o = <<a>>  OBVIOUS
  <2>2. Len(o) = 1  BY <2>1
  <2>3. PICK u \in Seq(T) : Longer(q, u, t, 1)  BY <1>2, <2>1, <2>2, LongerIs
  <2>4. u = Append(q, t) /\ u[1] = q[1]  BY <2>3 DEF Longer
  <2>5. ValueFn(T)[u] = u[1] /\ ValueFn(T)[q] = q[1]  BY FnsAre
  <2> QED  BY <2>4, <2>5
<1> QED  BY <1>1, <1>2

LEMMA ShapesBegin == << >> \notin Columns /\ << >> \notin Values
<1>1. \A a, b : <<a, b>> # << >> /\ <<a>> # << >>  OBVIOUS
<1> QED  BY <1>1 DEF Columns, Values

LEMMA ColumnTells ==
  ASSUME NEW T, NEW p \in Seq(T), NEW t \in T, NEW l, NEW o,
         ColumnOpen(l, o), Creating(p, o), Fits(l, t), Quiet(p)
  PROVE  Tells(p, l, t, T) /\ Quiet(Append(p, t))
<1> USE DEF Fits, Asks
<1>1. PICK r : r = ColsOf(p, T)  OBVIOUS
<1>2. PICK z : z = ColsOf(Append(p, t), T)  OBVIOUS
<1>3. PICK f : f = ColumnFn(T)  OBVIOUS
<1>4. /\ Bracketed(p) /\ p[1].type = "CREATE" /\ Len(p) # 2
      /\ Moves(r, z, f, o, "COMMA", Columns, t, T)
  <2>1. PICK n \in Nat : n = 4  OBVIOUS
  <2>2. n > 2 /\ n = Len(CreateHead) /\ CreateHead[1] = "CREATE"  BY <2>1, HeadsOfKinds
  <2>3. InBrackets(p, CreateHead, Columns, o)  BY DEF Creating
  <2>4. /\ p # << >> /\ p[1].type = "CREATE" /\ Len(p) # 2
        /\ Moves(RowsWithin(p, f, "CREATE", n), RowsWithin(Append(p, t), f, "CREATE", n), f, o,
                 "COMMA", Columns, t, T)
    BY <2>2, <2>3, ShapesBegin, BracketsMove
  <2> QED  BY <1>1, <1>2, <1>3, <2>1, <2>4 DEF ColsOf, Bracketed
<1>5. Said(p, T) = WithCols(p, r, T)  BY <1>1, SaidIs
<1>6. Mute(t) => Said(Append(p, t), T) = WithCols(p, z, T) /\ Quiet(Append(p, t))
  BY <1>2, <1>4, BracketsAre, QuietStep
<1>7. CASE l = "col_name"
  <2>1. t.type = "IDENT" /\ o = << >>  BY <1>7, CreateRules DEF ColumnOpen
  <2>2. Mute(t)  BY <2>1, MuteAre DEF Operands
  <2>3. z = Append(r, f[<<t>>])  BY <1>4, <2>1 DEF Moves, Started
  <2>4. f[<<t>>] = NewColumn(t.text)  BY <1>3, ColumnGrows
  <2>5. P!Built(WithCols(p, r, T), "col_name", t) = WithCols(p, z, T)
    BY <2>3, <2>4, BuiltBrackets
  <2> QED  BY <1>5, <1>6, <1>7, <2>2, <2>5 DEF Tells
<1>8. CASE l = "col_type"
  <2>1. t.type \in TypeNames /\ o = <<"IDENT">>  BY <1>8, CreateRules DEF ColumnOpen
  <2>2. Mute(t)  BY <2>1, MuteAre
  <2>3. t.type # "COMMA" /\ o # << >>  BY <2>1 DEF TypeNames
  <2>4. PICK q \in Seq(T) : Types(q) = o /\ Changed(r, z, f, q, t, T)
    BY <1>4, <2>3 DEF Moves
  <2>5. z = Turned(r, f[Append(q, t)]) /\ r[Len(r)] = f[q]  BY <2>4 DEF Changed
  <2>8. PICK a : a = "IDENT"  OBVIOUS
  <2>9. Types(q) = <<a>>  BY <2>1, <2>4, <2>8
  <2>6. f[Append(q, t)] = Typed(f[q], t.type)  BY <1>3, <2>9, ColumnGrows
  <2>7. P!Built(WithCols(p, r, T), "col_type", t) = WithCols(p, z, T)
    BY <2>5, <2>6, BuiltBrackets
  <2> QED  BY <1>5, <1>6, <1>8, <2>2, <2>7 DEF Tells
<1>9. CASE l = "col_more"
  <2>1. t.type = "COMMA" /\ o \in Columns  BY <1>9, CreateRules DEF ColumnOpen
  <2>2. Mute(t)  BY <2>1, MuteAre
  <2>3. z = r  BY <1>4, <2>1 DEF Moves
  <2>4. Said(Append(p, t), T) = Said(p, T)  BY <1>5, <1>6, <2>2, <2>3
  <2> QED  BY <1>6, <1>9, <2>2, <2>4, SilentLabels, SilentTells
<1>10. CASE l = "create_close"
  <2>1. t.type = "RPAREN" /\ o \in Columns  BY <1>10, CreateRules DEF ColumnOpen
  <2>2. Mute(t)  BY <2>1, MuteAre
  <2>3. PICK x : o = <<"IDENT", x>>  BY <2>1 DEF Columns
  <2>4. o # << >> /\ t.type # "COMMA"  BY <2>1, <2>3
  <2>5. PICK q \in Seq(T) : Types(q) = o /\ Changed(r, z, f, q, t, T)
    BY <1>4, <2>4 DEF Moves
  <2>6. /\ z = Turned(r, f[Append(q, t)]) /\ r[Len(r)] = f[q]
        /\ r \in Seq(Sayings(f, T)) /\ Len(r) >= 1
    BY <2>5 DEF Changed
  <2>11. PICK a : a = "IDENT"  OBVIOUS
  <2>7. Types(q) = <<a, x>>  BY <2>3, <2>5, <2>11
  <2>12. ColumnFn(T)[Append(q, t)] = ColumnFn(T)[q]
    <3>1. \A u \in Seq(T) : \A c, d : Types(u) = <<c, d>> =>
            ColumnFn(T)[Append(u, t)] = ColumnFn(T)[u]
      BY ColumnGrows
    <3> QED  BY <2>7, <3>1
  <2>8. f[Append(q, t)] = f[q]  BY <1>3, <2>12
  <2>9. z = r  BY <2>6, <2>8, TurnedSame
  <2>10. Said(Append(p, t), T) = Said(p, T)  BY <1>5, <1>6, <2>2, <2>9
  <2> QED  BY <1>6, <1>10, <2>2, <2>10, SilentLabels, SilentTells
<1> QED  BY <1>7, <1>8, <1>9, <1>10 DEF ColumnOpen

LEMMA ValueTells ==
  ASSUME NEW T, NEW p \in Seq(T), NEW t \in T, NEW l, NEW o,
         ValueOpen(l, o), Inserting(p, o), Fits(l, t), Quiet(p)
  PROVE  Tells(p, l, t, T) /\ Quiet(Append(p, t))
<1> USE DEF Fits, Asks
<1>1. PICK r : r = ValuesOf(p, T)  OBVIOUS
<1>2. PICK z : z = ValuesOf(Append(p, t), T)  OBVIOUS
<1>3. PICK f : f = ValueFn(T)  OBVIOUS
<1>4. /\ Bracketed(p) /\ p[1].type = "INSERT" /\ Len(p) # 2
      /\ Moves(r, z, f, o, "COMMA", Values, t, T)
  <2>1. PICK n \in Nat : n = 5  OBVIOUS
  <2>2. n > 2 /\ n = Len(InsertHead) /\ InsertHead[1] = "INSERT"  BY <2>1, HeadsOfKinds
  <2>3. InBrackets(p, InsertHead, Values, o)  BY DEF Inserting
  <2>4. /\ p # << >> /\ p[1].type = "INSERT" /\ Len(p) # 2
        /\ Moves(RowsWithin(p, f, "INSERT", n), RowsWithin(Append(p, t), f, "INSERT", n), f, o,
                 "COMMA", Values, t, T)
    BY <2>2, <2>3, ShapesBegin, BracketsMove
  <2> QED  BY <1>1, <1>2, <1>3, <2>1, <2>4 DEF ValuesOf, Bracketed
<1>5. Said(p, T) = WithValues(p, r, T)  BY <1>1, SaidIs
<1>6. Mute(t) => Said(Append(p, t), T) = WithValues(p, z, T) /\ Quiet(Append(p, t))
  BY <1>2, <1>4, BracketsAre, QuietStep
<1>7. CASE l = "value"
  <2>1. t.type \in Literals /\ o = << >>  BY <1>7, InsertRules DEF ValueOpen
  <2>2. Mute(t)  BY <2>1, MuteAre DEF Operands
  <2>3. t.type # "COMMA"  BY <2>1 DEF Literals
  <2>4. z = Append(r, f[<<t>>])  BY <1>4, <2>1, <2>3 DEF Moves, Started
  <2>5. f[<<t>>] = t  BY <1>3, ValueGrows
  <2>6. P!Built(WithValues(p, r, T), "value", t) = WithValues(p, z, T)
    BY <2>4, <2>5, BuiltBrackets
  <2> QED  BY <1>5, <1>6, <1>7, <2>2, <2>6 DEF Tells
<1>8. CASE l = "value_more"
  <2>1. t.type = "COMMA" /\ o \in Values  BY <1>8, InsertRules DEF ValueOpen
  <2>2. Mute(t)  BY <2>1, MuteAre
  <2>3. z = r  BY <1>4, <2>1 DEF Moves
  <2>4. Said(Append(p, t), T) = Said(p, T)  BY <1>5, <1>6, <2>2, <2>3
  <2> QED  BY <1>6, <1>8, <2>2, <2>4, SilentLabels, SilentTells
<1>9. CASE l = "insert_close"
  <2>1. t.type = "RPAREN" /\ o \in Values  BY <1>9, InsertRules DEF ValueOpen
  <2>2. Mute(t)  BY <2>1, MuteAre
  <2>3. PICK x : o = <<x>>  BY <2>1 DEF Values
  <2>4. o # << >> /\ t.type # "COMMA"  BY <2>1, <2>3
  <2>5. PICK q \in Seq(T) : Types(q) = o /\ Changed(r, z, f, q, t, T)
    BY <1>4, <2>4 DEF Moves
  <2>6. /\ z = Turned(r, f[Append(q, t)]) /\ r[Len(r)] = f[q]
        /\ r \in Seq(Sayings(f, T)) /\ Len(r) >= 1
    BY <2>5 DEF Changed
  <2>7. Types(q) = <<x>>  BY <2>3, <2>5
  <2>8. f[Append(q, t)] = f[q]  BY <1>3, <2>7, ValueGrows, ZenonT(60)
  <2>9. z = r  BY <2>6, <2>8, TurnedSame
  <2>10. Said(Append(p, t), T) = Said(p, T)  BY <1>5, <1>6, <2>2, <2>9
  <2> QED  BY <1>6, <1>9, <2>2, <2>10, SilentLabels, SilentTells
<1> QED  BY <1>7, <1>8, <1>9 DEF ValueOpen

\* A token that is asked for says what the parser adds to the statement.
LEMMA StateTells ==
  ASSUME NEW T, NEW p \in Seq(T), NEW t \in T, NEW l, State(l, p), Fits(l, t), Quiet(p)
  PROVE  Tells(p, l, t, T) /\ Quiet(Append(p, t))
<1>1. CASE Prefix(l, Types(p))  BY <1>1, PrefixTells
<1>2. CASE \E o : ColumnOpen(l, o) /\ Creating(p, o)  BY <1>2, ColumnTells
<1>3. CASE \E o : ValueOpen(l, o) /\ Inserting(p, o)  BY <1>3, ValueTells
<1>4. ASSUME NEW c, InSelect(p, c)
      PROVE  Quiet(Append(p, t))
  <2>1. p # << >> /\ p[1].type = "SELECT"  BY <1>4 DEF InSelect
  <2>2. ~Bracketed(Append(p, t))  BY <2>1, AppendFirst DEF Bracketed
  <2> QED  BY <2>2 DEF Quiet
<1>5. CASE \E c : InSelect(p, c) /\ Word(l, Types(c))  BY <1>4, <1>5, WordTells
<1>6. CASE \E o : ItemOpen(l, o) /\ Choosing(p, o)
  <2>1. PICK o : ItemOpen(l, o) /\ Choosing(p, o)  BY <1>6
  <2>2. \E c : InSelect(p, c)  BY <2>1 DEF Choosing, InList
  <2> QED  BY <1>4, <2>1, <2>2, ItemTells
<1>7. CASE \E o : ConditionOpen(l, o) /\ Filtering(p, o)
  <2>1. PICK o : ConditionOpen(l, o) /\ Filtering(p, o)  BY <1>7
  <2>2. \E c : InSelect(p, c)  BY <2>1 DEF Filtering, Listing, InList
  <2> QED  BY <1>4, <2>1, <2>2, ConditionTells
<1>8. CASE \E o : NameOpen(l, o) /\ Grouping(p, o)
  <2>1. PICK o : NameOpen(l, o) /\ Grouping(p, o)  BY <1>8
  <2>2. \E c : InSelect(p, c)  BY <2>1 DEF Grouping, Listing, InList
  <2> QED  BY <1>4, <2>1, <2>2, NameTells
<1>9. CASE \E o : KeyOpen(l, o) /\ Ordering(p, o)
  <2>1. PICK o : KeyOpen(l, o) /\ Ordering(p, o)  BY <1>9
  <2>2. \E c : InSelect(p, c)  BY <2>1 DEF Ordering, Listing, InList
  <2> QED  BY <1>4, <2>1, <2>2, KeyTells
<1>10. l # "done"  BY NoLabels DEF Fits
<1> QED  BY <1>1, <1>2, <1>3, <1>5, <1>6, <1>7, <1>8, <1>9, <1>10 DEF State

----------------------------------------------------------------------------
(* The clauses of a whole SELECT *)

LEMMA ClauseIs ==
  ASSUME NEW T, NEW s \in Seq(T), NEW h \in Heads(s), NEW d, d = Clause(s, h)
  PROVE  \E m \in Nat : FromOn(d, s, h, m, T) /\ m <= Len(s)
<1>1. PICK n \in Nat : n = Len(s)  BY LenProperties
<1>2. DOMAIN s = 1 .. n /\ \A i \in 1 .. n : s[i] \in T
  BY <1>1, LenProperties, ElementOfSeq
<1>3. Heads(s) \subseteq 1 .. n  BY <1>2 DEF Heads
<1>4. h \in 1 .. n  BY <1>3
<1>5. PICK B : B = {i \in Heads(s) : i > h} \cup {n + 1}  OBVIOUS
<1>6. B \subseteq Nat /\ B # {} /\ \A i \in B : i > h /\ i <= n + 1
  <2>1. ASSUME NEW i \in B  PROVE i \in Nat /\ i > h /\ i <= n + 1
    <3>1. (i \in Heads(s) /\ i > h) \/ i = n + 1  BY <1>5, <2>1
    <3>2. CASE i \in Heads(s) /\ i > h
      <4>1. i \in 1 .. n  BY <1>3, <3>2
      <4> QED  BY <3>2, <4>1
    <3>3. CASE i = n + 1  BY <1>4, <3>3
    <3> QED  BY <3>1, <3>2, <3>3
  <2> QED  BY <1>5, <2>1
<1>7. PICK j \in B : \A x \in B : j <= x  BY <1>6, LeastNat
<1>8. Min(B) = j
  <2>1. B \subseteq Int  BY <1>6
  <2> QED  BY <1>7, <2>1, LeastIs
<1>9. d = SubSeq(s, h, j - 1)  BY <1>1, <1>5, <1>8 DEF Clause
<1>10. PICK m \in Nat : m = j - 1 /\ h <= m /\ m <= n  BY <1>4, <1>6
<1>11. \A i \in h .. m : s[i] \in T  BY <1>2, <1>4, <1>10
<1>12. h \in Int /\ m \in Int /\ h <= m  BY <1>4, <1>10
<1>13. /\ SubSeq(s, h, m) \in Seq(T)
       /\ Len(SubSeq(s, h, m)) = m - h + 1
       /\ \A i \in 1 .. m - h + 1 : SubSeq(s, h, m)[i] = s[h + i - 1]
  BY <1>11, <1>12, SubSeqProperties
<1>14. h \in 1 .. m  BY <1>4, <1>10
<1> QED  BY <1>1, <1>9, <1>10, <1>13, <1>14 DEF FromOn

\* c is the clause of p with this word.
Says(c, p, word, T) ==
  /\ c \in Seq(T) /\ Len(c) >= 1 /\ c[1].type = word /\ IsClause(c)
  /\ \A n, separator : ListOf(p, word, n, separator) = Pieces(After(c, n), separator)

HasWord(p, word) == \E h \in Heads(p) : p[h].type = word

LEMMA WordSays ==
  ASSUME NEW T, NEW p \in Seq(T), IsSelect(p), NEW word, HasWord(p, word)
  PROVE  \E c : /\ Says(c, p, word, T)
                /\ word = "SELECT" =>
                     Len(c) <= Len(p) /\ \A i \in 1 .. Len(c) : c[i] = p[i]
<1>1. PICK H : H = {h \in Heads(p) : p[h].type = word}  OBVIOUS
<1>2. PICK n \in Nat : n = Len(p) /\ DOMAIN p = 1 .. n  BY LenProperties
<1>3. H \subseteq Nat /\ H # {} /\ H \subseteq 1 .. n
  <2>1. H \subseteq 1 .. n  BY <1>1, <1>2 DEF Heads
  <2> QED  BY <1>1, <2>1 DEF HasWord
<1>4. PICK h \in H : \A x \in H : h <= x  BY <1>3, LeastNat
<1>5. Min(H) = h
  <2>1. H \subseteq Int  BY <1>3
  <2> QED  BY <1>4, <2>1, LeastIs
<1>6. h \in Heads(p) /\ p[h].type = word  BY <1>1
<1>7. PICK c : c = Clause(p, h)  OBVIOUS
<1>8. PICK m \in Nat : FromOn(c, p, h, m, T) /\ m <= Len(p)  BY <1>6, <1>7, ClauseIs
<1>9. /\ h \in 1 .. m /\ c \in Seq(T) /\ Len(c) = m - h + 1
      /\ \A i \in 1 .. m - h + 1 : c[i] = p[h + i - 1]
  BY <1>8 DEF FromOn
<1>10. Len(c) >= 1 /\ c[1] = p[h]
  <2>1. m - h + 1 >= 1 /\ 1 \in 1 .. m - h + 1 /\ h + 1 - 1 = h  BY <1>9
  <2> QED  BY <1>9, <2>1
<1>11. IsClause(c)  BY <1>6, <1>7 DEF IsSelect
<1>12. \A k, separator :
         ListOf(p, word, k, separator) = Pieces(After(c, k), separator)
  BY <1>1, <1>3, <1>5, <1>7 DEF ListOf
<1>13. Says(c, p, word, T)  BY <1>6, <1>9, <1>10, <1>11, <1>12 DEF Says
<1>14. ASSUME word = "SELECT"
       PROVE  Len(c) <= Len(p) /\ \A i \in 1 .. Len(c) : c[i] = p[i]
  <2>1. 1 \in H
    <3>1. p # << >> /\ p[1].type = "SELECT"  BY DEF IsSelect
    <3>2. 1 \in 1 .. n  BY <1>2, <3>1, EmptySeq
    <3>3. 1 \in Heads(p)  BY <1>2, <3>1, <3>2, RanksAre DEF Heads
    <3> QED  BY <1>1, <1>14, <3>1, <3>3
  <2>2. h = 1  BY <1>3, <1>4, <2>1
  <2>3. Len(c) = m  BY <1>9, <2>2
  <2>4. ASSUME NEW i \in 1 .. m  PROVE c[i] = p[i]
    <3>1. i \in 1 .. m - h + 1 /\ h + i - 1 = i  BY <2>2
    <3> QED  BY <1>9, <3>1
  <2> QED  BY <1>8, <2>3, <2>4
<1> QED  BY <1>13, <1>14

LEMMA WordMissing ==
  ASSUME NEW p, NEW word, ~HasWord(p, word)
  PROVE  \A n, separator : ListOf(p, word, n, separator) = << >>
<1>1. {h \in Heads(p) : p[h].type = word} = {}  BY DEF HasWord
<1> QED  BY <1>1 DEF ListOf

LEMMA ByIs ==
  ASSUME NEW c, IsClause(c), c[1].type \in {"GROUP", "ORDER"}
  PROVE  Len(c) > 1 /\ c[2].type = "BY"
<1>1. CASE c[1].type = "GROUP"  BY <1>1 DEF IsClause
<1>2. CASE c[1].type = "ORDER"  BY <1>2 DEF IsClause
<1> QED  BY <1>1, <1>2

LEMMA StarClause ==
  ASSUME NEW T, NEW c \in Seq(T), NEW p, Len(c) <= Len(p), \A i \in 1 .. Len(c) : c[i] = p[i],
         ~Starred(p)
  PROVE  Len(c) >= 1 => Len(c) = 1 \/ c[2].type # "STAR"
<1>1. PICK n \in Nat : n = Len(c)  BY LenProperties
<1>2. CASE n > 1
  <2>1. 2 \in 1 .. n  BY <1>2
  <2>2. c[2] = p[2]  BY <1>1, <2>1
  <2>3. Len(p) > 1 => p[2].type # "STAR"  BY DEF Starred
  <2>4. CASE Len(p) > 1  BY <2>2, <2>3, <2>4
  <2> QED  BY <1>1, <1>2, <2>4
<1> QED  BY <1>1, <1>2

LEMMA ListSays ==
  ASSUME NEW T, NEW p \in Seq(T), IsSelect(p), NEW begin, NEW separator, NEW shapes,
         Framed(begin, separator, shapes), begin[1] = "SELECT" => ~Starred(p), NEW f,
         NEW ps, ps = ListOf(p, begin[1], Len(begin), separator)
  PROVE  Entire(RowsAt(p, f, begin[1], Len(begin), separator), ps, f, shapes, T)
<1>1. CASE ~HasWord(p, begin[1])
  <2>1. ps = << >>  BY <1>1, WordMissing
  <2>2. RowsAt(p, f, begin[1], Len(begin), separator) = << >>
    BY <2>1, NoRows DEF RowsAt
  <2> QED  BY <2>1, <2>2 DEF Entire
<1>2. CASE HasWord(p, begin[1])
  <2>1. PICK c : /\ Says(c, p, begin[1], T)
                 /\ begin[1] = "SELECT" =>
                      Len(c) <= Len(p) /\ \A i \in 1 .. Len(c) : c[i] = p[i]
    BY <1>2, WordSays
  <2>2. c \in Seq(T) /\ Len(c) >= 1 /\ c[1].type = begin[1] /\ IsClause(c)
    BY <2>1 DEF Says
  <2>3. begin[1] = "SELECT" => Len(c) = 1 \/ c[2].type # "STAR"
    BY <2>1, <2>2, StarClause
  <2>4. Begins(c, begin)
    <3>1. CASE Len(begin) = 1  BY <2>2, <3>1 DEF Begins
    <3>2. CASE Len(begin) = 2
      <4>1. begin[1] \in {"GROUP", "ORDER"} /\ begin[2] = "BY"
        <5>1. CASE begin = <<"GROUP", "BY">>  BY <5>1
        <5>2. CASE begin = <<"ORDER", "BY">>  BY <5>2
        <5>3. begin # <<"SELECT">>  BY <3>2
        <5>4. begin # <<"WHERE">>  BY <3>2
        <5> QED  BY <5>1, <5>2, <5>3, <5>4 DEF Framed
      <4>2. Len(c) > 1 /\ c[2].type = "BY"  BY <2>2, <4>1, ByIs
      <4> QED  BY <2>2, <3>2, <4>1, <4>2, LenProperties DEF Begins
    <3> QED  BY <3>1, <3>2, FramedIs
  <2>5. IsList(After(c, Len(begin)), separator, shapes)
    BY <2>2, <2>3, <2>4, FramedClause
  <2>6. PICK n \in Nat : n = Len(begin)  BY FramedIs
  <2>7. PICK s \in Seq(T) : s = After(c, n)  BY <2>2, AfterIs
  <2>8. ps = Pieces(s, separator)  BY <2>1, <2>6, <2>7 DEF Says
  <2>9. << >> \notin shapes  BY FramedShapes
  <2>10. Entire(ListRows(f, s, separator), ps, f, shapes, T)
    BY <2>5, <2>6, <2>7, <2>8, <2>9, RowsDone
  <2>11. RowsAt(p, f, begin[1], n, separator) = ListRows(f, s, separator)
    BY <2>6, <2>8 DEF RowsAt, ListRows
  <2> QED  BY <2>6, <2>10, <2>11
<1> QED  BY <1>1, <1>2

LEMMA FromClauseIs ==
  ASSUME NEW c, IsClause(c), c[1].type = "FROM"
  PROVE  Types(After(c, 1)) = <<"IDENT">>
BY DEF IsClause

LEMMA FromSays ==
  ASSUME NEW T, NEW p \in Seq(T), IsSelect(p), NEW ps, ps = ListOf(p, "FROM", 1, "COMMA")
  PROVE  RowsBegin(RowsAt(p, NameFn(T), "FROM", 1, "COMMA")) = ps[1][1].text
<1>1. PICK f : f = NameFn(T)  OBVIOUS
<1>2. HasWord(p, "FROM")  BY DEF IsSelect, HasWord
<1>3. PICK c : Says(c, p, "FROM", T)  BY <1>2, WordSays
<1>4. c \in Seq(T) /\ Len(c) >= 1 /\ c[1].type = "FROM" /\ IsClause(c)
  BY <1>3 DEF Says
<1>5. PICK s \in Seq(T) : s = After(c, 1)  BY <1>4, AfterIs
<1>6. Types(s) = <<"IDENT">>  BY <1>4, <1>5, FromClauseIs
<1>7. ps = Pieces(s, "COMMA")  BY <1>3, <1>5 DEF Says
<1>8. PICK t \in T : s = Append(<< >>, t) /\ t.type = "IDENT"
  <2>1. s[1].type = "IDENT" /\ Len(s) = 1  BY <1>6, OneType
  <2>2. s[1] \in T
    <3>1. 1 \in 1 .. Len(s)  BY <2>1
    <3> QED  BY <3>1, ElementOfSeq
  <2>3. s = <<s[1]>>  BY <2>1
  <2> QED  BY <2>1, <2>2, <2>3
<1>9. PICK shapes : shapes = {<<"IDENT">>}  OBVIOUS
<1>10. PICK u \in Seq(T) : u = << >>  BY EmptySeq
<1>11. IsOpen(u, "COMMA", shapes, << >>)  BY <1>10, OpenNone
<1>12. IsOpen(s, "COMMA", shapes, Append(<< >>, "IDENT"))
  BY <1>8, <1>10, <1>11, OpenStep
<1>13. IsList(s, "COMMA", shapes)
  <2>1. Append(<< >>, "IDENT") \in shapes  BY <1>9
  <2> QED  BY <1>12, <2>1, OpenDone
<1>14. << >> \notin shapes  BY <1>9
<1>15. /\ ListRows(f, s, "COMMA") = [k \in DOMAIN ps |-> f[ps[k]]]
       /\ \A k \in DOMAIN ps : ps[k] \in Seq(T)
  <2>1. Entire(ListRows(f, s, "COMMA"), ps, f, shapes, T)
    BY <1>7, <1>13, <1>14, RowsDone
  <2> QED  BY <2>1 DEF Entire
<1>16. ps \in Seq(Seq(T)) /\ Len(ps) >= 1  BY <1>7, PiecesTyped
<1>17. 1 \in DOMAIN ps
  <2>1. PICK n \in Nat : n = Len(ps) /\ DOMAIN ps = 1 .. n  BY <1>16, LenProperties
  <2> QED  BY <1>16, <2>1
<1>18. RowsAt(p, f, "FROM", 1, "COMMA") = [k \in DOMAIN ps |-> f[ps[k]]]
  BY <1>5, <1>7, <1>15 DEF RowsAt, ListRows
<1>19. PICK r : r = RowsAt(p, f, "FROM", 1, "COMMA")  OBVIOUS
<1>20. r # << >> /\ r[1] = f[ps[1]]
  <2>1. DOMAIN r = DOMAIN ps  BY <1>18, <1>19
  <2>2. DOMAIN << >> = {}  OBVIOUS
  <2> QED  BY <1>17, <1>18, <1>19, <2>1, <2>2
<1>21. f[ps[1]] = ps[1][1].text  BY <1>1, <1>15, <1>17, FnsAre
<1> QED  BY <1>1, <1>19, <1>20, <1>21 DEF RowsBegin

----------------------------------------------------------------------------
(* A whole piece says what the grammar reads in it *)

LEMMA ColumnIs ==
  ASSUME NEW T, NEW q \in Seq(T), Types(q) \in Columns
  PROVE  ColumnAt(q) = ColumnOf(q)
<1>1. PICK x : Types(q) = <<"IDENT", x>>  BY DEF Columns
<1>2. PICK o : o = <<"IDENT", x>>  OBVIOUS
<1>3. Len(o) = 2  BY <1>2
<1>4. Shaped(q, o, 2)  BY <1>1, <1>2, <1>3, ShapedIs
<1>5. Len(q) = 2  BY <1>4 DEF Shaped
<1> QED  BY <1>5 DEF ColumnAt, ColumnOf

LEMMA ConditionIs ==
  ASSUME NEW T, NEW q \in Seq(T), Types(q) \in Conditions
  PROVE  ConditionAt(q) = ConditionOf(q)
<1>1. PICK x, y, z : Types(q) = <<x, y, z>>  BY DEF Conditions
<1>2. PICK o : o = <<x, y, z>>  OBVIOUS
<1>3. Len(o) = 3  BY <1>2
<1>4. Shaped(q, o, 3)  BY <1>1, <1>2, <1>3, ShapedIs
<1>5. Len(q) = 3  BY <1>4 DEF Shaped
<1> QED  BY <1>5 DEF ConditionAt, ConditionOf

LEMMA KeyIs ==
  ASSUME NEW T, NEW q \in Seq(T), Types(q) \in Keys
  PROVE  KeyAt(q) = KeyOf(q)
<1>1. CASE Types(q) = <<"IDENT">>
  <2>1. PICK o : o = <<"IDENT">>  OBVIOUS
  <2>2. Len(o) = 1 /\ o[1] = "IDENT"  BY <2>1
  <2>3. Shaped(q, o, 1)  BY <1>1, <2>1, <2>2, ShapedIs
  <2>4. Len(q) = 1 /\ q[1].type = "IDENT"  BY <2>2, <2>3 DEF Shaped
  <2>5. Last(q).type # "DESC"  BY <2>4, LastToken
  <2>6. KeyAt(q) = [col |-> q[1].text, asc |-> TRUE]  BY <2>4 DEF KeyAt
  <2>7. KeyOf(q) = [col |-> q[1].text, asc |-> TRUE]  BY <2>5 DEF KeyOf
  <2> QED  BY <2>6, <2>7
<1>2. CASE Types(q) = <<"IDENT", "ASC">>
  <2>1. PICK o : o = <<"IDENT", "ASC">>  OBVIOUS
  <2>2. Len(o) = 2 /\ o[2] = "ASC"  BY <2>1
  <2>3. Shaped(q, o, 2)  BY <1>2, <2>1, <2>2, ShapedIs
  <2>4. Len(q) = 2 /\ q[2].type = "ASC"  BY <2>2, <2>3 DEF Shaped
  <2>5. Last(q).type # "DESC"  BY <2>4, LastToken
  <2>6. KeyAt(q) = [col |-> q[1].text, asc |-> TRUE]  BY <2>4 DEF KeyAt
  <2>7. KeyOf(q) = [col |-> q[1].text, asc |-> TRUE]  BY <2>5 DEF KeyOf
  <2> QED  BY <2>6, <2>7
<1>3. CASE Types(q) = <<"IDENT", "DESC">>
  <2>1. PICK o : o = <<"IDENT", "DESC">>  OBVIOUS
  <2>2. Len(o) = 2 /\ o[2] = "DESC"  BY <2>1
  <2>3. Shaped(q, o, 2)  BY <1>3, <2>1, <2>2, ShapedIs
  <2>4. Len(q) = 2 /\ q[2].type = "DESC"  BY <2>2, <2>3 DEF Shaped
  <2>5. Last(q).type = "DESC"  BY <2>4, LastToken
  <2>6. KeyAt(q) = [col |-> q[1].text, asc |-> FALSE]  BY <2>4 DEF KeyAt
  <2>7. KeyOf(q) = [col |-> q[1].text, asc |-> FALSE]  BY <2>5 DEF KeyOf
  <2> QED  BY <2>6, <2>7
<1> QED  BY <1>1, <1>2, <1>3 DEF Keys

LEMMA ItemIs ==
  ASSUME NEW T, NEW q \in Seq(T), Types(q) \in Items
  PROVE  ItemAt(q) = ItemOf(q)
<1>1. PICK o \in Items : o = Types(q)  OBVIOUS
<1>2. PICK n \in Nat : n = Len(q)  BY LenProperties
<1>3. Len(o) = n /\ \A i \in 1 .. n : q[i].type = o[i]  BY <1>1, <1>2, TypesAre
<1>4. CASE n = 1 /\ o[1] = "IDENT"
  <2>1. Len(q) = 1 /\ q[1].type = "IDENT"  BY <1>2, <1>3, <1>4
  <2>2. Last(q) = q[1]  BY <2>1, LastToken
  <2>3. ItemAt(q) = [agg |-> "none", col |-> q[1].text, alias |-> q[1].text]
    BY <2>1 DEF ItemAt, ColAt, AliasAt
  <2>4. ItemOf(q) = [agg |-> "none", col |-> q[1].text, alias |-> q[1].text]
    BY <2>1, <2>2 DEF ItemOf
  <2> QED  BY <2>3, <2>4
<1>5. CASE n = 3 /\ o[1] = "IDENT" /\ o[3] = "IDENT"
  <2>1. Len(q) = 3 /\ q[1].type = "IDENT" /\ q[3].type = "IDENT"  BY <1>2, <1>3, <1>5
  <2>2. Last(q) = q[3]  BY <2>1, LastToken
  <2>3. ItemAt(q) = [agg |-> "none", col |-> q[1].text, alias |-> q[3].text]
    BY <2>1 DEF ItemAt, ColAt, AliasAt
  <2>4. ItemOf(q) = [agg |-> "none", col |-> q[1].text, alias |-> q[3].text]
    BY <2>1, <2>2 DEF ItemOf
  <2> QED  BY <2>3, <2>4
<1>6. CASE n = 4 /\ o[1] # "IDENT" /\ o[4] = "RPAREN"
  <2>1. Len(q) = 4 /\ q[1].type # "IDENT" /\ q[4].type = "RPAREN"  BY <1>2, <1>3, <1>6
  <2>2. Last(q) = q[4]  BY <2>1, LastToken
  <2>3. ItemAt(q) = [agg |-> q[1].type, col |-> q[3].text, alias |-> q[3].text]
    BY <2>1 DEF ItemAt, ColAt, AliasAt
  <2>4. ItemOf(q) = [agg |-> q[1].type, col |-> q[3].text, alias |-> q[3].text]
    BY <2>1, <2>2 DEF ItemOf
  <2> QED  BY <2>3, <2>4
<1>7. CASE n = 6 /\ o[1] # "IDENT" /\ o[6] = "IDENT"
  <2>1. Len(q) = 6 /\ q[1].type # "IDENT" /\ q[6].type = "IDENT"  BY <1>2, <1>3, <1>7
  <2>2. Last(q) = q[6]  BY <2>1, LastToken
  <2>3. ItemAt(q) = [agg |-> q[1].type, col |-> q[3].text, alias |-> q[6].text]
    BY <2>1 DEF ItemAt, ColAt, AliasAt
  <2>4. ItemOf(q) = [agg |-> q[1].type, col |-> q[3].text, alias |-> q[6].text]
    BY <2>1, <2>2 DEF ItemOf
  <2> QED  BY <2>3, <2>4
<1>8. \/ Len(o) = 1 /\ o[1] = "IDENT"
      \/ Len(o) = 3 /\ o[1] = "IDENT" /\ o[2] = "AS" /\ o[3] = "IDENT"
      \/ /\ Len(o) \in {4, 6} /\ o[1] \in Aggregates
         /\ o[2] = "LPAREN" /\ o[3] = "IDENT" /\ o[4] = "RPAREN"
         /\ Len(o) = 6 => o[5] = "AS" /\ o[6] = "IDENT"
  BY ItemsAre
<1>9. "IDENT" \notin Aggregates  BY DEF Aggregates
<1> QED  BY <1>3, <1>4, <1>5, <1>6, <1>7, <1>8, <1>9

LEMMA WholeColumns ==
  ASSUME NEW T, NEW r, NEW ps, Entire(r, ps, ColumnFn(T), Columns, T)
  PROVE  r = Each(ps, ColumnOf)
<1>1. \A k \in DOMAIN ps : ColumnFn(T)[ps[k]] = ColumnOf(ps[k])
  BY FnsAre, ColumnIs DEF Entire
<1> QED  BY <1>1 DEF Entire, Each

LEMMA WholeValues ==
  ASSUME NEW T, NEW r, NEW ps, Entire(r, ps, ValueFn(T), Values, T)
  PROVE  r = Each(ps, Head)
<1>1. \A k \in DOMAIN ps : ValueFn(T)[ps[k]] = Head(ps[k])
  <2> SUFFICES ASSUME NEW k \in DOMAIN ps  PROVE ValueFn(T)[ps[k]] = Head(ps[k])
    OBVIOUS
  <2>1. PICK q \in Seq(T) : q = ps[k]  BY DEF Entire
  <2>2. ValueFn(T)[q] = q[1]  BY FnsAre
  <2>3. Head(q) = q[1]  OBVIOUS
  <2> QED  BY <2>1, <2>2, <2>3
<1> QED  BY <1>1 DEF Entire, Each

LEMMA WholeItems ==
  ASSUME NEW T, NEW r, NEW ps, Entire(r, ps, ItemFn(T), Items, T)
  PROVE  r = Each(ps, ItemOf)
<1>1. \A k \in DOMAIN ps : ItemFn(T)[ps[k]] = ItemOf(ps[k])
  BY FnsAre, ItemIs DEF Entire
<1> QED  BY <1>1 DEF Entire, Each

LEMMA WholeConditions ==
  ASSUME NEW T, NEW r, NEW ps, Entire(r, ps, ConditionFn(T), Conditions, T)
  PROVE  r = Each(ps, ConditionOf)
<1>1. \A k \in DOMAIN ps : ConditionFn(T)[ps[k]] = ConditionOf(ps[k])
  BY FnsAre, ConditionIs DEF Entire
<1> QED  BY <1>1 DEF Entire, Each

LEMMA WholeNames ==
  ASSUME NEW T, NEW r, NEW ps, Entire(r, ps, NameFn(T), {<<"IDENT">>}, T)
  PROVE  r = Each(ps, NameOf)
<1>1. \A k \in DOMAIN ps : NameFn(T)[ps[k]] = NameOf(ps[k])
  BY FnsAre DEF Entire, NameOf
<1> QED  BY <1>1 DEF Entire, Each

LEMMA WholeKeys ==
  ASSUME NEW T, NEW r, NEW ps, Entire(r, ps, KeyFn(T), Keys, T)
  PROVE  r = Each(ps, KeyOf)
<1>1. \A k \in DOMAIN ps : KeyFn(T)[ps[k]] = KeyOf(ps[k])
  BY FnsAre, KeyIs DEF Entire
<1> QED  BY <1>1 DEF Entire, Each

----------------------------------------------------------------------------
(* What has been said of a whole statement is what it means *)

LEMMA OneKind ==
  ASSUME NEW p
  PROVE  /\ IsCreate(p) => p[1].type = "CREATE"
         /\ IsInsert(p) => p[1].type = "INSERT"
         /\ IsSelect(p) => p[1].type = "SELECT"
<1>1. IsCreate(p) => p[1].type = "CREATE"
  <2>1. PICK o : o = <<"CREATE", "TABLE", "IDENT", "LPAREN">>  OBVIOUS
  <2>2. 1 \in DOMAIN o /\ o[1] = "CREATE"  BY <2>1
  <2> QED  BY <2>1, <2>2 DEF IsCreate, StartsWith
<1>2. IsInsert(p) => p[1].type = "INSERT"
  <2>1. PICK o : o = <<"INSERT", "INTO", "IDENT", "VALUES", "LPAREN">>  OBVIOUS
  <2>2. 1 \in DOMAIN o /\ o[1] = "INSERT"  BY <2>1
  <2> QED  BY <2>1, <2>2 DEF IsInsert, StartsWith
<1> QED  BY <1>1, <1>2 DEF IsSelect

LEMMA EachOfNone ==
  /\ Each(<< >>, ItemOf) = << >> /\ Each(<< >>, ConditionOf) = << >>
  /\ Each(<< >>, NameOf) = << >> /\ Each(<< >>, KeyOf) = << >>
BY DEF Each

LEMMA NoHeadsMean ==
  ASSUME NEW p, Heads(p) = {}
  PROVE  /\ Each(ListOf(p, "SELECT", 1, "COMMA"), ItemOf) = << >>
         /\ Each(ListOf(p, "WHERE", 1, "AND"), ConditionOf) = << >>
         /\ Each(ListOf(p, "GROUP", 2, "COMMA"), NameOf) = << >>
         /\ Each(ListOf(p, "ORDER", 2, "COMMA"), KeyOf) = << >>
<1>1. \A word, n, separator : ListOf(p, word, n, separator) = << >>
  BY WordMissing DEF HasWord
<1> QED  BY <1>1, EachOfNone

LEMMA CreateMeaning ==
  ASSUME NEW p, IsCreate(p), Heads(p) = {}, NEW cols,
         cols = Each(Pieces(Inside(p, 4), "COMMA"), ColumnOf)
  PROVE  Meaning(p)
           = Stmt("create", p[3].text, cols, << >>, FALSE, << >>, << >>, << >>, << >>)
<1>1. ~IsSelect(p) /\ ~IsInsert(p)  BY OneKind
<1>2. (IsSelect(p) /\ p[2].type = "STAR") = FALSE  BY <1>1
<1> QED  BY <1>1, <1>2, NoHeadsMean DEF Meaning, Stmt

LEMMA InsertMeaning ==
  ASSUME NEW p, IsInsert(p), Heads(p) = {}, NEW values,
         values = Each(Pieces(Inside(p, 5), "COMMA"), Head)
  PROVE  Meaning(p)
           = Stmt("insert", p[3].text, << >>, values, FALSE, << >>, << >>, << >>, << >>)
<1>1. ~IsSelect(p) /\ ~IsCreate(p)  BY OneKind
<1>2. (IsSelect(p) /\ p[2].type = "STAR") = FALSE  BY <1>1
<1> QED  BY <1>1, <1>2, NoHeadsMean DEF Meaning, Stmt

LEMMA StarMeaning ==
  ASSUME NEW p, IsSelect(p), p[2].type = "STAR", NEW name,
         name = ListOf(p, "FROM", 1, "COMMA")[1][1].text,
         NEW where, where = Each(ListOf(p, "WHERE", 1, "AND"), ConditionOf),
         NEW group_by, group_by = Each(ListOf(p, "GROUP", 2, "COMMA"), NameOf),
         NEW order_by, order_by = Each(ListOf(p, "ORDER", 2, "COMMA"), KeyOf)
  PROVE  Meaning(p)
           = Stmt("select", name, << >>, << >>, TRUE, << >>, where, group_by, order_by)
<1>1. ~IsInsert(p) /\ ~IsCreate(p)  BY OneKind
<1>2. (IsSelect(p) /\ p[2].type = "STAR") = TRUE  OBVIOUS
<1> QED  BY <1>1, <1>2 DEF Meaning, Stmt

LEMMA ItemsMeaning ==
  ASSUME NEW p, IsSelect(p), p[2].type # "STAR", NEW name,
         name = ListOf(p, "FROM", 1, "COMMA")[1][1].text,
         NEW items, items = Each(ListOf(p, "SELECT", 1, "COMMA"), ItemOf),
         NEW where, where = Each(ListOf(p, "WHERE", 1, "AND"), ConditionOf),
         NEW group_by, group_by = Each(ListOf(p, "GROUP", 2, "COMMA"), NameOf),
         NEW order_by, order_by = Each(ListOf(p, "ORDER", 2, "COMMA"), KeyOf)
  PROVE  Meaning(p)
           = Stmt("select", name, << >>, << >>, FALSE, items, where, group_by, order_by)
<1>1. ~IsInsert(p) /\ ~IsCreate(p)  BY OneKind
<1>2. (IsSelect(p) /\ p[2].type = "STAR") = FALSE  OBVIOUS
<1> QED  BY <1>1, <1>2 DEF Meaning, Stmt

LEMMA ColumnSame ==
  ASSUME NEW T, NEW q \in Seq(T), NEW t \in T, Types(q) \in Columns
  PROVE  ColumnFn(T)[Append(q, t)] = ColumnFn(T)[q]
<1>1. PICK x : Types(q) = <<"IDENT", x>>  BY DEF Columns
<1>2. PICK a : a = "IDENT"  OBVIOUS
<1>3. Types(q) = <<a, x>>  BY <1>1, <1>2
<1>4. \A u \in Seq(T) : \A c, d : Types(u) = <<c, d>> =>
        ColumnFn(T)[Append(u, t)] = ColumnFn(T)[u]
  BY ColumnGrows
<1> QED  BY <1>3, <1>4

LEMMA ValueSame ==
  ASSUME NEW T, NEW q \in Seq(T), NEW t \in T, Types(q) \in Values
  PROVE  ValueFn(T)[Append(q, t)] = ValueFn(T)[q]
<1>1. PICK x : Types(q) = <<x>>  BY DEF Values
<1>2. \A u \in Seq(T) : \A c : Types(u) = <<c>> =>
        ValueFn(T)[Append(u, t)] = ValueFn(T)[u]
  BY ValueGrows
<1> QED  BY <1>1, <1>2

LEMMA ClosedSays ==
  ASSUME NEW T, NEW p \in Seq(T), NEW head, NEW n \in Nat, n = Len(head), n > 2,
         NEW shapes, Closed(p, head, shapes), Bracketed(p), Quiet(p)
  PROVE  /\ p # << >> /\ Len(p) > n /\ Len(p) > 2 /\ Last(p).type # "COMMA"
         /\ IsList(Inside(p, n), "COMMA", shapes)
         /\ Heads(p) = {} /\ TableOf(p, T) = p[3].text /\ StarOf(p) = FALSE
         /\ ItemsOf(p, T) = << >> /\ WhereOf(p, T) = << >> /\ GroupOf(p, T) = << >>
         /\ OrderOf(p, T) = << >>
<1>1. Heads(p) = {} /\ ~Starred(p) /\ p # << >>  BY DEF Quiet, Bracketed
<1>2. /\ Len(p) > n /\ Last(p).type = "RPAREN"
      /\ IsList(Inside(p, n), "COMMA", shapes)
  BY DEF Closed, StartsWith
<1>3. Len(p) > 2
  <2>1. PICK m \in Nat : m = Len(p)  BY LenProperties
  <2> QED  BY <1>2, <2>1
<1>4. TableOf(p, T) = p[3].text  BY <1>3 DEF TableOf
<1>5. StarOf(p) = FALSE  BY <1>1 DEF StarOf
<1> QED  BY <1>1, <1>2, <1>3, <1>4, <1>5, NoHeadsOf

LEMMA CreateMeans ==
  ASSUME NEW T, NEW p \in Seq(T), p[1].type = "CREATE", p # << >>,
         Closed(p, CreateHead, Columns), Quiet(p)
  PROVE  Said(p, T) = Meaning(p)
<1>1. PICK n \in Nat : n = 4  OBVIOUS
<1>2. n = Len(CreateHead) /\ n > 2  BY <1>1, HeadsOfKinds
<1>3. Bracketed(p)  BY DEF Bracketed
<1>4. /\ p # << >> /\ Len(p) > n /\ Len(p) > 2 /\ Last(p).type # "COMMA"
      /\ IsList(Inside(p, n), "COMMA", Columns)
      /\ Heads(p) = {} /\ TableOf(p, T) = p[3].text /\ StarOf(p) = FALSE
      /\ ItemsOf(p, T) = << >> /\ WhereOf(p, T) = << >> /\ GroupOf(p, T) = << >>
      /\ OrderOf(p, T) = << >>
  BY <1>2, <1>3, ClosedSays
<1>5. PICK ps : ps = Pieces(Inside(p, n), "COMMA")  OBVIOUS
<1>6. PICK f : f = ColumnFn(T)  OBVIOUS
<1>7. Entire(ListRows(f, After(p, n), "COMMA"), ps, f, Columns, T)
  <2>1. \A q \in Seq(T), t \in T : Types(q) \in Columns => f[Append(q, t)] = f[q]
    BY <1>6, ColumnSame
  <2> QED  BY <1>4, <1>5, <2>1, ShapesBegin, ClosedRows
<1>8. PICK cols : cols = Each(ps, ColumnOf)  OBVIOUS
<1>9. ColsOf(p, T) = cols
  <2>1. ColsOf(p, T) = ListRows(f, After(p, n), "COMMA")
    BY <1>1, <1>6 DEF ColsOf, RowsWithin
  <2> QED  BY <1>6, <1>7, <1>8, <2>1, WholeColumns
<1>10. ValuesOf(p, T) = << >> /\ KindOf(p) = "create"  BY DEF ValuesOf, RowsWithin, KindOf
<1>11. Said(p, T) = Stmt("create", p[3].text, cols, << >>, FALSE, << >>, << >>, << >>, << >>)
  BY <1>4, <1>9, <1>10 DEF Said
<1>12. IsCreate(p)  BY ClosedIsStmt
<1>13. cols = Each(Pieces(Inside(p, 4), "COMMA"), ColumnOf)
  BY <1>1, <1>5, <1>8
<1> QED  BY <1>4, <1>11, <1>12, <1>13, CreateMeaning

LEMMA InsertMeans ==
  ASSUME NEW T, NEW p \in Seq(T), p[1].type = "INSERT", p # << >>,
         Closed(p, InsertHead, Values), Quiet(p)
  PROVE  Said(p, T) = Meaning(p)
<1>1. PICK n \in Nat : n = 5  OBVIOUS
<1>2. n = Len(InsertHead) /\ n > 2  BY <1>1, HeadsOfKinds
<1>3. Bracketed(p)  BY DEF Bracketed
<1>4. /\ p # << >> /\ Len(p) > n /\ Len(p) > 2 /\ Last(p).type # "COMMA"
      /\ IsList(Inside(p, n), "COMMA", Values)
      /\ Heads(p) = {} /\ TableOf(p, T) = p[3].text /\ StarOf(p) = FALSE
      /\ ItemsOf(p, T) = << >> /\ WhereOf(p, T) = << >> /\ GroupOf(p, T) = << >>
      /\ OrderOf(p, T) = << >>
  BY <1>2, <1>3, ClosedSays
<1>5. PICK ps : ps = Pieces(Inside(p, n), "COMMA")  OBVIOUS
<1>6. PICK f : f = ValueFn(T)  OBVIOUS
<1>7. Entire(ListRows(f, After(p, n), "COMMA"), ps, f, Values, T)
  <2>1. \A q \in Seq(T), t \in T : Types(q) \in Values => f[Append(q, t)] = f[q]
    BY <1>6, ValueSame
  <2> QED  BY <1>4, <1>5, <2>1, ShapesBegin, ClosedRows
<1>8. PICK values : values = Each(ps, Head)  OBVIOUS
<1>9. ValuesOf(p, T) = values
  <2>1. ValuesOf(p, T) = ListRows(f, After(p, n), "COMMA")
    BY <1>1, <1>6 DEF ValuesOf, RowsWithin
  <2> QED  BY <1>6, <1>7, <1>8, <2>1, WholeValues
<1>10. ColsOf(p, T) = << >> /\ KindOf(p) = "insert"  BY DEF ColsOf, RowsWithin, KindOf
<1>11. Said(p, T)
         = Stmt("insert", p[3].text, << >>, values, FALSE, << >>, << >>, << >>, << >>)
  BY <1>4, <1>9, <1>10 DEF Said
<1>12. IsInsert(p)  BY ClosedIsStmt
<1>13. values = Each(Pieces(Inside(p, 5), "COMMA"), Head)
  BY <1>1, <1>5, <1>8
<1> QED  BY <1>4, <1>11, <1>12, <1>13, InsertMeaning

LEMMA SelectMeans ==
  ASSUME NEW T, NEW p \in Seq(T), IsSelect(p)
  PROVE  Said(p, T) = Meaning(p)
<1>1. p # << >> /\ p[1].type = "SELECT"  BY DEF IsSelect
<1>2. PICK name : name = ListOf(p, "FROM", 1, "COMMA")[1][1].text  OBVIOUS
<1>3. /\ KindOf(p) = "select" /\ ColsOf(p, T) = << >> /\ ValuesOf(p, T) = << >>
      /\ TableOf(p, T) = name
  BY <1>1, <1>2, SelectHasNoBrackets, FromSays
<1>4. PICK where : where = Each(ListOf(p, "WHERE", 1, "AND"), ConditionOf)  OBVIOUS
<1>5. WhereOf(p, T) = where
  <2>1. PICK begin : begin = <<"WHERE">>  OBVIOUS
  <2>2. Len(begin) = 1 /\ begin[1] = "WHERE" /\ Framed(begin, "AND", Conditions)
    BY <2>1, Frames
  <2>3. Entire(WhereOf(p, T), ListOf(p, "WHERE", 1, "AND"), ConditionFn(T),
              Conditions, T)
    BY <2>2, ListSays DEF WhereOf
  <2> QED  BY <1>4, <2>3, WholeConditions
<1>6. PICK group_by : group_by = Each(ListOf(p, "GROUP", 2, "COMMA"), NameOf)
  OBVIOUS
<1>7. GroupOf(p, T) = group_by
  <2>1. PICK begin : begin = <<"GROUP", "BY">>  OBVIOUS
  <2>2. Len(begin) = 2 /\ begin[1] = "GROUP" /\ Framed(begin, "COMMA", {<<"IDENT">>})
    BY <2>1, Frames
  <2>3. Entire(GroupOf(p, T), ListOf(p, "GROUP", 2, "COMMA"), NameFn(T),
              {<<"IDENT">>}, T)
    BY <2>2, ListSays DEF GroupOf
  <2> QED  BY <1>6, <2>3, WholeNames
<1>8. PICK order_by : order_by = Each(ListOf(p, "ORDER", 2, "COMMA"), KeyOf)
  OBVIOUS
<1>9. OrderOf(p, T) = order_by
  <2>1. PICK begin : begin = <<"ORDER", "BY">>  OBVIOUS
  <2>2. Len(begin) = 2 /\ begin[1] = "ORDER" /\ Framed(begin, "COMMA", Keys)
    BY <2>1, Frames
  <2>3. Entire(OrderOf(p, T), ListOf(p, "ORDER", 2, "COMMA"), KeyFn(T), Keys, T)
    BY <2>2, ListSays DEF OrderOf
  <2> QED  BY <1>8, <2>3, WholeKeys
<1>10. PICK items : items = Each(ListOf(p, "SELECT", 1, "COMMA"), ItemOf)  OBVIOUS
<1>11. ~Starred(p) => ItemsOf(p, T) = items
  <2> SUFFICES ASSUME ~Starred(p)  PROVE ItemsOf(p, T) = items
    OBVIOUS
  <2>1. PICK begin : begin = <<"SELECT">>  OBVIOUS
  <2>2. Len(begin) = 1 /\ begin[1] = "SELECT" /\ Framed(begin, "COMMA", Items)
    BY <2>1, Frames
  <2>3. Entire(ItemsOf(p, T), ListOf(p, "SELECT", 1, "COMMA"), ItemFn(T), Items, T)
    BY <2>2, ListSays DEF ItemsOf
  <2> QED  BY <1>10, <2>3, WholeItems
<1>12. Len(p) > 1
  <2>1. PICK n \in Nat : n = Len(p) /\ DOMAIN p = 1 .. n  BY LenProperties
  <2>2. PICK h \in 1 .. n : p[h].type = "FROM"  BY <2>1 DEF IsSelect, Heads
  <2>3. h # 1  BY <1>1, <2>2
  <2> QED  BY <2>1, <2>2, <2>3
<1>13. CASE p[2].type = "STAR"
  <2>1. Starred(p)  BY <1>12, <1>13 DEF Starred
  <2>2. StarOf(p) = TRUE  BY <2>1 DEF StarOf
  <2>3. ItemsOf(p, T) = << >>  BY <2>1 DEF ItemsOf
  <2>4. Said(p, T)
          = Stmt("select", name, << >>, << >>, TRUE, << >>, where, group_by, order_by)
    BY <1>3, <1>5, <1>7, <1>9, <2>2, <2>3 DEF Said
  <2> QED  BY <1>2, <1>4, <1>6, <1>8, <1>13, <2>4, StarMeaning
<1>14. CASE p[2].type # "STAR"
  <2>1. ~Starred(p)  BY <1>14 DEF Starred
  <2>2. StarOf(p) = FALSE  BY <2>1 DEF StarOf
  <2>3. Said(p, T)
          = Stmt("select", name, << >>, << >>, FALSE, items, where, group_by, order_by)
    BY <1>3, <1>5, <1>7, <1>9, <1>11, <2>1, <2>2 DEF Said
  <2> QED  BY <1>2, <1>4, <1>6, <1>8, <1>10, <1>14, <2>3, ItemsMeaning
<1> QED  BY <1>13, <1>14

\* What a whole statement says is what it means.
LEMMA StmtMeans ==
  ASSUME NEW T, NEW p \in Seq(T), IsStmt(p), Quiet(p)
  PROVE  Said(p, T) = Meaning(p)
<1>1. ASSUME NEW head, Len(head) > 0, Len(head) \in Nat, StartsWith(p, head)
      PROVE  p # << >>
  <2>1. Len(p) >= Len(head)  BY <1>1 DEF StartsWith
  <2> QED  BY <1>1, <2>1, EmptySeq
<1>2. CASE p[1].type = "CREATE" /\ Closed(p, CreateHead, Columns)
  BY <1>1, <1>2, HeadsOfKinds, CreateMeans DEF Closed
<1>3. CASE p[1].type = "INSERT" /\ Closed(p, InsertHead, Values)
  BY <1>1, <1>3, HeadsOfKinds, InsertMeans DEF Closed
<1>4. CASE IsSelect(p)  BY <1>4, SelectMeans
<1> QED  BY <1>2, <1>3, <1>4, StmtOf

\* No other state is called "done".
LEMMA DoneIsStmt ==
  ASSUME NEW p, State("done", p)
  PROVE  IsStmt(p)
BY DEF State, Prefix, Word, ColumnOpen, ValueOpen, ItemOpen, ConditionOpen, NameOpen,
       KeyOpen

----------------------------------------------------------------------------
(* What the parser builds *)

\* What the parser has built is what has been read says.
Builds ==
  \E T : /\ Blanks \subseteq T /\ tokens \in Seq(T) /\ cursor \in 1 .. Len(tokens)
         /\ State(pc, Taken(cursor - 1)) /\ Quiet(Taken(cursor - 1))
         /\ stmt = Said(Taken(cursor - 1), T)

BuildInv ==
  /\ pc \in P!Labels \cup {"done"} => Builds
  /\ pc = "lex" => stmt = P!NoStmt

LEMMA LexKeepsBuildInv ==
  ASSUME LexInv, CursorInv, CursorInv', LexInv', BuildInv, Lex
  PROVE  BuildInv'
<1>1. pc = "lex" /\ cursor' = cursor /\ cursor = 1 /\ stmt' = stmt
  BY DEF Lex, L!Next, L!Tokenize, L!EndOfSource, L!LexerThrows, CursorInv
<1>2. stmt = P!NoStmt  BY <1>1 DEF BuildInv
<1>3. P!NoStmt' = P!NoStmt  BY DEF P!NoStmt
<1>4. CASE L!Tokenize
  <2>1. pc' = "lex"  BY <1>1, <1>4 DEF L!Tokenize
  <2> QED  BY <1>1, <1>2, <1>3, <2>1, NoLabels DEF BuildInv
<1>5. CASE L!LexerThrows
  <2>1. pc' = "error"  BY <1>1, <1>5 DEF L!LexerThrows, LexInv
  <2> QED  BY <2>1, NoLabels DEF BuildInv
<1>6. CASE L!EndOfSource
  <2>1. pc' = "parse"  BY <1>6 DEF L!EndOfSource
  <2>2. PICK S : tokens' \in Seq(S)  BY DEF CursorInv
  <2>3. PICK T : T = S \cup Blanks  OBVIOUS
  <2>4. tokens' \in Seq(T) /\ Blanks \subseteq T  BY <2>2, <2>3
  <2>5. cursor' \in 1 .. Len(tokens')
    BY <2>1, ParseRules DEF CursorInv, Asks
  <2>6. Taken(cursor - 1)' = << >>
    <3>1. Taken(0)' = << >>
      <4>1. Len(tokens') \in Nat  BY <2>4
      <4>2. 0 <= Len(tokens')  BY <4>1
      <4> QED  BY <4>2 DEF Taken
    <3>2. cursor' - 1 = 0  BY <1>1
    <3> QED  BY <3>1, <3>2
  <2>7. State("parse", << >>)
    <3>1. Types(<< >>) = << >>  BY DEF Types
    <3> QED  BY <3>1 DEF State, Prefix
  <2>8. Said(<< >>, T) = P!NoStmt /\ Quiet(<< >>)  BY NothingSaid
  <2>9. Builds'
    BY <1>1, <1>2, <2>1, <2>4, <2>5, <2>6, <2>7, <2>8 DEF Builds
  <2> QED  BY <2>1, <2>9 DEF BuildInv
<1> QED  BY <1>4, <1>5, <1>6 DEF Lex, L!Next

LEMMA ParserBuilds ==
  ASSUME LexInv, CursorInv, BuildInv, P!Take
  PROVE  BuildInv'
<1>1. PICK l \in P!Labels : l = pc  BY DEF P!Take
<1>2. PICK T : /\ Blanks \subseteq T /\ tokens \in Seq(T) /\ cursor \in 1 .. Len(tokens)
               /\ State(pc, Taken(cursor - 1)) /\ Quiet(Taken(cursor - 1))
               /\ stmt = Said(Taken(cursor - 1), T)
  BY <1>1 DEF BuildInv, Builds
<1>3. PICK n \in Nat : n = Len(tokens)  BY <1>2, LenProperties
<1>4. PICK i \in 1 .. n : i = cursor  BY <1>2, <1>3
<1>5. PICK p : p = Taken(i - 1)  OBVIOUS
<1>6. PICK t : t = tokens[i]  OBVIOUS
<1>7. p \in Seq(T) /\ t \in T /\ Taken(i) = Append(p, t)
  BY <1>2, <1>3, <1>5, <1>6, TakenIs
<1>8. /\ tokens' = tokens /\ cursor' = i + 1 /\ pc' = P!Rule(l).next /\ Fits(l, t)
      /\ stmt' = P!Built(stmt, l, t)
  BY <1>1, <1>4, <1>6 DEF P!Take, P!consume, P!peek, Fits
<1>9. i + 1 \in 1 .. n
  <2>1. t.type # "EOF_TOK"  BY <1>1, <1>8, RuleRefuses DEF Refuses, Fits
  <2>2. i # n  BY <1>1, <1>3, <1>6, <2>1 DEF CursorInv, EndsWithEnd
  <2> QED  BY <2>2
<1>10. State(l, p) /\ Quiet(p) /\ stmt = Said(p, T)  BY <1>1, <1>2, <1>4, <1>5
<1>11. Fresh(pc', Append(p, t))  BY <1>7, <1>8, <1>10, StateRead
<1>12. Tells(p, l, t, T) /\ Quiet(Append(p, t))  BY <1>7, <1>8, <1>10, StateTells
<1>13. PICK w : w = Append(p, t)  OBVIOUS
<1>14. State(pc', w) /\ Quiet(w)  BY <1>11, <1>12, <1>13, FreshIsState
<1>15. stmt' = Said(w, T)  BY <1>8, <1>10, <1>12, <1>13 DEF Tells
<1>16. Taken(cursor - 1)' = w
  <2>1. cursor' - 1 = i  BY <1>8
  <2>2. Taken(i)' = Taken(i)  BY <1>8 DEF Taken
  <2> QED  BY <1>7, <1>13, <2>1, <2>2
<1>17. Builds'
  <2>1. tokens' \in Seq(T) /\ cursor' \in 1 .. Len(tokens')
    BY <1>2, <1>3, <1>8, <1>9
  <2> QED  BY <1>2, <1>14, <1>15, <1>16, <2>1 DEF Builds
<1>18. pc' # "lex"
  <2>1. ~Reached("lex") \/ P!Rule(l).next # "lex"
    BY ParseRules, CreateRules, InsertRules, SelectRules, ItemRules, ConditionRules,
       LabelsOf DEF Asks, P!Labels, P!Methods
  <2> QED  BY <1>8, <2>1, NextIsReached
<1> QED  BY <1>17, <1>18 DEF BuildInv

LEMMA ParserLeaves ==
  ASSUME LexInv, CursorInv, BuildInv, P!GoOn
  PROVE  BuildInv'
<1>1. PICK l \in P!Labels : l = pc  BY DEF P!GoOn
<1>2. PICK T : /\ Blanks \subseteq T /\ tokens \in Seq(T) /\ cursor \in 1 .. Len(tokens)
               /\ State(pc, Taken(cursor - 1)) /\ Quiet(Taken(cursor - 1))
               /\ stmt = Said(Taken(cursor - 1), T)
  BY <1>1 DEF BuildInv, Builds
<1>3. PICK n \in Nat : n = Len(tokens)  BY <1>2, LenProperties
<1>4. PICK i \in 1 .. n : i = cursor  BY <1>2, <1>3
<1>5. PICK p : p = Taken(i - 1)  OBVIOUS
<1>6. PICK t : t = tokens[i]  OBVIOUS
<1>7. p \in Seq(T)  BY <1>2, <1>3, <1>5, TakenIs
<1>8. PICK m : m = P!Rule(l).otherwise  OBVIOUS
<1>9. /\ tokens' = tokens /\ stmt' = stmt /\ pc' = m /\ t.type \notin P!Rule(l).types
      /\ cursor' = IF P!Rule(l).taken THEN i + 1 ELSE i
  BY <1>1, <1>4, <1>6, <1>8 DEF P!GoOn, P!consume, P!peek
<1>10. State(l, p) /\ Quiet(p) /\ stmt = Said(p, T)  BY <1>1, <1>2, <1>4, <1>5
<1>11. m # "lex"
  BY <1>8, ParseRules, CreateRules, InsertRules, SelectRules, ItemRules,
     ConditionRules, LabelsOf, NoLabels DEF Asks, P!Labels, P!Methods
<1>12. CASE m = "error"  BY <1>9, <1>12, NoLabels DEF BuildInv
<1>13. CASE m # "error"
  <2>1. cursor' = i  BY <1>8, <1>9, <1>13, RuleRefuses DEF Refuses
  <2>2. State(m, p)  BY <1>7, <1>8, <1>10, <1>13, StateGoesOn
  <2>3. Taken(cursor - 1)' = p
    <3>1. cursor' - 1 = i - 1  BY <2>1
    <3>2. Taken(i - 1)' = Taken(i - 1)  BY <1>9 DEF Taken
    <3> QED  BY <1>5, <3>1, <3>2
  <2>4. tokens' \in Seq(T) /\ cursor' \in 1 .. Len(tokens')
    BY <1>2, <1>3, <1>9, <2>1
  <2>5. Builds'  BY <1>2, <1>9, <1>10, <2>2, <2>3, <2>4 DEF Builds
  <2> QED  BY <1>9, <1>11, <2>5 DEF BuildInv
<1> QED  BY <1>12, <1>13

BuiltInv == ParsesInv /\ BuildInv

LEMMA AlwaysBuilt == Spec => []BuiltInv
<1>1. Init => BuildInv
  <2> SUFFICES ASSUME Init  PROVE BuildInv  OBVIOUS
  <2>1. pc = "lex" /\ stmt = P!NoStmt  BY DEF Init, L!Init
  <2> QED  BY <2>1, NoLabels DEF BuildInv
<1>2. ParsesInv /\ ParsesInv' /\ BuildInv /\ [Next]_vars => BuildInv'
  <2> SUFFICES ASSUME CursorInv, LexInv, CursorInv', LexInv', BuildInv, [Next]_vars
               PROVE  BuildInv'
    BY DEF ParsesInv
  <2>1. CASE UNCHANGED vars
    <3>1. tokens' = tokens /\ cursor' = cursor /\ pc' = pc /\ stmt' = stmt
      BY <2>1 DEF vars
    <3>2. \A k : Taken(k)' = Taken(k)  BY <3>1 DEF Taken
    <3> QED  BY <3>1, <3>2 DEF BuildInv, Builds
  <2>2. CASE Lex  BY <2>2, LexKeepsBuildInv
  <2>3. CASE Parse  BY <2>3, ParserBuilds, ParserLeaves DEF Parse, P!Next
  <2> QED  BY <2>1, <2>2, <2>3 DEF Next
<1>3. BuiltInv <=> ParsesInv /\ BuildInv  BY DEF BuiltInv
<1> QED  BY <1>1, <1>2, <1>3, Parsed, PTL DEF Spec

\* A statement that is parsed says what was written: it is what the tokens up
\* to the cursor mean, and no statement could have gone on with the next one.
THEOREM StatementIsWritten == Spec => []StmtIsWritten
<1>1. BuiltInv => StmtIsWritten
  <2> SUFFICES ASSUME BuiltInv, pc = "done"
               PROVE  /\ IsStmt(Taken(cursor - 1))
                      /\ stmt = Meaning(Taken(cursor - 1))
                      /\ ~CanBegin(Taken(cursor))
    BY DEF StmtIsWritten
  <2>1. PICK T : /\ tokens \in Seq(T) /\ cursor \in 1 .. Len(tokens)
                 /\ State("done", Taken(cursor - 1)) /\ Quiet(Taken(cursor - 1))
                 /\ stmt = Said(Taken(cursor - 1), T)
    BY DEF BuiltInv, BuildInv, Builds
  <2>2. PICK n \in Nat : n = Len(tokens)  BY <2>1, LenProperties
  <2>3. PICK i \in 1 .. n : i = cursor  BY <2>1, <2>2
  <2>4. PICK p : p = Taken(i - 1)  OBVIOUS
  <2>5. p \in Seq(T)  BY <2>1, <2>2, <2>4, TakenIs
  <2>6. IsStmt(p)  BY <2>1, <2>3, <2>4, <2>5, DoneIsStmt
  <2>7. stmt = Meaning(p)  BY <2>1, <2>3, <2>4, <2>5, <2>6, StmtMeans
  <2>8. ~CanBegin(Taken(i))
    <3>1. PICK S : /\ Blanks \subseteq S /\ tokens \in Seq(S)
                   /\ Sound("done", Taken(cursor - 1), tokens[cursor], S)
      BY DEF BuiltInv, ParsesInv, ParseInv, Parses
    <3>2. PICK t : t = tokens[i]  OBVIOUS
    <3>3. p \in Seq(S) /\ t \in S /\ Taken(i) = Append(p, t)
      BY <2>2, <2>4, <3>1, <3>2, TakenIs
    <3>4. Sound("done", p, t, S)  BY <2>3, <2>4, <3>1, <3>2
    <3> QED  BY <3>1, <3>3, <3>4, DoneIs, NoneGoesOn
  <2> QED  BY <2>3, <2>4, <2>6, <2>7, <2>8
<1> QED  BY <1>1, AlwaysBuilt, PTL
=============================================================================
