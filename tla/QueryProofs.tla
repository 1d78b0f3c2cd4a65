----------------------------- MODULE QueryProofs -----------------------------
(***************************************************************************)
(* What the pipeline of Query computes, proved for every table, schema,    *)
(* statement and batch size: the answer and the errors are those that      *)
(* QueryAnswer says of the table as a whole.                               *)
(***************************************************************************)
EXTENDS QueryAnswer, DataLemmas

----------------------------------------------------------------------------
(* Selected: what a function has at some numbers, from the smallest on *)

LEMMA SeqWider ==
  ASSUME NEW S, NEW W, S \subseteq W, NEW s \in Seq(S)
  PROVE  s \in Seq(W)
<1>1. PICK n : n = Len(s)  OBVIOUS
<1>2. n \in Nat /\ s \in [1 .. n -> S]  BY <1>1
<1>3. s \in [1 .. n -> W]  BY <1>2
<1> QED  BY <1>2, <1>3

LEMMA SeqTyped ==
  ASSUME NEW W, NEW s \in Seq(W)
  PROVE  /\ Len(s) \in Nat /\ DOMAIN s = 1 .. Len(s)
         /\ \A i \in 1 .. Len(s) : s[i] \in W
         /\ \A i \in DOMAIN s : s[i] \in W
OBVIOUS

LEMMA InOrderIs ==
  ASSUME NEW S \in SUBSET Nat, IsFiniteSet(S)
  PROVE  Lists(InOrder[S], S) /\ Len(InOrder[S]) = Cardinality(S)
<1>1. PICK R : R = {p \in Nat \X Nat : p[1] < p[2]}  OBVIOUS
<1>2. \A x, y \in S : <<x, y>> \in R <=> x < y  BY <1>1
<1>3. StrictOrder(S, R)
  <2>1. \A x \in S : x \in Nat  OBVIOUS
  <2>2. \A x, y \in S : x = y \/ x < y \/ y < x  BY <2>1
  <2>3. \A x \in S : ~(x < x)  BY <2>1
  <2>4. \A x, y, z \in S : x < y /\ y < z => x < z  BY <2>1
  <2> QED  BY <1>2, <2>2, <2>3, <2>4 DEF StrictOrder
<1>4. InOrder[S] = Ranked(S, R)
  <2> DEFINE before(x) == {y \in S : y < x}
             ahead(x) == {y \in S : <<y, x>> \in R}
  <2>1. \A x \in S : before(x) = ahead(x)  BY <1>2
  <2>2. InOrder[S] = [k \in 1 .. Cardinality(S) |->
                        CHOOSE x \in S : Cardinality(before(x)) = k - 1]
    BY DEF InOrder
  <2>3. Ranked(S, R) = [k \in 1 .. Cardinality(S) |->
                        CHOOSE x \in S : Cardinality(ahead(x)) = k - 1]
    BY DEF Ranked
  <2> HIDE DEF before, ahead
  <2>4. \A k : (CHOOSE x \in S : Cardinality(before(x)) = k - 1)
             = (CHOOSE x \in S : Cardinality(ahead(x)) = k - 1)
    BY <2>1
  <2> QED  BY <2>2, <2>3, <2>4
<1>5. PICK n : n = Cardinality(S)  OBVIOUS
<1>6. PICK f : f = InOrder[S]  OBVIOUS
<1>7. f \in Bijection(1 .. n, S) /\ n \in Nat
      /\ \A i, j \in 1 .. n : i < j => <<f[i], f[j]>> \in R
  BY <1>3, <1>4, <1>5, <1>6, RankedIs, FS_CardinalityType
<1>8. f \in [1 .. n -> S] /\ \A x \in S : \E i \in 1 .. n : f[i] = x
  BY <1>7 DEF Bijection, Injection, Surjection
<1>9. f \in Seq(S) /\ Len(f) = n  BY <1>7, <1>8
<1>10. \A i, j \in 1 .. n : i < j => f[i] < f[j]  BY <1>2, <1>7, <1>8
<1> QED  BY <1>5, <1>6, <1>8, <1>9, <1>10 DEF Lists

LEMMA SelectedAt ==
  ASSUME NEW S \in SUBSET Nat, IsFiniteSet(S), NEW f
  PROVE  /\ Cardinality(S) \in Nat
         /\ InOrder[S] \in Seq(S)
         /\ \A x \in S : \E k \in 1 .. Cardinality(S) : InOrder[S][k] = x
         /\ \A k \in 1 .. Cardinality(S) : InOrder[S][k] \in S
         /\ Selected(f, S) = [k \in 1 .. Cardinality(S) |-> f[InOrder[S][k]]]
<1>1. Lists(InOrder[S], S) /\ Len(InOrder[S]) = Cardinality(S)
  BY InOrderIs
<1>2. PICK n : n = Cardinality(S)  OBVIOUS
<1>3. PICK p : p = InOrder[S]  OBVIOUS
<1>4. n \in Nat  BY <1>2, FS_CardinalityType
<1>5. p \in Seq(S) /\ Len(p) = n /\ \A x \in S : \E k \in 1 .. n : p[k] = x
  BY <1>1, <1>2, <1>3 DEF Lists
<1>6. (\A k \in 1 .. n : p[k] \in S) /\ DOMAIN p = 1 .. n  BY <1>4, <1>5
<1>7. Selected(f, S) = [k \in 1 .. n |-> f[p[k]]]  BY <1>3, <1>6 DEF Selected
<1> QED  BY <1>2, <1>3, <1>4, <1>5, <1>6, <1>7

LEMMA SelectedTyped ==
  ASSUME NEW S \in SUBSET Nat, IsFiniteSet(S), NEW W, NEW f,
         \A x \in S : f[x] \in W
  PROVE  /\ Selected(f, S) \in Seq(W)
         /\ Len(Selected(f, S)) = Cardinality(S)
<1>1. PICK n : n = Cardinality(S)  OBVIOUS
<1>2. PICK g : g = Selected(f, S)  OBVIOUS
<1>3. /\ n \in Nat /\ \A k \in 1 .. n : InOrder[S][k] \in S
      /\ g = [k \in 1 .. n |-> f[InOrder[S][k]]]
  BY <1>1, <1>2, SelectedAt
<1>4. g \in [1 .. n -> W]  BY <1>3
<1>5. g \in Seq(W) /\ Len(g) = n  BY <1>3, <1>4
<1> QED  BY <1>1, <1>2, <1>5

LEMMA SelectedSame ==
  ASSUME NEW S \in SUBSET Nat, IsFiniteSet(S), NEW f, NEW g,
         \A x \in S : f[x] = g[x]
  PROVE  Selected(f, S) = Selected(g, S)
<1>1. Selected(f, S) = [k \in 1 .. Cardinality(S) |-> f[InOrder[S][k]]]
  BY SelectedAt
<1>2. Selected(g, S) = [k \in 1 .. Cardinality(S) |-> g[InOrder[S][k]]]
  BY SelectedAt
<1>3. \A k \in 1 .. Cardinality(S) : InOrder[S][k] \in S  BY SelectedAt
<1> QED  BY <1>1, <1>2, <1>3

\* g has what f has at the places s.
Picks(g, f, s) == g = [k \in 1 .. Len(s) |-> f[s[k]]]

LEMMA SelectedIs ==
  ASSUME NEW S \in SUBSET Nat, NEW s, Lists(s, S), NEW f
  PROVE  Picks(Selected(f, S), f, s)
<1>1. s \in Seq(S) /\ \A x \in S : \E i \in 1 .. Len(s) : s[i] = x
  BY DEF Lists
<1>2. PICK n : n = Len(s)  OBVIOUS
<1>3. n \in Nat /\ s \in [1 .. n -> S] /\ DOMAIN s = 1 .. n  BY <1>1, <1>2
<1>4. IsFiniteSet(S)
  <2>1. IsFiniteSet(1 .. n)
    <3>1. 1 \in Int /\ n \in Int  BY <1>3
    <3> QED  BY <3>1, FS_Interval
  <2>2. s \in Surjection(1 .. n, S)  BY <1>1, <1>2, <1>3 DEF Surjection
  <2> QED  BY <2>1, <2>2, FS_Surjection
<1>5. Lists(InOrder[S], S)  BY <1>4, InOrderIs
<1>6. InOrder[S] = s  BY <1>5, ListsAgree
<1> QED  BY <1>2, <1>3, <1>6 DEF Selected, Picks

LEMMA SelectedNone ==
  ASSUME NEW f  PROVE Selected(f, {}) = << >>
<1>1. {} \in SUBSET Nat /\ IsFiniteSet({}) /\ Cardinality({}) = 0
  BY FS_EmptySet
<1>2. Selected(f, {}) = [k \in 1 .. 0 |-> f[InOrder[{}][k]]]
  BY <1>1, SelectedAt
<1> QED  BY <1>2

LEMMA SelectedOne ==
  ASSUME NEW f, NEW x \in Nat
  PROVE  Selected(f, {x}) = <<f[x]>>
<1>1. PICK s : s = <<x>>  OBVIOUS
<1>2. Lists(s, {x})  BY <1>1, ListsOne
<1>3. {x} \in SUBSET Nat /\ Len(s) = 1 /\ s[1] = x  BY <1>1
<1>4. Picks(Selected(f, {x}), f, s)  BY <1>2, <1>3, SelectedIs
<1> QED  BY <1>3, <1>4 DEF Picks

LEMMA SelectedJoin ==
  ASSUME NEW S \in SUBSET Nat, IsFiniteSet(S), NEW T \in SUBSET Nat,
         IsFiniteSet(T), \A x \in S, y \in T : x < y, NEW f
  PROVE  Selected(f, S \cup T) = Selected(f, S) \o Selected(f, T)
<1>1. PICK s : s = InOrder[S]  OBVIOUS
<1>2. PICK t : t = InOrder[T]  OBVIOUS
<1>3. Lists(s, S) /\ Lists(t, T)  BY <1>1, <1>2, InOrderIs
<1>4. Lists(s \o t, S \cup T)  BY <1>3, ListsJoin
<1>5. s \in Seq(Nat) /\ t \in Seq(Nat)
  <2>1. s \in Seq(S) /\ t \in Seq(T)  BY <1>3 DEF Lists
  <2>2. S \subseteq Nat /\ T \subseteq Nat  OBVIOUS
  <2> QED  BY <2>1, <2>2, SeqWider
<1>6. PICK m : m = Len(s)  OBVIOUS
<1>7. PICK n : n = Len(t)  OBVIOUS
<1>8. /\ m \in Nat /\ n \in Nat /\ Len(s \o t) = m + n
      /\ \A k \in 1 .. m + n : (s \o t)[k] = IF k <= m THEN s[k] ELSE t[k - m]
  BY <1>5, <1>6, <1>7, ConcatProperties
<1>9. Selected(f, S \cup T) = [k \in 1 .. m + n |-> f[(s \o t)[k]]]
  <2>1. S \cup T \in SUBSET Nat  OBVIOUS
  <2>2. Picks(Selected(f, S \cup T), f, s \o t)  BY <1>4, <2>1, SelectedIs
  <2> QED  BY <1>8, <2>2 DEF Picks
<1>10. PICK a : a = Selected(f, S)  OBVIOUS
<1>11. PICK b : b = Selected(f, T)  OBVIOUS
<1>12. a = [k \in 1 .. m |-> f[s[k]]] /\ b = [k \in 1 .. n |-> f[t[k]]]
  <2>1. Picks(a, f, s) /\ Picks(b, f, t)
    BY <1>3, <1>10, <1>11, SelectedIs
  <2> QED  BY <1>6, <1>7, <2>1 DEF Picks
<1>13. PICK W : W = {f[x] : x \in Nat}  OBVIOUS
<1>14. a \in Seq(W) /\ b \in Seq(W) /\ Len(a) = m /\ Len(b) = n
  <2>1. (\A k \in 1 .. m : s[k] \in Nat) /\ (\A k \in 1 .. n : t[k] \in Nat)
    BY <1>5, <1>6, <1>7
  <2>2. a \in [1 .. m -> W] /\ b \in [1 .. n -> W]
    BY <1>12, <1>13, <2>1
  <2>3. Len(a) = m /\ Len(b) = n  BY <1>8, <1>12
  <2> QED  BY <1>8, <2>2, <2>3
<1>15. PICK c : c = a \o b  OBVIOUS
<1>16. /\ c \in Seq(W) /\ Len(c) = m + n
       /\ \A k \in 1 .. m + n : c[k] = IF k <= m THEN a[k] ELSE b[k - m]
  BY <1>14, <1>15, ConcatProperties
<1>17. c = [k \in 1 .. m + n |-> f[(s \o t)[k]]]
  <2>1. ASSUME NEW k \in 1 .. m + n  PROVE c[k] = f[(s \o t)[k]]
    <3>1. CASE k <= m
      <4>1. k \in 1 .. m  BY <1>8, <3>1
      <4> QED  BY <1>8, <1>12, <1>16, <3>1, <4>1
    <3>2. CASE ~(k <= m)
      <4>1. k - m \in 1 .. n  BY <1>8, <3>2
      <4> QED  BY <1>8, <1>12, <1>16, <3>2, <4>1
    <3> QED  BY <3>1, <3>2
  <2>2. DOMAIN c = 1 .. m + n /\ c = [k \in DOMAIN c |-> c[k]]  BY <1>16
  <2> QED  BY <2>1, <2>2
<1> QED  BY <1>9, <1>10, <1>11, <1>15, <1>17

\* A part of what has been selected is selected by what it was selected for.
LEMMA SelectedAgain ==
  ASSUME NEW S \in SUBSET Nat, IsFiniteSet(S), NEW f,
         NEW P \in SUBSET (1 .. Cardinality(S))
  PROVE  Selected(Selected(f, S), P) = Selected(f, {InOrder[S][i] : i \in P})
<1>1. PICK s : s = InOrder[S]  OBVIOUS
<1>2. PICK n : n = Cardinality(S)  OBVIOUS
<1>3. n \in Nat /\ Lists(s, S) /\ Len(s) = n
  BY <1>1, <1>2, InOrderIs, FS_CardinalityType
<1>4. IsFiniteSet(P) /\ P \in SUBSET Nat
  <2>1. IsFiniteSet(1 .. n)
    <3>1. 1 \in Int /\ n \in Int  BY <1>3
    <3> QED  BY <3>1, FS_Interval
  <2>2. P \subseteq 1 .. n /\ \A x \in 1 .. n : x \in Nat  BY <1>2, <1>3
  <2> QED  BY <2>1, <2>2, FS_Subset
<1>5. PICK p : p = InOrder[P]  OBVIOUS
<1>6. Lists(p, P) /\ p \in Seq(P)  BY <1>4, <1>5, InOrderIs DEF Lists
<1>7. Len(p) \in Nat /\ DOMAIN p = 1 .. Len(p) /\ \A k \in 1 .. Len(p) : p[k] \in P
  BY <1>6
<1>8. PICK t : t = [k \in 1 .. Len(p) |-> s[p[k]]]  OBVIOUS
<1>9. PICK T : T = {s[i] : i \in P}  OBVIOUS
<1>10. Lists(t, T)
  <2>1. S \subseteq Nat /\ P \subseteq 1 .. Len(s)  BY <1>2, <1>3
  <2> QED  BY <1>3, <1>6, <1>8, <1>9, <2>1, ListsPart
<1>11. Len(t) = Len(p)  BY <1>7, <1>8
<1>12. T \in SUBSET Nat
  <2>1. \A i \in 1 .. n : s[i] \in S  BY <1>3, ListsTyped
  <2> QED  BY <1>2, <1>9, <2>1
<1>13. Selected(f, T) = [k \in 1 .. Len(p) |-> f[t[k]]]
  <2>1. Picks(Selected(f, T), f, t)  BY <1>10, <1>12, SelectedIs
  <2> QED  BY <1>11, <2>1 DEF Picks
<1>14. PICK g : g = Selected(f, S)  OBVIOUS
<1>15. g = [k \in 1 .. n |-> f[s[k]]]  BY <1>1, <1>2, <1>14, SelectedAt
<1>16. Selected(g, P) = [k \in 1 .. Len(p) |-> g[p[k]]]
  BY <1>5, <1>7 DEF Selected
<1>17. \A k \in 1 .. Len(p) : g[p[k]] = f[t[k]]  BY <1>2, <1>7, <1>8, <1>15
<1> QED  BY <1>1, <1>9, <1>13, <1>14, <1>16, <1>17

\* s has what f has at the n places after a.
Runs(s, f, a, n) == s = [k \in 1 .. n |-> f[a + k]]

LEMMA SelectedInterval ==
  ASSUME NEW a \in Nat, NEW n \in Nat, NEW f
  PROVE  Runs(Selected(f, a + 1 .. a + n), f, a, n)
<1>1. PICK s : s = [k \in 1 .. n |-> a + k]  OBVIOUS
<1>2. PICK S : S = a + 1 .. a + n  OBVIOUS
<1>3. Lists(s, S)  BY <1>1, <1>2, ListsInterval
<1>4. Len(s) = n /\ S \in SUBSET Nat  BY <1>1, <1>2
<1>5. Picks(Selected(f, S), f, s)  BY <1>3, <1>4, SelectedIs
<1> QED  BY <1>1, <1>2, <1>4, <1>5 DEF Picks, Runs

----------------------------------------------------------------------------
(* Columns: what the scan shows of the table *)

\* k is the first column of that name, or 0.
Finds(k, cols, name) ==
  IF \E i \in DOMAIN cols : cols[i].name = name
  THEN /\ k \in DOMAIN cols /\ cols[k].name = name
       /\ \A i \in DOMAIN cols : cols[i].name = name => k <= i
  ELSE k = NotFound

LEMMA FindIs ==
  ASSUME NEW cols, NEW n \in Nat, DOMAIN cols = 1 .. n, Len(cols) = n, NEW name
  PROVE  Finds(find_column(cols, name), cols, name)
<1>1. PICK I : I = {i \in 1 .. n : cols[i].name = name}  OBVIOUS
<1>2. find_column(cols, name) = IF I # {} THEN Min(I) ELSE 0
  BY <1>1 DEF find_column, SelectInSeq
<1>3. CASE I = {}
  <2>1. ~ \E i \in DOMAIN cols : cols[i].name = name  BY <1>1, <1>3
  <2> QED  BY <1>2, <1>3, <2>1 DEF Finds, NotFound
<1>4. CASE I # {}
  <2>1. I \subseteq Nat  BY <1>1
  <2>2. \E x \in I : \A y \in I : x <= y  BY <1>4, <2>1, LeastNat
  <2>3. PICK k : k = Min(I)  OBVIOUS
  <2>4. k \in I /\ \A y \in I : k <= y  BY <2>2, <2>3 DEF Min
  <2>5. find_column(cols, name) = k  BY <1>2, <1>4, <2>3
  <2> QED  BY <1>1, <2>4, <2>5 DEF Finds
<1> QED  BY <1>3, <1>4

LEMMA SchemaIs ==
  /\ Len(Schema) \in Nat /\ DOMAIN Schema = 1 .. Len(Schema)
  /\ \A i \in DOMAIN Schema : Schema[i].name \in STRING /\ Schema[i].type \in Type
  /\ \A name : Finds(ColumnOf(name), Schema, name)
  /\ \A name : ColumnOf(name) # NotFound => ColumnOf(name) \in DOMAIN Schema
<1>1. Len(Schema) \in Nat /\ DOMAIN Schema = 1 .. Len(Schema)
  BY SchemaAssumption
<1>2. \A i \in DOMAIN Schema : Schema[i].name \in STRING /\ Schema[i].type \in Type
  <2>1. \A i \in DOMAIN Schema : Schema[i] \in [name : STRING, type : Type]
    BY SchemaAssumption, SeqTyped
  <2> QED  BY <2>1
<1>3. ASSUME NEW name  PROVE Finds(ColumnOf(name), Schema, name)
  BY <1>1, FindIs DEF ColumnOf
<1>4. \A name : ColumnOf(name) # NotFound => ColumnOf(name) \in DOMAIN Schema
  BY <1>3 DEF Finds
<1> QED  BY <1>1, <1>2, <1>3, <1>4

\* The columns of a scanned chunk, and what it has of each row of the table.
Columns ==
  [c \in DOMAIN project_cols_ |-> Schema[ColumnOf(project_cols_[c])]]
RowAt ==
  [r \in Rows |-> [c \in DOMAIN project_cols_ |->
                     table_[r][ColumnOf(project_cols_[c])]]]

\* What Plan has set; what Open has found.
Planned ==
  /\ stmt \in Stmts
  /\ project_cols_ = project_cols(stmt)
  /\ agg_specs_ = AggItems(stmt)
There == \A i \in DOMAIN project_cols_ : ColumnOf(project_cols_[i]) # NotFound

\* A column of that name is in a scanned chunk exactly if it is in the table,
\* and it is the same column.
Shown(name) ==
  /\ find_column(Columns, name) = NotFound <=> ColumnOf(name) = NotFound
  /\ find_column(Columns, name) # NotFound =>
       /\ find_column(Columns, name) \in DOMAIN project_cols_
       /\ ColumnOf(project_cols_[find_column(Columns, name)]) = ColumnOf(name)

\* The columns a statement names, each at least once.
LEMMA Collected ==
  ASSUME NEW s \in StmtType
  PROVE  LET pcs == collect_columns(s)
             has(name) == \E k \in 1 .. Len(pcs) : pcs[k] = name
             of(o) == o.kind = "col" => has(o.name)
         IN /\ pcs \in Seq(STRING)
            /\ \A i \in DOMAIN s.items : has(s.items[i].col)
            /\ \A i \in DOMAIN s.where : of(s.where[i].left) /\ of(s.where[i].right)
            /\ \A i \in DOMAIN s.group_by : has(s.group_by[i])
<1>1. PICK a : a = [i \in DOMAIN s.items |-> s.items[i].col]  OBVIOUS
<1>2. PICK w : w = [i \in DOMAIN s.where |->
                      OperandNames(s.where[i].left) \o OperandNames(s.where[i].right)]
  OBVIOUS
<1>3. PICK b : b = FlattenSeq(w)  OBVIOUS
<1>4. PICK c : c = s.group_by  OBVIOUS
<1>5. PICK named : named = a \o b \o c  OBVIOUS
<1>6. PICK F : F = {i \in DOMAIN named : \A j \in 1 .. i - 1 : named[j] # named[i]}
  OBVIOUS
<1>7. collect_columns(s) = Selected(named, F)
  BY <1>1, <1>2, <1>3, <1>4, <1>5, <1>6 DEF collect_columns
<1>8. a \in Seq(STRING) /\ Len(a) = Len(s.items)
  <2>1. s.items \in Seq([agg : {"none", "SUM", "COUNT", "MIN", "MAX", "AVG"},
                         col : STRING, alias : STRING])
    BY DEF StmtType
  <2>2. PICK n : n = Len(s.items)  OBVIOUS
  <2>3. n \in Nat /\ DOMAIN s.items = 1 .. n /\ \A i \in 1 .. n : s.items[i].col \in STRING
    <3>1. PICK W : W = [agg : {"none", "SUM", "COUNT", "MIN", "MAX", "AVG"},
                        col : STRING, alias : STRING]
      OBVIOUS
    <3>2. n \in Nat /\ DOMAIN s.items = 1 .. n /\ \A i \in 1 .. n : s.items[i] \in W
      BY <2>1, <2>2, <3>1, SeqTyped
    <3> QED  BY <3>1, <3>2
  <2>4. a \in [1 .. n -> STRING]  BY <1>1, <2>3
  <2> QED  BY <2>2, <2>3, <2>4
<1>9. s.where \in Seq([left : OperandType, op : {"=", "!=", "<", ">", "<=", ">="},
                       right : OperandType])
  BY DEF StmtType
<1>10. \A i \in DOMAIN s.where :
         s.where[i].left \in OperandType /\ s.where[i].right \in OperandType
  <2>1. \A i \in DOMAIN s.where :
          s.where[i] \in [left : OperandType, op : {"=", "!=", "<", ">", "<=", ">="},
                          right : OperandType]
    BY <1>9, SeqTyped
  <2> QED  BY <2>1
<1>11. ASSUME NEW o \in OperandType  PROVE OperandNames(o) \in Seq(STRING)
  <2>1. CASE o.kind = "col"
    <3>1. o.name \in STRING  BY <2>1 DEF OperandType
    <3>2. OperandNames(o) = <<o.name>>  BY <2>1 DEF OperandNames
    <3> QED  BY <3>1, <3>2
  <2>2. CASE o.kind # "col"
    <3>1. OperandNames(o) = << >>  BY <2>2 DEF OperandNames
    <3> QED  BY <3>1
  <2> QED  BY <2>1, <2>2
<1>12. w \in Seq(Seq(STRING)) /\ Len(w) = Len(s.where)
  <2>1. PICK n : n = Len(s.where)  OBVIOUS
  <2>2. n \in Nat /\ DOMAIN s.where = 1 .. n  BY <1>9, <2>1
  <2>3. \A i \in 1 .. n : w[i] \in Seq(STRING)
    <3> SUFFICES ASSUME NEW i \in 1 .. n  PROVE w[i] \in Seq(STRING)
      OBVIOUS
    <3>1. OperandNames(s.where[i].left) \in Seq(STRING)
          /\ OperandNames(s.where[i].right) \in Seq(STRING)
      BY <1>10, <1>11, <2>2
    <3>2. OperandNames(s.where[i].left) \o OperandNames(s.where[i].right) \in Seq(STRING)
      BY <3>1, ConcatProperties
    <3> QED  BY <1>2, <2>2, <3>2
  <2>4. w \in [1 .. n -> Seq(STRING)]  BY <1>2, <2>2, <2>3
  <2> QED  BY <2>1, <2>2, <2>4
<1>13. b \in Seq(STRING)  BY <1>3, <1>12, Flattened
<1>14. c \in Seq(STRING)  BY <1>4 DEF StmtType
<1> DEFINE in(t, name) == \E k \in 1 .. Len(t) : t[k] = name
<1>15. ASSUME NEW t \in Seq(STRING), NEW u \in Seq(STRING), NEW name,
              in(t, name) \/ in(u, name)
       PROVE  in(t \o u, name)
  <2>1. /\ Len(t) \in Nat /\ Len(u) \in Nat /\ Len(t \o u) = Len(t) + Len(u)
        /\ \A k \in 1 .. Len(t) + Len(u) :
             (t \o u)[k] = IF k <= Len(t) THEN t[k] ELSE u[k - Len(t)]
    BY ConcatProperties
  <2>2. CASE in(t, name)
    <3>1. PICK k \in 1 .. Len(t) : t[k] = name  BY <2>2
    <3>2. k \in 1 .. Len(t) + Len(u) /\ k <= Len(t)  BY <2>1
    <3> QED  BY <2>1, <3>1, <3>2
  <2>3. CASE in(u, name)
    <3>1. PICK k \in 1 .. Len(u) : u[k] = name  BY <2>3
    <3>2. PICK l : l = Len(t) + k  OBVIOUS
    <3>3. l \in 1 .. Len(t) + Len(u) /\ ~(l <= Len(t)) /\ l - Len(t) = k
      BY <2>1, <3>2
    <3> QED  BY <2>1, <3>1, <3>3
  <2> QED  BY <1>15, <2>2, <2>3
<1>16. named \in Seq(STRING)  BY <1>5, <1>8, <1>13, <1>14, ConcatProperties
<1>17. \A name : in(a, name) \/ in(b, name) \/ in(c, name) => in(named, name)
  <2> TAKE name
  <2> HAVE in(a, name) \/ in(b, name) \/ in(c, name)
  <2> HIDE DEF in
  <2>1. a \o b \in Seq(STRING) /\ b \o c \in Seq(STRING)
    BY <1>8, <1>13, <1>14, ConcatProperties
  <2>2. in(a \o b, name) \/ in(c, name)  BY <1>8, <1>13, <1>15
  <2>3. in((a \o b) \o c, name)  BY <1>14, <1>15, <2>1, <2>2
  <2> QED  BY <1>5, <2>3
<1>18. PICK n : n = Len(named)  OBVIOUS
<1>19. n \in Nat /\ DOMAIN named = 1 .. n /\ \A k \in 1 .. n : named[k] \in STRING
  BY <1>16, <1>18
<1>20. F \in SUBSET Nat /\ IsFiniteSet(F)
  <2>1. F \in SUBSET (1 .. n)  BY <1>6, <1>19
  <2>2. IsFiniteSet(1 .. n)
    <3>1. 1 \in Int /\ n \in Int  BY <1>19
    <3> QED  BY <3>1, FS_Interval
  <2>3. F \subseteq 1 .. n /\ \A x \in 1 .. n : x \in Nat  BY <1>19, <2>1
  <2> QED  BY <2>2, <2>3, FS_Subset
<1>21. PICK pcs : pcs = Selected(named, F)  OBVIOUS
<1>22. pcs \in Seq(STRING) /\ Len(pcs) = Cardinality(F)
  <2>1. \A x \in F : named[x] \in STRING  BY <1>6, <1>19
  <2> QED  BY <1>20, <1>21, <2>1, SelectedTyped
<1>23. ASSUME NEW name, in(named, name)  PROVE in(pcs, name)
  <2>1. PICK T : T = {k \in 1 .. n : named[k] = name}  OBVIOUS
  <2>2. T \subseteq Nat /\ T # {}  BY <1>18, <1>23, <2>1
  <2>3. PICK k \in T : \A j \in T : k <= j  BY <2>2, LeastNat
  <2>4. k \in 1 .. n /\ named[k] = name  BY <2>1
  <2>5. k \in F
    <3> SUFFICES ASSUME NEW j \in 1 .. k - 1, named[j] = named[k]  PROVE FALSE
      BY <1>6, <1>19, <2>4
    <3>1. j \in T /\ j < k  BY <1>19, <2>1, <2>4
    <3> QED  BY <2>2, <2>3, <3>1
  <2>6. PICK i \in 1 .. Cardinality(F) : InOrder[F][i] = k
    BY <1>20, <2>5, SelectedAt
  <2>7. pcs[i] = named[k]  BY <1>20, <1>21, <2>6, SelectedAt
  <2> QED  BY <1>22, <2>4, <2>6, <2>7
<1>24. \A i \in DOMAIN s.items : in(pcs, s.items[i].col)
  <2> SUFFICES ASSUME NEW i \in DOMAIN s.items  PROVE in(pcs, s.items[i].col)
    OBVIOUS
  <2>1. i \in 1 .. Len(a) /\ a[i] = s.items[i].col  BY <1>1, <1>8
  <2>2. in(a, s.items[i].col)  BY <2>1
  <2> HIDE DEF in
  <2> QED  BY <1>17, <1>23, <2>2
<1>25. \A i \in DOMAIN s.group_by : in(pcs, s.group_by[i])
  <2> SUFFICES ASSUME NEW i \in DOMAIN s.group_by  PROVE in(pcs, s.group_by[i])
    OBVIOUS
  <2>1. i \in 1 .. Len(c) /\ c[i] = s.group_by[i]  BY <1>4, <1>14
  <2>2. in(c, s.group_by[i])  BY <2>1
  <2> HIDE DEF in
  <2> QED  BY <1>17, <1>23, <2>2
<1>26. ASSUME NEW i \in DOMAIN s.where, NEW o \in OperandType, o.kind = "col",
              o = s.where[i].left \/ o = s.where[i].right
       PROVE  in(pcs, o.name)
  <2>1. PICK l : l = OperandNames(s.where[i].left)  OBVIOUS
  <2>2. PICK r : r = OperandNames(s.where[i].right)  OBVIOUS
  <2>3. l \in Seq(STRING) /\ r \in Seq(STRING)  BY <1>10, <1>11, <2>1, <2>2
  <2>4. OperandNames(o) = <<o.name>>  BY <1>26 DEF OperandNames
  <2>5. in(l, o.name) \/ in(r, o.name)
    <3>1. in(<<o.name>>, o.name)  OBVIOUS
    <3> HIDE DEF in
    <3> QED  BY <1>26, <2>1, <2>2, <2>4, <3>1
  <2>6. in(l \o r, o.name)
    <3> HIDE DEF in
    <3> QED  BY <1>15, <2>3, <2>5
  <2>7. i \in 1 .. Len(w) /\ w[i] = l \o r
    <3>1. DOMAIN s.where = 1 .. Len(s.where)  BY <1>9
    <3>2. i \in 1 .. Len(w)  BY <1>12, <3>1
    <3>3. w[i] = l \o r  BY <1>2, <2>1, <2>2
    <3> QED  BY <3>2, <3>3
  <2>8. PICK k \in 1 .. Len(w[i]) : w[i][k] = o.name  BY <2>6, <2>7
  <2>9. in(b, o.name)
    <3>1. \E j \in 1 .. Len(FlattenSeq(w)) : FlattenSeq(w)[j] = w[i][k]
      BY <1>12, <2>7, FlattenHas
    <3> QED  BY <1>3, <2>8, <3>1
  <2> HIDE DEF in
  <2> QED  BY <1>17, <1>23, <2>9
<1> QED
  <2>1. \A i \in DOMAIN s.where :
          /\ s.where[i].left.kind = "col" => in(pcs, s.where[i].left.name)
          /\ s.where[i].right.kind = "col" => in(pcs, s.where[i].right.name)
    <3> HIDE DEF in
    <3> QED  BY <1>10, <1>26
  <2> QED  BY <1>7, <1>21, <1>22, <1>24, <1>25, <2>1

LEMMA AggItemsAre ==
  ASSUME NEW s \in StmtType
  PROVE  /\ AggItems(s) \in Seq([agg : {"SUM", "COUNT", "MIN", "MAX", "AVG"},
                                 col : STRING, alias : STRING])
         /\ \A i \in DOMAIN AggItems(s) :
              \E j \in DOMAIN s.items : AggItems(s)[i] = s.items[j]
<1>1. PICK t : t = s.items  OBVIOUS
<1>2. PICK P : P = {i \in DOMAIN t : t[i].agg # "none"}  OBVIOUS
<1>3. PICK W : W = [agg : {"none", "SUM", "COUNT", "MIN", "MAX", "AVG"},
                    col : STRING, alias : STRING]
  OBVIOUS
<1>4. PICK X : X = [agg : {"SUM", "COUNT", "MIN", "MAX", "AVG"},
                    col : STRING, alias : STRING]
  OBVIOUS
<1>5. t \in Seq(W)  BY <1>1, <1>3 DEF StmtType
<1>6. Len(t) \in Nat /\ DOMAIN t = 1 .. Len(t) /\ \A i \in DOMAIN t : t[i] \in W
  BY <1>5, SeqTyped
<1>7. P \in SUBSET Nat /\ IsFiniteSet(P)
  <2>1. IsFiniteSet(1 .. Len(t))
    <3>1. 1 \in Int /\ Len(t) \in Int  BY <1>6
    <3> QED  BY <3>1, FS_Interval
  <2>2. P \subseteq 1 .. Len(t) /\ \A x \in 1 .. Len(t) : x \in Nat  BY <1>2, <1>6
  <2> QED  BY <2>1, <2>2, FS_Subset
<1>8. \A x \in P : t[x] \in X  BY <1>2, <1>3, <1>4, <1>6
<1>9. AggItems(s) = Selected(t, P)  BY <1>1, <1>2 DEF AggItems
<1>10. AggItems(s) \in Seq(X) /\ Len(AggItems(s)) = Cardinality(P)
  BY <1>7, <1>8, <1>9, SelectedTyped
<1>11. ASSUME NEW i \in DOMAIN AggItems(s)
       PROVE  \E j \in DOMAIN s.items : AggItems(s)[i] = s.items[j]
  <2>1. i \in 1 .. Cardinality(P)  BY <1>10
  <2>2. InOrder[P][i] \in P /\ AggItems(s)[i] = t[InOrder[P][i]]
    BY <1>7, <1>9, <2>1, SelectedAt
  <2> QED  BY <1>1, <1>2, <2>2
<1> QED  BY <1>4, <1>10, <1>11

LEMMA ProjectTyped ==
  ASSUME Planned
  PROVE  /\ project_cols_ \in Seq(STRING)
         /\ stmt.star => project_cols_ = Names(Schema)
         /\ ~stmt.star => project_cols_ = collect_columns(stmt)
<1>1. stmt \in StmtType  BY StmtsAssumption DEF Planned
<1>2. CASE stmt.star
  <2>1. project_cols_ = Names(Schema)  BY <1>2 DEF Planned, project_cols
  <2>2. Names(Schema) \in [1 .. Len(Schema) -> STRING]  BY SchemaIs DEF Names
  <2>3. Names(Schema) \in Seq(STRING)  BY <2>2, SchemaIs
  <2> QED  BY <1>2, <2>1, <2>3
<1>3. CASE ~stmt.star
  <2>1. project_cols_ = collect_columns(stmt)  BY <1>3 DEF Planned, project_cols
  <2>2. collect_columns(stmt) \in Seq(STRING)  BY <1>1, Collected
  <2> QED  BY <1>3, <2>1, <2>2
<1> QED  BY <1>2, <1>3

LEMMA ColumnsAre ==
  ASSUME Planned, There
  PROVE  /\ Len(Columns) = Len(project_cols_) /\ Len(Columns) \in Nat
         /\ DOMAIN Columns = DOMAIN project_cols_
         /\ DOMAIN Columns = 1 .. Len(Columns)
         /\ \A c \in DOMAIN project_cols_ :
              /\ ColumnOf(project_cols_[c]) \in DOMAIN Schema
              /\ Columns[c] = Schema[ColumnOf(project_cols_[c])]
              /\ Columns[c].name = project_cols_[c]
         /\ \A name : Finds(find_column(Columns, name), Columns, name)
<1>1. PICK n : n = Len(project_cols_)  OBVIOUS
<1>2. n \in Nat /\ DOMAIN project_cols_ = 1 .. n  BY <1>1, ProjectTyped
<1>3. DOMAIN Columns = 1 .. n /\ Len(Columns) = n  BY <1>2 DEF Columns
<1>4. \A name : Finds(find_column(Columns, name), Columns, name)
  BY <1>2, <1>3, FindIs
<1>5. ASSUME NEW c \in DOMAIN project_cols_
      PROVE  /\ ColumnOf(project_cols_[c]) \in DOMAIN Schema
             /\ Columns[c] = Schema[ColumnOf(project_cols_[c])]
             /\ Columns[c].name = project_cols_[c]
  <2>1. PICK k : k = ColumnOf(project_cols_[c])  OBVIOUS
  <2>2. k # NotFound /\ k \in DOMAIN Schema  BY <2>1, SchemaIs DEF There
  <2>3. Finds(k, Schema, project_cols_[c])  BY <2>1, SchemaIs
  <2>4. 0 \notin DOMAIN Schema  BY SchemaIs
  <2>5. Schema[k].name = project_cols_[c]  BY <2>2, <2>3 DEF Finds
  <2>6. Columns[c] = Schema[k]  BY <2>1 DEF Columns
  <2> QED  BY <2>1, <2>2, <2>5, <2>6
<1> QED  BY <1>1, <1>2, <1>3, <1>4, <1>5

LEMMA ColumnsShow ==
  ASSUME Planned, There, NEW name,
         stmt.star \/ \E i \in DOMAIN project_cols_ : project_cols_[i] = name
  PROVE  Shown(name)
<1>1. PICK k : k = find_column(Columns, name)  OBVIOUS
<1>2. Finds(k, Columns, name) /\ Finds(ColumnOf(name), Schema, name)
  BY <1>1, ColumnsAre, SchemaIs
<1>3. 0 \notin DOMAIN Columns /\ 0 \notin DOMAIN Schema  BY ColumnsAre, SchemaIs
<1>4. k # NotFound => k \in DOMAIN project_cols_ /\ project_cols_[k] = name
  BY <1>2, ColumnsAre DEF Finds
<1>5. CASE \E i \in DOMAIN project_cols_ : project_cols_[i] = name
  <2>1. PICK i \in DOMAIN project_cols_ : project_cols_[i] = name  BY <1>5
  <2>2. ColumnOf(name) # NotFound  BY <2>1 DEF There
  <2>3. i \in DOMAIN Columns /\ Columns[i].name = name  BY <2>1, ColumnsAre
  <2>4. k # NotFound  BY <1>2, <1>3, <2>3 DEF Finds, NotFound
  <2> QED  BY <1>1, <1>4, <2>2, <2>4 DEF Shown
<1>6. CASE stmt.star /\ ~ \E i \in DOMAIN project_cols_ : project_cols_[i] = name
  <2>1. k = NotFound  BY <1>4, <1>6
  <2>2. \A i \in DOMAIN Schema : Schema[i].name # name
    <3> SUFFICES ASSUME NEW i \in DOMAIN Schema, Schema[i].name = name  PROVE FALSE
      OBVIOUS
    <3>1. project_cols_[i] = name /\ i \in DOMAIN project_cols_
      BY <1>6, ProjectTyped DEF Names
    <3> QED  BY <1>6, <3>1
  <2>3. ColumnOf(name) = NotFound  BY <1>2, <2>2 DEF Finds
  <2> QED  BY <1>1, <2>1, <2>3 DEF Shown
<1> QED  BY <1>5, <1>6

\* An operand is found in a scanned chunk as in the table.
Known(o) == o.kind = "col" => Shown(o.name)

LEMMA NamesShown ==
  ASSUME Planned, There
  PROVE  /\ \A i \in DOMAIN stmt.where :
              Known(stmt.where[i].left) /\ Known(stmt.where[i].right)
         /\ Grouped => Shown(stmt.group_by[1])
         /\ \A i \in DOMAIN agg_specs_ : Shown(agg_specs_[i].col)
<1>1. stmt \in StmtType /\ (stmt.star <=> stmt.items = << >>)
  BY StmtsAssumption DEF Planned
<1>2. \A i \in DOMAIN agg_specs_ :
        \E j \in DOMAIN stmt.items : agg_specs_[i] = stmt.items[j]
  BY <1>1, AggItemsAre DEF Planned
<1>3. Grouped => 1 \in DOMAIN stmt.group_by
  <2>1. stmt.group_by \in Seq(STRING)  BY <1>1 DEF StmtType
  <2> QED  BY <2>1 DEF Grouped
<1>4. CASE stmt.star
  <2>1. \A name : Shown(name)  BY <1>4, ColumnsShow
  <2> QED  BY <2>1 DEF Known
<1>5. CASE ~stmt.star
  <2> DEFINE has(name) == \E k \in 1 .. Len(project_cols_) : project_cols_[k] = name
  <2>1. project_cols_ = collect_columns(stmt) /\ project_cols_ \in Seq(STRING)
    BY <1>5, ProjectTyped
  <2>2. \A name : has(name) => Shown(name)
    <3>1. DOMAIN project_cols_ = 1 .. Len(project_cols_)  BY <2>1
    <3> QED  BY <3>1, ColumnsShow
  <2>3. /\ \A i \in DOMAIN stmt.items : has(stmt.items[i].col)
        /\ \A i \in DOMAIN stmt.where :
             /\ stmt.where[i].left.kind = "col" => has(stmt.where[i].left.name)
             /\ stmt.where[i].right.kind = "col" => has(stmt.where[i].right.name)
        /\ \A i \in DOMAIN stmt.group_by : has(stmt.group_by[i])
    BY <1>1, <2>1, Collected
  <2> HIDE DEF has
  <2> QED  BY <1>2, <1>3, <2>2, <2>3 DEF Known
<1> QED  BY <1>4, <1>5

LEMMA OperandSame ==
  ASSUME Planned, There, NEW r \in Rows, NEW o, Known(o)
  PROVE  /\ Resolves(Columns, o) <=> Resolves(Schema, o)
         /\ Resolves(Schema, o) =>
              eval_operand(Columns, RowAt[r], o) = eval_operand(Schema, table_[r], o)
<1>1. CASE o.kind # "col"  BY <1>1 DEF Resolves, eval_operand
<1>2. CASE o.kind = "col"
  <2>1. Shown(o.name)  BY <1>2 DEF Known
  <2>2. PICK k : k = find_column(Columns, o.name)  OBVIOUS
  <2>3. Resolves(Columns, o) <=> Resolves(Schema, o)
    BY <1>2, <2>1 DEF Resolves, Shown, ColumnOf
  <2>4. ASSUME Resolves(Schema, o)
        PROVE  eval_operand(Columns, RowAt[r], o) = eval_operand(Schema, table_[r], o)
    <3>1. k # NotFound  BY <1>2, <2>2, <2>3, <2>4 DEF Resolves
    <3>2. k \in DOMAIN project_cols_ /\ ColumnOf(project_cols_[k]) = ColumnOf(o.name)
      BY <2>1, <2>2, <3>1 DEF Shown
    <3>3. RowAt[r][k] = table_[r][ColumnOf(o.name)]  BY <3>2 DEF RowAt
    <3> QED  BY <1>2, <2>2, <3>3 DEF eval_operand, ColumnOf
  <2> QED  BY <2>3, <2>4
<1> QED  BY <1>1, <1>2

LEMMA CondSame ==
  ASSUME Planned, There, NEW r \in Rows, NEW cond,
         Known(cond.left), Known(cond.right)
  PROVE  /\ CondResolves(Columns, cond) <=> CondResolves(Schema, cond)
         /\ CondResolves(Schema, cond) =>
              (eval_condition(Columns, RowAt[r], cond)
                 <=> eval_condition(Schema, table_[r], cond))
<1>1. CondResolves(Columns, cond) <=> CondResolves(Schema, cond)
  BY OperandSame DEF CondResolves
<1>2. ASSUME CondResolves(Schema, cond)
      PROVE  eval_condition(Columns, RowAt[r], cond)
               <=> eval_condition(Schema, table_[r], cond)
  <2>1. /\ eval_operand(Columns, RowAt[r], cond.left)
             = eval_operand(Schema, table_[r], cond.left)
        /\ eval_operand(Columns, RowAt[r], cond.right)
             = eval_operand(Schema, table_[r], cond.right)
    BY <1>2, OperandSame DEF CondResolves
  <2> QED  BY <2>1 DEF eval_condition
<1> QED  BY <1>1, <1>2

KnownAll(conds) ==
  \A i \in DOMAIN conds : Known(conds[i].left) /\ Known(conds[i].right)

LEMMA HoldSame ==
  ASSUME Planned, There, NEW r \in Rows, NEW conds, KnownAll(conds)
  PROVE  CondsHold(Columns, RowAt[r], conds) <=> CondsHold(Schema, table_[r], conds)
<1>1. \A i \in DOMAIN conds :
        /\ CondResolves(Columns, conds[i]) <=> CondResolves(Schema, conds[i])
        /\ CondResolves(Schema, conds[i]) =>
             (eval_condition(Columns, RowAt[r], conds[i])
                <=> eval_condition(Schema, table_[r], conds[i]))
  BY CondSame DEF KnownAll
<1> QED  BY <1>1 DEF CondsHold

\* WHERE says the same of a row as it is scanned and in the table.
LEMMA WhereSame ==
  ASSUME Planned, There, NEW r \in Rows
  PROVE  /\ CondsHold(Columns, RowAt[r], stmt.where)
              <=> CondsHold(Schema, table_[r], stmt.where)
         /\ CondsThrow(Columns, RowAt[r], stmt.where)
              <=> CondsThrow(Schema, table_[r], stmt.where)
<1>1. PICK conds : conds = stmt.where  OBVIOUS
<1>2. KnownAll(conds)  BY <1>1, NamesShown DEF KnownAll
<1>3. PICK W : conds \in Seq(W)
  <2>1. stmt \in StmtType  BY StmtsAssumption DEF Planned
  <2> QED  BY <1>1, <2>1 DEF StmtType
<1>4. Len(conds) \in Nat /\ DOMAIN conds = 1 .. Len(conds)  BY <1>3
<1>5. ASSUME NEW i \in DOMAIN conds
      PROVE  CondsHold(Columns, RowAt[r], SubSeq(conds, 1, i - 1))
               <=> CondsHold(Schema, table_[r], SubSeq(conds, 1, i - 1))
  <2>1. PICK t : t = SubSeq(conds, 1, i - 1)  OBVIOUS
  <2>2. DOMAIN t = 1 .. i - 1 /\ \A j \in 1 .. i - 1 : t[j] = conds[j]
    <3>1. i \in Nat /\ i - 1 \in Nat /\ 1 \in 1 .. Len(conds) + 1 /\ i - 1 \in 0 .. Len(conds)
      BY <1>4
    <3>2. /\ Len(t) = i - 1 /\ t \in Seq(W)
          /\ \A j \in 1 .. i - 1 : t[j] = conds[1 + j - 1]
      BY <1>3, <2>1, <3>1, SubSeqProperties
    <3>3. \A j \in 1 .. i - 1 : 1 + j - 1 = j  BY <3>1
    <3> QED  BY <3>2, <3>3
  <2>3. KnownAll(t)
    <3>1. \A j \in 1 .. i - 1 : j \in DOMAIN conds  BY <1>4
    <3> QED  BY <1>2, <2>2, <3>1 DEF KnownAll
  <2> QED  BY <2>1, <2>3, HoldSame
<1>6. \A i \in DOMAIN conds :
        CondResolves(Columns, conds[i]) <=> CondResolves(Schema, conds[i])
  BY <1>2, CondSame DEF KnownAll
<1>7. CondsThrow(Columns, RowAt[r], conds) <=> CondsThrow(Schema, table_[r], conds)
  BY <1>5, <1>6 DEF CondsThrow
<1>8. CondsHold(Columns, RowAt[r], conds) <=> CondsHold(Schema, table_[r], conds)
  BY <1>2, HoldSame
<1> QED  BY <1>1, <1>7, <1>8

\* So do the checks of the aggregation of its columns, and its cells.
LEMMA AggregableSame ==
  ASSUME Planned, There, Grouped
  PROVE  /\ Aggregable(Columns, agg_specs_) <=> Aggregable(Schema, agg_specs_)
         /\ Aggregable(Schema, agg_specs_) => \A r \in Rows :
              /\ GroupKey(Columns, RowAt[r]) = KeyOf(r)
              /\ \A i \in DOMAIN agg_specs_ :
                   RowAt[r][find_column(Columns, agg_specs_[i].col)]
                     = table_[r][ColumnOf(agg_specs_[i].col)]
<1> DEFINE typed(cols, name, types) ==
             /\ find_column(cols, name) # NotFound
             /\ cols[find_column(cols, name)].type \in types
<1>1. \A name, types : Shown(name) =>
        (typed(Columns, name, types) <=> typed(Schema, name, types))
  <2> TAKE name, types
  <2> HAVE Shown(name)
  <2>1. PICK k : k = find_column(Columns, name)  OBVIOUS
  <2>2. k # NotFound => k \in DOMAIN project_cols_
                        /\ ColumnOf(project_cols_[k]) = ColumnOf(name)
    BY <2>1 DEF Shown
  <2>3. k # NotFound => Columns[k] = Schema[ColumnOf(name)]
    BY <2>2, ColumnsAre
  <2>4. k = NotFound <=> ColumnOf(name) = NotFound  BY <2>1 DEF Shown
  <2> QED  BY <2>1, <2>3, <2>4 DEF ColumnOf
<1>2. \A r \in Rows : \A name : Shown(name) /\ ColumnOf(name) # NotFound =>
        RowAt[r][find_column(Columns, name)] = table_[r][ColumnOf(name)]
  <2> TAKE r \in Rows
  <2> TAKE name
  <2> HAVE Shown(name) /\ ColumnOf(name) # NotFound
  <2>1. PICK k : k = find_column(Columns, name)  OBVIOUS
  <2>2. k \in DOMAIN project_cols_ /\ ColumnOf(project_cols_[k]) = ColumnOf(name)
    BY <2>1 DEF Shown
  <2> QED  BY <2>1, <2>2 DEF RowAt
<1>3. Shown(stmt.group_by[1]) /\ \A i \in DOMAIN agg_specs_ : Shown(agg_specs_[i].col)
  BY NamesShown
<1>4. \A cols : Aggregable(cols, agg_specs_) <=>
        /\ typed(cols, stmt.group_by[1], {"STRING"})
        /\ \A i \in DOMAIN agg_specs_ : typed(cols, agg_specs_[i].col, {"INT64", "FLOAT64"})
  BY DEF Aggregable
<1>5. \A name, types : typed(Schema, name, types) => ColumnOf(name) # NotFound
  BY DEF ColumnOf
<1>6. \A r \in Rows : GroupKey(Columns, RowAt[r])
                        = RowAt[r][find_column(Columns, stmt.group_by[1])]
  BY DEF GroupKey
<1> HIDE DEF typed
<1>7. Aggregable(Columns, agg_specs_) <=> Aggregable(Schema, agg_specs_)
  BY <1>1, <1>3, <1>4
<1>8. ASSUME Aggregable(Schema, agg_specs_), NEW r \in Rows
      PROVE  /\ GroupKey(Columns, RowAt[r]) = KeyOf(r)
             /\ \A i \in DOMAIN agg_specs_ :
                  RowAt[r][find_column(Columns, agg_specs_[i].col)]
                    = table_[r][ColumnOf(agg_specs_[i].col)]
  <2>1. ColumnOf(stmt.group_by[1]) # NotFound
        /\ \A i \in DOMAIN agg_specs_ : ColumnOf(agg_specs_[i].col) # NotFound
    BY <1>4, <1>5, <1>8
  <2> QED  BY <1>2, <1>3, <1>6, <2>1 DEF KeyOf
<1> QED  BY <1>7, <1>8

----------------------------------------------------------------------------
(* Rows of the table, those consumed so far, and the groups they make *)

RowsOf(S) == Selected(RowAt, S)
KeyAt == [r \in Rows |-> KeyOf(r)]

\* the passing rows among the first n
Upto(n) == {r \in Passing : r <= n}
Below(S, T) == \A x \in S, y \in T : x < y

LEMMA RowsAre ==
  ASSUME table_ \in Tables
  PROVE  /\ Len(table_) \in Nat /\ Rows = 1 .. Len(table_)
         /\ Rows \in SUBSET Nat /\ IsFiniteSet(Rows)
         /\ Passing \in SUBSET Rows
         /\ \A S \in SUBSET Rows :
              S \in SUBSET Nat /\ IsFiniteSet(S) /\ Cardinality(S) \in Nat
<1>1. PICK W : table_ \in Seq(W)  BY TablesAssumption
<1>2. Len(table_) \in Nat /\ Rows = 1 .. Len(table_)  BY <1>1 DEF Rows
<1>3. Rows \in SUBSET Nat  BY <1>2
<1>4. IsFiniteSet(Rows)
  <2>1. 1 \in Int /\ Len(table_) \in Int  BY <1>2
  <2> QED  BY <1>2, <2>1, FS_Interval
<1>5. Passing \in SUBSET Rows  BY DEF Passing
<1>6. \A S \in SUBSET Rows :
        S \in SUBSET Nat /\ IsFiniteSet(S) /\ Cardinality(S) \in Nat
  BY <1>3, <1>4, FS_Subset, FS_CardinalityType
<1> QED  BY <1>2, <1>3, <1>4, <1>5, <1>6

\* A cell has the type of its column, and its number is within the bounds.
LEMMA CellIs ==
  ASSUME table_ \in Tables, NEW r \in Rows, NEW c \in DOMAIN Schema
  PROVE  /\ table_[r][c].type = Schema[c].type
         /\ table_[r][c].d = 1
         /\ table_[r][c].n \in Int
         /\ -DblMax <= table_[r][c].n /\ table_[r][c].n <= DblMax
<1>1. table_[r][c] \in CellOf(Schema[c].type)
  BY TablesAssumption DEF Rows
<1>2. PICK n \in -DblMax .. DblMax : table_[r][c] = V(Schema[c].type, n)
  BY <1>1 DEF CellOf
<1>3. DblMax \in Int /\ -DblMax \in Int  BY DblMaxAssumption
<1> QED  BY <1>2, <1>3 DEF V

\* What an AggState has of the rows S.
NumberOf(col, r) == table_[r][ColumnOf(col)].n
IsState(st, col, S) ==
  /\ st.sum = SumFunction([r \in S |-> NumberOf(col, r)]) /\ st.sum \in Int
  /\ st.count = Cardinality(S)
  /\ st.min_val \in Int /\ st.max_val \in Int
  /\ IF S = {} THEN st.min_val = DblMax /\ st.max_val = -DblMax
     ELSE /\ \E r \in S : st.min_val = NumberOf(col, r)
          /\ \E r \in S : st.max_val = NumberOf(col, r)
          /\ \A r \in S : st.min_val <= NumberOf(col, r)
          /\ \A r \in S : NumberOf(col, r) <= st.max_val

LEMMA NumberIs ==
  ASSUME table_ \in Tables, NEW r \in Rows, NEW col, ColumnOf(col) # NotFound
  PROVE  /\ NumberOf(col, r) \in Int
         /\ -DblMax <= NumberOf(col, r) /\ NumberOf(col, r) <= DblMax
  BY SchemaIs, CellIs DEF NumberOf

LEMMA NoStateIs ==
  ASSUME NEW col  PROVE IsState(NoState, col, {})
<1>1. PICK f : f = [r \in {} |-> NumberOf(col, r)]  OBVIOUS
<1>2. SumFunction(f) = 0
  <2>1. IsFiniteSet({}) /\ f \in [{} -> Int]  BY <1>1, FS_EmptySet
  <2> QED  BY <2>1, SumOf
<1>3. Cardinality({}) = 0  BY FS_EmptySet
<1>4. DblMax \in Int /\ -DblMax \in Int  BY DblMaxAssumption
<1> QED  BY <1>1, <1>2, <1>3, <1>4 DEF IsState, NoState

LEMMA StateGrows ==
  ASSUME table_ \in Tables, NEW col, ColumnOf(col) # NotFound,
         NEW S \in SUBSET Rows, NEW r \in Rows \ S, NEW st, IsState(st, col, S)
  PROVE  IsState(update(st, NumberOf(col, r)), col, S \cup {r})
<1>1. PICK v : v = NumberOf(col, r)  OBVIOUS
<1>2. v \in Int /\ -DblMax <= v /\ v <= DblMax  BY <1>1, NumberIs
<1>3. \A q \in Rows : NumberOf(col, q) \in Int  BY NumberIs
<1>4. PICK T : T = S \cup {r}  OBVIOUS
<1>5. /\ T \in SUBSET Rows /\ T # {} /\ r \in T /\ T \ {r} = S
      /\ IsFiniteSet(S) /\ IsFiniteSet(T)
  BY <1>4, RowsAre
<1>6. PICK new : new = update(st, v)  OBVIOUS
<1>7. new.sum = SumFunction([q \in T |-> NumberOf(col, q)]) /\ new.sum \in Int
  <2>1. PICK f : f = [q \in T |-> NumberOf(col, q)]  OBVIOUS
  <2>2. PICK e : e = [q \in S |-> NumberOf(col, q)]  OBVIOUS
  <2>3. f \in [T -> Int] /\ e \in [S -> Int] /\ Part(e, f, S) /\ f[r] = v
    BY <1>1, <1>3, <1>5, <2>1, <2>2 DEF Part
  <2>4. SumFunction(f) = f[r] + SumFunction(e)  BY <1>5, <2>3, SumTakes
  <2>5. st.sum = SumFunction(e) /\ st.sum \in Int  BY <2>2 DEF IsState
  <2>6. new.sum = st.sum + v  BY <1>6 DEF update
  <2> QED  BY <1>2, <2>1, <2>3, <2>4, <2>5, <2>6
<1>8. new.count = Cardinality(T)
  <2>1. Cardinality(T) = Cardinality(S) + 1
    <3>1. r \notin S  OBVIOUS
    <3> QED  BY <1>4, <1>5, <3>1, FS_AddElement
  <2>2. new.count = st.count + 1 /\ st.count = Cardinality(S)
    BY <1>6 DEF update, IsState
  <2> QED  BY <2>1, <2>2
<1>9. /\ new.min_val = IF v < st.min_val THEN v ELSE st.min_val
      /\ new.max_val = IF v > st.max_val THEN v ELSE st.max_val
      /\ st.min_val \in Int /\ st.max_val \in Int
  BY <1>6 DEF update, IsState
<1>10. CASE S = {}
  <2>1. st.min_val = DblMax /\ st.max_val = -DblMax  BY <1>10 DEF IsState
  <2>2. new.min_val = v /\ new.max_val = v
    BY <1>2, <1>9, <2>1, DblMaxAssumption
  <2>3. \A q \in T : NumberOf(col, q) = v  BY <1>1, <1>4, <1>10
  <2> QED  BY <1>1, <1>2, <1>4, <1>5, <1>6, <1>7, <1>8, <2>2, <2>3 DEF IsState
<1>11. CASE S # {}
  <2>1. /\ \E q \in S : st.min_val = NumberOf(col, q)
        /\ \E q \in S : st.max_val = NumberOf(col, q)
        /\ \A q \in S : st.min_val <= NumberOf(col, q)
        /\ \A q \in S : NumberOf(col, q) <= st.max_val
    BY <1>11 DEF IsState
  <2>2. new.min_val \in Int /\ new.max_val \in Int  BY <1>2, <1>9
  <2>3. /\ \E q \in T : new.min_val = NumberOf(col, q)
        /\ \E q \in T : new.max_val = NumberOf(col, q)
    BY <1>1, <1>4, <1>9, <2>1
  <2>4. ASSUME NEW q \in T
        PROVE  new.min_val <= NumberOf(col, q) /\ NumberOf(col, q) <= new.max_val
    <3>1. CASE q = r  BY <1>1, <1>2, <1>9, <3>1
    <3>2. CASE q \in S
      <4>1. /\ NumberOf(col, q) \in Int
            /\ st.min_val <= NumberOf(col, q) /\ NumberOf(col, q) <= st.max_val
        BY <1>3, <2>1, <3>2
      <4> QED  BY <1>2, <1>9, <4>1
    <3> QED  BY <1>4, <3>1, <3>2
  <2> QED  BY <1>1, <1>4, <1>5, <1>6, <1>7, <1>8, <2>2, <2>3, <2>4 DEF IsState
<1> QED  BY <1>10, <1>11

\* finalize makes of it the aggregate over those rows.
LEMMA StateEnds ==
  ASSUME table_ \in Tables, NEW item, ColumnOf(item.col) # NotFound,
         item.agg \in {"SUM", "COUNT", "MIN", "MAX", "AVG"},
         NEW S \in SUBSET Rows, S # {}, NEW st, IsState(st, item.col, S)
  PROVE  finalize(st, item.agg) = AggregateOf(item, S)
<1>1. PICK number : number = [r \in S |-> NumberOf(item.col, r)]  OBVIOUS
<1>2. PICK numbers : numbers = {number[r] : r \in S}  OBVIOUS
<1>3. number = [r \in S |-> table_[r][ColumnOf(item.col)].n]
  BY <1>1 DEF NumberOf
<1>4. AggregateOf(item, S) =
        CASE item.agg = "SUM"   -> V("FLOAT64", SumFunction(number))
          [] item.agg = "COUNT" -> V("INT64", Cardinality(S))
          [] item.agg = "MIN"   -> V("FLOAT64", Min(numbers))
          [] item.agg = "MAX"   -> V("FLOAT64", Max(numbers))
          [] item.agg = "AVG"   -> [type |-> "FLOAT64",
                                    n |-> SumFunction(number),
                                    d |-> Cardinality(S)]
  BY <1>2, <1>3 DEF AggregateOf
<1>5. st.sum = SumFunction(number) /\ st.count = Cardinality(S)
  BY <1>1 DEF IsState
<1>6. \A m \in numbers : m \in Int  BY <1>1, <1>2, NumberIs
<1>7. st.min_val = Min(numbers)
  <2>1. st.min_val \in numbers /\ \A m \in numbers : st.min_val <= m
    BY <1>1, <1>2 DEF IsState
  <2>2. \A m \in numbers : (\A l \in numbers : m <= l) => m = st.min_val
    BY <1>6, <2>1
  <2> QED  BY <2>1, <2>2 DEF Min
<1>8. st.max_val = Max(numbers)
  <2>1. st.max_val \in numbers /\ \A m \in numbers : m <= st.max_val
    BY <1>1, <1>2 DEF IsState
  <2>2. \A m \in numbers : (\A l \in numbers : m >= l) => m = st.max_val
    BY <1>6, <2>1
  <2>3. \A m \in numbers : st.max_val >= m  BY <1>6, <2>1
  <2> QED  BY <2>1, <2>2, <2>3 DEF Max
<1> QED  BY <1>4, <1>5, <1>7, <1>8 DEF finalize

\* What the aggregation has of the rows C: the hash table and the groups in
\* order.
Sharing(k, C) == {r \in C : KeyOf(r) = k}
FirstOf(C) == {r \in C : \A q \in Sharing(KeyOf(r), C) : r <= q}
CountOf(H) == SumFunction([k \in DOMAIN H |-> H[k][1].count])
States(H, C) ==
  /\ DOMAIN H = {KeyOf(r) : r \in C}
  /\ \A k \in DOMAIN H :
       /\ DOMAIN H[k] = DOMAIN agg_specs_
       /\ \A i \in DOMAIN agg_specs_ :
            IsState(H[k][i], agg_specs_[i].col, Sharing(k, C))
GroupsOf(H, G, C) ==
  /\ States(H, C)
  /\ G = Selected(KeyAt, FirstOf(C))
  /\ agg_specs_ # << >> => CountOf(H) = Cardinality(C)

LEMMA AppendIs ==
  ASSUME NEW W, NEW s \in Seq(W), NEW x \in W
  PROVE  s \o <<x>> = Append(s, x)
<1>1. PICK t : t = <<x>>  OBVIOUS
<1>2. t \in Seq(W) /\ Len(t) = 1 /\ t[1] = x  BY <1>1
<1>3. PICK n : n = Len(s)  OBVIOUS
<1>4. n \in Nat  BY <1>3
<1>5. /\ s \o t \in Seq(W) /\ Len(s \o t) = n + 1
      /\ \A i \in 1 .. n + 1 : (s \o t)[i] = IF i <= n THEN s[i] ELSE t[i - n]
  <2>1. /\ s \o t \in Seq(W) /\ Len(s \o t) = Len(s) + Len(t)
        /\ \A i \in 1 .. Len(s) + Len(t) :
             (s \o t)[i] = IF i <= Len(s) THEN s[i] ELSE t[i - Len(s)]
    BY <1>2, ConcatProperties
  <2> QED  BY <1>2, <1>3, <2>1
<1>6. /\ Append(s, x) \in Seq(W) /\ Len(Append(s, x)) = n + 1
      /\ \A i \in 1 .. n + 1 : Append(s, x)[i] = IF i <= n THEN s[i] ELSE x
  BY <1>3, <1>4
<1>7. \A i \in 1 .. n + 1 : ~(i <= n) => i - n = 1  BY <1>4
<1>8. \A i \in 1 .. n + 1 : (s \o t)[i] = Append(s, x)[i]
  BY <1>2, <1>5, <1>6, <1>7
<1> QED  BY <1>1, <1>5, <1>6, <1>8

\* A key is in the order of groups if a row has it.
LEMMA KeysListed ==
  ASSUME table_ \in Tables, NEW C \in SUBSET Rows
  PROVE  /\ FirstOf(C) \in SUBSET C
         /\ \A k : Contains(Selected(KeyAt, FirstOf(C)), k)
                     <=> \E r \in C : KeyOf(r) = k
         /\ \A q, r \in FirstOf(C) : KeyOf(q) = KeyOf(r) => q = r
         /\ C # {} => FirstOf(C) # {}
<1>1. PICK F : F = FirstOf(C)  OBVIOUS
<1>2. F \in SUBSET C  BY <1>1 DEF FirstOf
<1>3. F \in SUBSET Nat /\ IsFiniteSet(F) /\ \A r \in C : r \in Nat
  BY <1>2, RowsAre
<1>4. PICK G : G = Selected(KeyAt, F)  OBVIOUS
<1>5. G = [k \in 1 .. Cardinality(F) |-> KeyAt[InOrder[F][k]]]
      /\ Cardinality(F) \in Nat
      /\ (\A k \in 1 .. Cardinality(F) : InOrder[F][k] \in F)
      /\ \A x \in F : \E k \in 1 .. Cardinality(F) : InOrder[F][k] = x
  BY <1>3, <1>4, SelectedAt
<1>6. Len(G) = Cardinality(F)  BY <1>5
<1>7. \A r \in C : KeyAt[r] = KeyOf(r)  BY DEF KeyAt
<1>8. ASSUME NEW k, NEW r \in C, KeyOf(r) = k  PROVE \E q \in F : KeyOf(q) = k
  <2>1. PICK T : T = Sharing(k, C)  OBVIOUS
  <2>2. T \subseteq Nat /\ T # {}  BY <1>3, <1>8, <2>1 DEF Sharing
  <2>3. PICK q \in T : \A p \in T : q <= p  BY <2>2, LeastNat
  <2>4. q \in C /\ KeyOf(q) = k  BY <2>1 DEF Sharing
  <2>5. q \in F  BY <1>1, <2>1, <2>3, <2>4 DEF FirstOf
  <2> QED  BY <2>4, <2>5
<1>9. ASSUME NEW k  PROVE Contains(G, k) <=> \E r \in C : KeyOf(r) = k
  <2>1. Contains(G, k) <=> \E i \in 1 .. Len(G) : G[i] = k  BY DEF Contains
  <2>2. ASSUME NEW i \in 1 .. Len(G), G[i] = k  PROVE \E r \in C : KeyOf(r) = k
    <3>1. InOrder[F][i] \in F /\ G[i] = KeyAt[InOrder[F][i]]  BY <1>5, <1>6
    <3> QED  BY <1>2, <1>7, <2>2, <3>1
  <2>3. ASSUME NEW r \in C, KeyOf(r) = k  PROVE \E i \in 1 .. Len(G) : G[i] = k
    <3>1. PICK q \in F : KeyOf(q) = k  BY <1>8, <2>3
    <3>2. PICK i \in 1 .. Cardinality(F) : InOrder[F][i] = q  BY <1>5
    <3> QED  BY <1>2, <1>5, <1>6, <1>7, <3>1, <3>2
  <2> QED  BY <2>1, <2>2, <2>3
<1>10. ASSUME NEW q \in F, NEW r \in F, KeyOf(q) = KeyOf(r)  PROVE q = r
  <2>1. q \in C /\ r \in C /\ q \in Nat /\ r \in Nat  BY <1>2, <1>3
  <2>2. q <= r /\ r <= q  BY <1>1, <1>10, <2>1 DEF FirstOf, Sharing
  <2> QED  BY <2>1, <2>2
<1> QED  BY <1>1, <1>2, <1>4, <1>8, <1>9, <1>10

LEMMA OrderGrows ==
  ASSUME table_ \in Tables, NEW C \in SUBSET Rows, NEW r \in Rows,
         \A q \in C : q < r
  PROVE  Seen(Selected(KeyAt, FirstOf(C)), KeyOf(r))
           = Selected(KeyAt, FirstOf(C \cup {r}))
<1>1. PICK F : F = FirstOf(C)  OBVIOUS
<1>2. PICK G : G = Selected(KeyAt, F)  OBVIOUS
<1>3. PICK D : D = C \cup {r}  OBVIOUS
<1>4. F \in SUBSET C /\ r \notin C /\ r \in Nat /\ \A q \in C : q \in Nat /\ ~(r <= q)
  BY <1>1, KeysListed, RowsAre
<1>5. Contains(G, KeyOf(r)) <=> \E q \in C : KeyOf(q) = KeyOf(r)
  BY <1>1, <1>2, KeysListed
<1>6. \A q \in C : q \in FirstOf(D) <=> q \in F
  <2>1. \A q \in C : q <= r  BY <1>4
  <2>2. \A k, p : p \in Sharing(k, D) <=>
          p \in Sharing(k, C) \/ (p = r /\ KeyOf(r) = k)
    BY <1>3 DEF Sharing
  <2> QED  BY <1>1, <1>3, <2>1, <2>2 DEF FirstOf
<1>7. r \in FirstOf(D) <=> ~ \E q \in C : KeyOf(q) = KeyOf(r)
  BY <1>3, <1>4 DEF FirstOf, Sharing
<1>8. FirstOf(D) \in SUBSET D  BY DEF FirstOf
<1>9. CASE Contains(G, KeyOf(r))
  <2>1. FirstOf(D) = F  BY <1>3, <1>4, <1>5, <1>6, <1>7, <1>8, <1>9
  <2> QED  BY <1>1, <1>2, <1>3, <1>9, <2>1 DEF Seen
<1>10. CASE ~Contains(G, KeyOf(r))
  <2>1. FirstOf(D) = F \cup {r}  BY <1>3, <1>4, <1>5, <1>6, <1>7, <1>8, <1>10
  <2>2. F \in SUBSET Nat /\ IsFiniteSet(F) /\ F \in SUBSET Rows
    BY <1>4, RowsAre
  <2>3. {r} \in SUBSET Nat /\ IsFiniteSet({r})  BY <1>4, FS_Singleton
  <2>4. \A x \in F, y \in {r} : x < y  BY <1>4
  <2>5. Selected(KeyAt, F \cup {r}) = Selected(KeyAt, F) \o Selected(KeyAt, {r})
    BY <2>2, <2>3, <2>4, SelectedJoin
  <2>6. Selected(KeyAt, {r}) = <<KeyOf(r)>>
    <3>1. KeyAt[r] = KeyOf(r)  BY DEF KeyAt
    <3> QED  BY <1>4, <3>1, SelectedOne
  <2>7. PICK W : W = {KeyOf(q) : q \in Rows}  OBVIOUS
  <2>8. G \in Seq(W)
    <3>1. \A x \in F : KeyAt[x] \in W  BY <2>2, <2>7 DEF KeyAt
    <3> QED  BY <1>2, <2>2, <3>1, SelectedTyped
  <2>9. G \o <<KeyOf(r)>> = Append(G, KeyOf(r))  BY <2>7, <2>8, AppendIs
  <2> QED  BY <1>1, <1>2, <1>3, <1>10, <2>1, <2>5, <2>6, <2>9 DEF Seen
<1> QED  BY <1>9, <1>10

LEMMA CountGrows ==
  ASSUME NEW H, NEW I, IsFiniteSet(DOMAIN H), NEW key,
         DOMAIN I = DOMAIN H \cup {key},
         \A k \in DOMAIN H : k # key => I[k] = H[k],
         \A k \in DOMAIN H : H[k][1].count \in Int,
         I[key][1].count = IF key \in DOMAIN H THEN H[key][1].count + 1 ELSE 1
  PROVE  CountOf(I) = CountOf(H) + 1 /\ CountOf(H) \in Int
<1>1. PICK f : f = [k \in DOMAIN H |-> H[k][1].count]  OBVIOUS
<1>2. PICK g : g = [k \in DOMAIN I |-> I[k][1].count]  OBVIOUS
<1>3. CountOf(H) = SumFunction(f) /\ CountOf(I) = SumFunction(g)
  BY <1>1, <1>2 DEF CountOf
<1>4. PICK D : D = DOMAIN H  OBVIOUS
<1>5. PICK E : E = DOMAIN I  OBVIOUS
<1>6. IsFiniteSet(D) /\ IsFiniteSet(E)  BY <1>4, <1>5, FS_AddElement
<1>7. f \in [D -> Int]  BY <1>1, <1>4
<1>8. \A k \in D : k # key => g[k] = f[k]  BY <1>1, <1>2, <1>4
<1>9. g[key] = IF key \in D THEN f[key] + 1 ELSE 1  BY <1>1, <1>2, <1>4
<1>10. g \in [E -> Int]
  <2>1. DOMAIN g = E /\ g = [k \in E |-> g[k]]  BY <1>2, <1>5
  <2>2. \A k \in E : g[k] \in Int  BY <1>4, <1>5, <1>7, <1>8, <1>9
  <2> QED  BY <2>1, <2>2
<1>11. SumFunction(f) \in Int  BY <1>6, <1>7, SumOf
<1>12. PICK R : R = E \ {key}  OBVIOUS
<1>13. PICK e : e = [k \in R |-> g[k]]  OBVIOUS
<1>14. e \in [R -> Int] /\ Part(e, g, R) /\ key \in E
  BY <1>5, <1>10, <1>12, <1>13 DEF Part
<1>15. SumFunction(g) = g[key] + SumFunction(e)
  BY <1>6, <1>10, <1>12, <1>14, SumTakes
<1>16. CASE key \in D
  <2>1. R = D \ {key} /\ Part(e, f, R)
    BY <1>4, <1>5, <1>8, <1>12, <1>13 DEF Part
  <2>2. SumFunction(f) = f[key] + SumFunction(e)
    BY <1>6, <1>7, <1>14, <1>16, <2>1, SumTakes
  <2>3. SumFunction(e) \in Int /\ f[key] \in Int
    <3>1. IsFiniteSet(R)  BY <1>6, <1>12, FS_RemoveElement
    <3> QED  BY <1>7, <1>14, <1>16, <3>1, SumOf
  <2> QED  BY <1>3, <1>9, <1>11, <1>15, <1>16, <2>2, <2>3
<1>17. CASE key \notin D
  <2>1. R = D  BY <1>4, <1>5, <1>12, <1>17
  <2>2. e = f  BY <1>7, <1>8, <1>13, <1>17, <2>1
  <2> QED  BY <1>3, <1>9, <1>11, <1>15, <1>17, <2>2
<1> QED  BY <1>16, <1>17

\* One more row.
LEMMA GroupsGrow ==
  ASSUME table_ \in Tables, Planned, There, Grouped,
         Aggregable(Schema, agg_specs_),
         NEW C \in SUBSET Rows, NEW r \in Rows, \A q \in C : q < r,
         GroupsOf(hash_table_, group_order_, C)
  PROVE  GroupsOf(AccumulateRow(Columns, RowAt[r]),
                  Seen(group_order_, GroupKey(Columns, RowAt[r])), C \cup {r})
<1>1. PICK key : key = KeyOf(r)  OBVIOUS
<1>2. GroupKey(Columns, RowAt[r]) = key  BY <1>1, AggregableSame
<1>3. PICK H : H = hash_table_  OBVIOUS
<1>4. PICK I : I = AccumulateRow(Columns, RowAt[r])  OBVIOUS
<1>5. PICK D : D = C \cup {r}  OBVIOUS
<1>6. PICK old : old = IF key \in DOMAIN H THEN H[key]
                       ELSE [i \in DOMAIN agg_specs_ |-> NoState]
  OBVIOUS
<1>7. PICK new : new = [i \in DOMAIN agg_specs_ |->
                          update(old[i], NumberOf(agg_specs_[i].col, r))]
  OBVIOUS
<1>8. I = [k \in DOMAIN H \cup {key} |-> IF k = key THEN new ELSE H[k]]
  <2>1. \A i \in DOMAIN agg_specs_ :
          RowAt[r][find_column(Columns, agg_specs_[i].col)].n
            = NumberOf(agg_specs_[i].col, r)
    BY AggregableSame DEF NumberOf
  <2>2. new = [i \in DOMAIN agg_specs_ |->
                 update(old[i], RowAt[r][find_column(Columns, agg_specs_[i].col)].n)]
    BY <1>7, <2>1
  <2> QED  BY <1>2, <1>3, <1>4, <1>6, <2>2 DEF AccumulateRow
<1>9. States(H, C)  BY <1>3 DEF GroupsOf
<1>10. r \notin C /\ C \in SUBSET Rows
  <2>1. r \in Nat  BY RowsAre
  <2> QED  BY <2>1
<1>11. \A i \in DOMAIN agg_specs_ : ColumnOf(agg_specs_[i].col) # NotFound
  BY DEF Aggregable, ColumnOf
<1>12. \A i \in DOMAIN agg_specs_ :
         IsState(old[i], agg_specs_[i].col, Sharing(key, C))
  <2>1. CASE key \in DOMAIN H  BY <1>6, <1>9, <2>1 DEF States
  <2>2. CASE key \notin DOMAIN H
    <3>1. Sharing(key, C) = {}  BY <1>9, <2>2 DEF States, Sharing
    <3> QED  BY <1>6, <2>2, <3>1, NoStateIs
  <2> QED  BY <2>1, <2>2
<1>13. Sharing(key, D) = Sharing(key, C) \cup {r}  BY <1>1, <1>5 DEF Sharing
<1>14. \A k : k # key => Sharing(k, D) = Sharing(k, C)  BY <1>1, <1>5 DEF Sharing
<1>15. \A i \in DOMAIN agg_specs_ :
         IsState(new[i], agg_specs_[i].col, Sharing(key, D))
  <2> SUFFICES ASSUME NEW i \in DOMAIN agg_specs_
               PROVE  IsState(new[i], agg_specs_[i].col, Sharing(key, D))
    OBVIOUS
  <2>1. PICK S : S = Sharing(key, C)  OBVIOUS
  <2>2. S \in SUBSET Rows /\ r \in Rows \ S  BY <1>10, <2>1 DEF Sharing
  <2>3. IsState(old[i], agg_specs_[i].col, S)  BY <1>12, <2>1
  <2>4. IsState(update(old[i], NumberOf(agg_specs_[i].col, r)),
                agg_specs_[i].col, S \cup {r})
    BY <1>11, <2>2, <2>3, StateGrows
  <2> QED  BY <1>7, <1>13, <2>1, <2>4
<1>16. States(I, D)
  <2>1. DOMAIN I = {KeyOf(q) : q \in D}
    <3>1. DOMAIN H = {KeyOf(q) : q \in C}  BY <1>9 DEF States
    <3>2. DOMAIN I = DOMAIN H \cup {key}  BY <1>8
    <3> QED  BY <1>1, <1>5, <3>1, <3>2
  <2>2. ASSUME NEW k \in DOMAIN I
        PROVE  /\ DOMAIN I[k] = DOMAIN agg_specs_
               /\ \A i \in DOMAIN agg_specs_ :
                    IsState(I[k][i], agg_specs_[i].col, Sharing(k, D))
    <3>1. CASE k = key
      <4>1. I[k] = new /\ DOMAIN new = DOMAIN agg_specs_  BY <1>7, <1>8, <3>1
      <4> QED  BY <1>15, <3>1, <4>1
    <3>2. CASE k # key
      <4>1. k \in DOMAIN H /\ I[k] = H[k]  BY <1>8, <3>2
      <4> QED  BY <1>9, <1>14, <3>2, <4>1 DEF States
    <3> QED  BY <3>1, <3>2
  <2> QED  BY <2>1, <2>2 DEF States
<1>17. Seen(group_order_, key) = Selected(KeyAt, FirstOf(D))
  BY <1>1, <1>5, OrderGrows DEF GroupsOf
<1>18. ASSUME agg_specs_ # << >>  PROVE CountOf(I) = Cardinality(D)
  <2>1. 1 \in DOMAIN agg_specs_
    <3>1. PICK W : agg_specs_ \in Seq(W)
      <4>1. stmt \in StmtType  BY StmtsAssumption DEF Planned
      <4> QED  BY <4>1, AggItemsAre DEF Planned
    <3> QED  BY <1>18, <3>1
  <2>2. IsFiniteSet(C) /\ Cardinality(C) \in Nat /\ Cardinality(D) = Cardinality(C) + 1
    <3>1. IsFiniteSet(C) /\ Cardinality(C) \in Nat  BY RowsAre
    <3> QED  BY <1>5, <1>10, <3>1, FS_AddElement
  <2>3. IsFiniteSet(DOMAIN H)
    <3>1. DOMAIN H = {KeyOf(q) : q \in C}  BY <1>9 DEF States
    <3>2. [q \in C |-> KeyOf(q)] \in Surjection(C, DOMAIN H)
      BY <3>1 DEF Surjection
    <3> QED  BY <2>2, <3>2, FS_Surjection
  <2>4. \A k \in DOMAIN H : H[k][1].count \in Int
    <3> SUFFICES ASSUME NEW k \in DOMAIN H  PROVE H[k][1].count \in Int
      OBVIOUS
    <3>1. H[k][1].count = Cardinality(Sharing(k, C))
      BY <1>9, <2>1 DEF States, IsState
    <3>2. Sharing(k, C) \in SUBSET Rows  BY DEF Sharing
    <3> QED  BY <3>1, <3>2, RowsAre
  <2>5. I[key][1].count = IF key \in DOMAIN H THEN H[key][1].count + 1 ELSE 1
    <3>1. I[key][1] = update(old[1], NumberOf(agg_specs_[1].col, r))
      BY <1>7, <1>8, <2>1
    <3>2. I[key][1].count = old[1].count + 1  BY <3>1 DEF update
    <3>3. key \notin DOMAIN H => old[1].count = 0  BY <1>6, <2>1 DEF NoState
    <3> QED  BY <1>6, <3>2, <3>3
  <2>6. DOMAIN I = DOMAIN H \cup {key} /\ \A k \in DOMAIN H : k # key => I[k] = H[k]
    BY <1>8
  <2>7. CountOf(I) = CountOf(H) + 1  BY <2>3, <2>4, <2>5, <2>6, CountGrows
  <2>8. CountOf(H) = Cardinality(C)  BY <1>3, <1>18 DEF GroupsOf
  <2> QED  BY <2>2, <2>7, <2>8
<1> QED  BY <1>2, <1>4, <1>5, <1>16, <1>17, <1>18 DEF GroupsOf

----------------------------------------------------------------------------
(* Chunks: what the operators hand on *)

RowSet == {RowAt[r] : r \in Rows}
ChunkOf(S) == [cols |-> Columns, rows |-> RowsOf(S)]

LEMMA RowsOfTyped ==
  ASSUME table_ \in Tables, NEW S \in SUBSET Rows
  PROVE  /\ RowsOf(S) \in Seq(RowSet)
         /\ Len(RowsOf(S)) = Cardinality(S) /\ Cardinality(S) \in Nat
         /\ DOMAIN RowsOf(S) = 1 .. Cardinality(S)
         /\ RowsOf(S) = [k \in 1 .. Cardinality(S) |-> RowAt[InOrder[S][k]]]
         /\ \A k \in 1 .. Cardinality(S) : InOrder[S][k] \in S
         /\ \A x \in S : \E k \in 1 .. Cardinality(S) : InOrder[S][k] = x
         /\ S # {} <=> RowsOf(S) # << >>
<1>1. S \in SUBSET Nat /\ IsFiniteSet(S)  BY RowsAre
<1>2. \A x \in S : RowAt[x] \in RowSet  BY DEF RowSet
<1>3. RowsOf(S) \in Seq(RowSet) /\ Len(RowsOf(S)) = Cardinality(S)
  BY <1>1, <1>2, SelectedTyped DEF RowsOf
<1>4. /\ Cardinality(S) \in Nat
      /\ RowsOf(S) = [k \in 1 .. Cardinality(S) |-> RowAt[InOrder[S][k]]]
      /\ \A k \in 1 .. Cardinality(S) : InOrder[S][k] \in S
      /\ \A x \in S : \E k \in 1 .. Cardinality(S) : InOrder[S][k] = x
  BY <1>1, SelectedAt DEF RowsOf
<1>5. S # {} <=> RowsOf(S) # << >>
  <2>1. RowsOf(S) # << >> <=> Cardinality(S) # 0  BY <1>3, <1>4
  <2>2. S = {} <=> Cardinality(S) = 0  BY <1>1, FS_EmptySet
  <2> QED  BY <2>1, <2>2
<1> QED  BY <1>3, <1>4, <1>5

\* The scan hands on the rows from the cursor to the end of the batch.
LEMMA BatchIs ==
  ASSUME table_ \in Tables, NEW row \in Nat, row < Len(table_),
         projected_ = [i \in DOMAIN project_cols_ |-> ColumnOf(project_cols_[i])]
  PROVE  /\ batch_end(row) \in Nat
         /\ row < batch_end(row) /\ batch_end(row) <= Len(table_)
         /\ Batch(row) = RowsOf(row + 1 .. batch_end(row))
<1>1. PICK W : table_ \in Seq(W)  BY TablesAssumption
<1>2. PICK l : l = Len(table_)  OBVIOUS
<1>3. PICK e : e = batch_end(row)  OBVIOUS
<1>4. PICK n : n = e - row  OBVIOUS
<1>5. /\ l \in Nat /\ row < l /\ e \in Nat /\ row < e /\ e <= l /\ n \in Nat
      /\ row + n = e
  <2>1. l \in Nat /\ row < l  BY <1>2, RowsAre
  <2>2. e = IF row + BatchSize < l THEN row + BatchSize ELSE l
    BY <1>2, <1>3 DEF batch_end
  <2>3. BatchSize \in Nat /\ BatchSize > 0  BY BatchAssumption
  <2> QED  BY <1>4, <2>1, <2>2, <2>3
<1>6. PICK rows : rows = SubSeq(table_, row + 1, e)  OBVIOUS
<1>7. DOMAIN rows = 1 .. n /\ \A k \in 1 .. n : rows[k] = table_[row + k]
  <2>1. row + 1 \in 1 .. Len(table_) + 1 /\ e \in row + 1 - 1 .. Len(table_)
    BY <1>2, <1>5
  <2>2. /\ rows \in Seq(W) /\ Len(rows) = e - (row + 1) + 1
        /\ \A k \in 1 .. e - (row + 1) + 1 : rows[k] = table_[row + 1 + k - 1]
    BY <1>1, <1>6, <2>1, SubSeqProperties
  <2>3. e - (row + 1) + 1 = n /\ \A k \in 1 .. n : row + 1 + k - 1 = row + k
    BY <1>4, <1>5
  <2>4. Len(rows) = n /\ \A k \in 1 .. n : rows[k] = table_[row + k]
    BY <2>2, <2>3
  <2> QED  BY <2>2, <2>4
<1>8. Batch(row) = [k \in 1 .. n |-> [i \in DOMAIN projected_ |-> rows[k][projected_[i]]]]
  BY <1>3, <1>6, <1>7 DEF Batch
<1>9. \A k \in 1 .. n : row + k \in Rows
  <2>1. \A k \in 1 .. n : row + k \in 1 .. l  BY <1>5
  <2> QED  BY <1>2, <2>1, RowsAre
<1>10. ASSUME NEW k \in 1 .. n
       PROVE  [i \in DOMAIN projected_ |-> rows[k][projected_[i]]] = RowAt[row + k]
  BY <1>7, <1>9 DEF RowAt
<1>11. Batch(row) = [k \in 1 .. n |-> RowAt[row + k]]  BY <1>8, <1>10
<1>12. Selected(RowAt, row + 1 .. row + n) = [k \in 1 .. n |-> RowAt[row + k]]
  <2>1. n \in Nat  BY <1>5
  <2>2. Runs(Selected(RowAt, row + 1 .. row + n), RowAt, row, n)
    BY <2>1, SelectedInterval
  <2> QED  BY <2>2 DEF Runs
<1> QED  BY <1>2, <1>3, <1>5, <1>11, <1>12 DEF RowsOf

\* The filter keeps of them the rows that pass, and throws if one throws.
LEMMA FilterIs ==
  ASSUME table_ \in Tables, Planned, There, NEW S \in SUBSET Rows
  PROVE  /\ Selected(RowsOf(S), {k \in DOMAIN RowsOf(S) :
                                   CondsHold(Columns, RowsOf(S)[k], stmt.where)})
              = RowsOf(S \cap Passing)
         /\ BatchThrows(ChunkOf(S))
              <=> \E r \in S : CondsThrow(Schema, table_[r], stmt.where)
<1>1. PICK n : n = Cardinality(S)  OBVIOUS
<1>2. PICK p : p = InOrder[S]  OBVIOUS
<1>3. /\ n \in Nat /\ DOMAIN RowsOf(S) = 1 .. n
      /\ \A k \in 1 .. n : RowsOf(S)[k] = RowAt[p[k]]
      /\ \A k \in 1 .. n : p[k] \in S
      /\ \A x \in S : \E k \in 1 .. n : p[k] = x
  BY <1>1, <1>2, RowsOfTyped
<1>4. \A k \in 1 .. n :
        /\ CondsHold(Columns, RowsOf(S)[k], stmt.where) <=> p[k] \in Passing
        /\ CondsThrow(Columns, RowsOf(S)[k], stmt.where)
             <=> CondsThrow(Schema, table_[p[k]], stmt.where)
  BY <1>3, WhereSame DEF Passing
<1>5. PICK P : P = {k \in DOMAIN RowsOf(S) :
                      CondsHold(Columns, RowsOf(S)[k], stmt.where)}
  OBVIOUS
<1>6. P = {k \in 1 .. n : p[k] \in Passing}  BY <1>3, <1>4, <1>5
<1>7. {p[k] : k \in P} = S \cap Passing  BY <1>3, <1>6
<1>8. Selected(RowsOf(S), P) = RowsOf(S \cap Passing)
  <2>1. S \in SUBSET Nat /\ IsFiniteSet(S)  BY RowsAre
  <2>2. P \in SUBSET (1 .. Cardinality(S))  BY <1>1, <1>6
  <2>3. Selected(Selected(RowAt, S), P) = Selected(RowAt, {InOrder[S][k] : k \in P})
    BY <2>1, <2>2, SelectedAgain
  <2> QED  BY <1>2, <1>7, <2>3 DEF RowsOf
<1>9. BatchThrows(ChunkOf(S))
        <=> \E k \in 1 .. n : CondsThrow(Columns, RowsOf(S)[k], stmt.where)
  BY <1>3 DEF BatchThrows, ChunkOf
<1> QED  BY <1>3, <1>4, <1>5, <1>8, <1>9

\* The first of the rows, and the others.
LEMMA FirstRow ==
  ASSUME table_ \in Tables, NEW S \in SUBSET Rows, S # {}
  PROVE  \E r \in S :
           /\ \A q \in S \ {r} : r < q
           /\ Head(RowsOf(S)) = RowAt[r]
           /\ Tail(RowsOf(S)) = RowsOf(S \ {r})
           /\ Len(RowsOf(S)) > 1 <=> S \ {r} # {}
<1>1. S \subseteq Nat  BY RowsAre
<1>2. PICK r \in S : \A q \in S : r <= q  BY <1>1, LeastNat
<1>3. PICK T : T = S \ {r}  OBVIOUS
<1>4. \A q \in T : r < q
  <2>1. \A q \in T : r <= q /\ r # q /\ q \in Nat /\ r \in Nat  BY <1>1, <1>2, <1>3
  <2> QED  BY <2>1
<1>5. RowsOf(S) = <<RowAt[r]>> \o RowsOf(T)
  <2>1. {r} \in SUBSET Nat /\ IsFiniteSet({r}) /\ T \in SUBSET Nat /\ IsFiniteSet(T)
    BY <1>1, <1>3, FS_Singleton, RowsAre
  <2>2. \A x \in {r}, y \in T : x < y  BY <1>4
  <2>3. Selected(RowAt, {r} \cup T) = Selected(RowAt, {r}) \o Selected(RowAt, T)
    BY <2>1, <2>2, SelectedJoin
  <2>4. Selected(RowAt, {r}) = <<RowAt[r]>>  BY <1>1, SelectedOne
  <2>5. {r} \cup T = S  BY <1>3
  <2> QED  BY <2>3, <2>4, <2>5 DEF RowsOf
<1>6. PICK t : t = RowsOf(T)  OBVIOUS
<1>7. PICK s : s = RowsOf(S)  OBVIOUS
<1>8. PICK n : n = Len(t)  OBVIOUS
<1>9. t \in Seq(RowSet) /\ (T # {} <=> t # << >>)
  <2>1. T \in SUBSET Rows  BY <1>3
  <2> QED  BY <1>6, <2>1, RowsOfTyped
<1>10. n \in Nat /\ (t # << >> <=> n > 0)  BY <1>8, <1>9
<1>11. PICK o : o = <<RowAt[r]>>  OBVIOUS
<1>12. o \in Seq(RowSet) /\ Len(o) = 1 /\ o[1] = RowAt[r]
  BY <1>11 DEF RowSet
<1>13. /\ s \in Seq(RowSet) /\ Len(s) = 1 + n
       /\ \A k \in 1 .. 1 + n : s[k] = IF k <= 1 THEN o[k] ELSE t[k - 1]
  <2>1. /\ o \o t \in Seq(RowSet) /\ Len(o \o t) = Len(o) + Len(t)
        /\ \A k \in 1 .. Len(o) + Len(t) :
             (o \o t)[k] = IF k <= Len(o) THEN o[k] ELSE t[k - Len(o)]
    BY <1>9, <1>12, ConcatProperties
  <2> QED  BY <1>5, <1>6, <1>7, <1>8, <1>11, <1>12, <2>1
<1>14. Head(s) = RowAt[r]
  <2>1. 1 \in 1 .. 1 + n  BY <1>10
  <2> QED  BY <1>12, <1>13, <2>1
<1>15. Tail(s) = t
  <2>1. Tail(s) \in Seq(RowSet) /\ Len(Tail(s)) = n
        /\ \A k \in 1 .. n : Tail(s)[k] = s[k + 1]
    BY <1>10, <1>13
  <2>2. \A k \in 1 .. n : k + 1 \in 1 .. 1 + n /\ ~(k + 1 <= 1) /\ (k + 1) - 1 = k
    BY <1>10
  <2>3. \A k \in 1 .. n : Tail(s)[k] = t[k]  BY <1>13, <2>1, <2>2
  <2> QED  BY <1>8, <1>9, <2>1, <2>3
<1>16. Len(s) > 1 <=> T # {}  BY <1>9, <1>10, <1>13
<1> QED  BY <1>3, <1>4, <1>6, <1>7, <1>14, <1>15, <1>16

\* The chunks cs hold the rows C, as they are when nothing groups them.
RowsIn(cs) == [i \in DOMAIN cs |-> cs[i].rows]
LengthsIn(cs) == [i \in DOMAIN cs |-> Len(cs[i].rows)]
KeptIn(cs, C) ==
  /\ cs \in Seq([cols : {Columns}, rows : Seq(RowSet)])
  /\ FlattenSeq(RowsIn(cs)) = RowsOf(C)
  /\ cs = << >> <=> C = {}
  /\ SumFunction(LengthsIn(cs)) = Cardinality(C)

LEMMA KeptTyped ==
  ASSUME NEW cs \in Seq([cols : {Columns}, rows : Seq(RowSet)])
  PROVE  /\ Len(cs) \in Nat /\ DOMAIN cs = 1 .. Len(cs)
         /\ \A i \in 1 .. Len(cs) : cs[i].cols = Columns /\ cs[i].rows \in Seq(RowSet)
         /\ RowsIn(cs) \in Seq(Seq(RowSet)) /\ Len(RowsIn(cs)) = Len(cs)
         /\ LengthsIn(cs) \in [1 .. Len(cs) -> Int]
<1>1. PICK n : n = Len(cs)  OBVIOUS
<1>2. n \in Nat /\ DOMAIN cs = 1 .. n
      /\ \A i \in 1 .. n : cs[i] \in [cols : {Columns}, rows : Seq(RowSet)]
  BY <1>1, SeqTyped
<1>3. \A i \in 1 .. n : cs[i].cols = Columns /\ cs[i].rows \in Seq(RowSet)
  BY <1>2
<1>4. RowsIn(cs) \in [1 .. n -> Seq(RowSet)]  BY <1>2, <1>3 DEF RowsIn
<1>5. RowsIn(cs) \in Seq(Seq(RowSet)) /\ Len(RowsIn(cs)) = n  BY <1>2, <1>4
<1>6. LengthsIn(cs) \in [1 .. n -> Int]
  <2>1. \A i \in 1 .. n : Len(cs[i].rows) \in Int  BY <1>3
  <2> QED  BY <1>2, <2>1 DEF LengthsIn
<1> QED  BY <1>1, <1>2, <1>3, <1>5, <1>6

LEMMA NothingKept == KeptIn(<< >>, {})
<1>1. RowsIn(<< >>) = << >>  BY DEF RowsIn
<1>2. RowsOf({}) = << >>  BY SelectedNone DEF RowsOf
<1>3. FlattenSeq(<< >>) = << >>  BY Flattened
<1>4. SumFunction(LengthsIn(<< >>)) = 0
  <2>1. LengthsIn(<< >>) \in [{} -> Int]  BY DEF LengthsIn
  <2> QED  BY <2>1, SumOf, FS_EmptySet
<1>5. Cardinality({}) = 0  BY FS_EmptySet
<1> QED  BY <1>1, <1>2, <1>3, <1>4, <1>5 DEF KeptIn

LEMMA KeptGrows ==
  ASSUME table_ \in Tables, NEW cs, NEW C \in SUBSET Rows, KeptIn(cs, C),
         NEW S \in SUBSET Rows, S # {}, Below(C, S)
  PROVE  KeptIn(Append(cs, ChunkOf(S)), C \cup S)
<1>1. PICK W : W = [cols : {Columns}, rows : Seq(RowSet)]  OBVIOUS
<1>2. PICK c : c = ChunkOf(S)  OBVIOUS
<1>3. PICK new : new = Append(cs, c)  OBVIOUS
<1>4. PICK n : n = Len(cs)  OBVIOUS
<1>5. cs \in Seq(W)  BY <1>1 DEF KeptIn
<1>6. c \in W /\ c.rows = RowsOf(S) /\ RowsOf(S) \in Seq(RowSet)
  BY <1>1, <1>2, RowsOfTyped DEF ChunkOf
<1>7. /\ n \in Nat /\ new \in Seq(W) /\ Len(new) = n + 1
      /\ DOMAIN cs = 1 .. n /\ DOMAIN new = 1 .. n + 1
      /\ \A i \in 1 .. n : new[i] = cs[i]
      /\ new[n + 1] = c
  BY <1>3, <1>4, <1>5, <1>6
<1>8. RowsIn(cs) \in Seq(Seq(RowSet)) /\ Len(RowsIn(cs)) = n
  BY <1>1, <1>4, <1>5, KeptTyped
<1>9. RowsIn(new) = Append(RowsIn(cs), RowsOf(S))
  <2>1. RowsIn(new) \in Seq(Seq(RowSet)) /\ Len(RowsIn(new)) = n + 1
    BY <1>1, <1>7, KeptTyped
  <2>2. PICK t : t = Append(RowsIn(cs), RowsOf(S))  OBVIOUS
  <2>3. /\ t \in Seq(Seq(RowSet)) /\ Len(t) = n + 1 /\ t[n + 1] = RowsOf(S)
        /\ \A i \in 1 .. n : t[i] = RowsIn(cs)[i]
    BY <1>6, <1>7, <1>8, <2>2
  <2>4. \A i \in 1 .. n + 1 : RowsIn(new)[i] = t[i]
    <3> SUFFICES ASSUME NEW i \in 1 .. n + 1  PROVE RowsIn(new)[i] = t[i]
      OBVIOUS
    <3>1. RowsIn(new)[i] = new[i].rows  BY <1>7 DEF RowsIn
    <3>2. CASE i = n + 1  BY <1>6, <1>7, <2>3, <3>1, <3>2
    <3>3. CASE i # n + 1
      <4>1. i \in 1 .. n  BY <1>7, <3>3
      <4>2. RowsIn(cs)[i] = cs[i].rows  BY <1>7, <4>1 DEF RowsIn
      <4> QED  BY <1>7, <2>3, <3>1, <4>1, <4>2
    <3> QED  BY <3>2, <3>3
  <2> QED  BY <2>1, <2>2, <2>3, <2>4
<1>10. FlattenSeq(RowsIn(new)) = RowsOf(C \cup S)
  <2>1. FlattenSeq(RowsIn(new)) = FlattenSeq(RowsIn(cs)) \o RowsOf(S)
    BY <1>6, <1>8, <1>9, Flattened
  <2>2. RowsOf(C \cup S) = RowsOf(C) \o RowsOf(S)
    <3>1. /\ C \in SUBSET Nat /\ IsFiniteSet(C) /\ S \in SUBSET Nat
          /\ IsFiniteSet(S) /\ \A x \in C, y \in S : x < y
      BY RowsAre DEF Below
    <3> QED  BY <3>1, SelectedJoin DEF RowsOf
  <2> QED  BY <2>1, <2>2 DEF KeptIn
<1>11. SumFunction(LengthsIn(new)) = Cardinality(C \cup S)
  <2>1. PICK f : f = LengthsIn(new)  OBVIOUS
  <2>2. PICK e : e = LengthsIn(cs)  OBVIOUS
  <2>3. f \in [1 .. n + 1 -> Int] /\ e \in [1 .. n -> Int]
    BY <1>1, <1>4, <1>5, <1>7, <2>1, <2>2, KeptTyped
  <2>4. 1 .. n = (1 .. n + 1) \ {n + 1} /\ n + 1 \in 1 .. n + 1  BY <1>7
  <2>5. Part(e, f, 1 .. n) /\ f[n + 1] = Cardinality(S)
    <3>1. \A i \in 1 .. n : e[i] = Len(cs[i].rows) /\ f[i] = Len(new[i].rows)
      BY <1>7, <2>1, <2>2 DEF LengthsIn
    <3>2. f[n + 1] = Len(RowsOf(S))  BY <1>6, <1>7, <2>1, <2>4 DEF LengthsIn
    <3>3. \A i \in 1 .. n : e[i] = f[i]  BY <1>7, <3>1
    <3> QED  BY <3>2, <3>3, RowsOfTyped DEF Part
  <2>6. IsFiniteSet(1 .. n + 1)
    <3>1. 1 \in Int /\ n + 1 \in Int  BY <1>7
    <3> QED  BY <3>1, FS_Interval
  <2>7. SumFunction(f) = f[n + 1] + SumFunction(e)
    <3>1. PICK D : D = 1 .. n + 1  OBVIOUS
    <3>2. PICK E : E = 1 .. n  OBVIOUS
    <3>3. PICK x : x = n + 1  OBVIOUS
    <3>4. IsFiniteSet(D) /\ f \in [D -> Int] /\ x \in D /\ E = D \ {x}
          /\ e \in [E -> Int] /\ Part(e, f, E)
      BY <2>3, <2>4, <2>5, <2>6, <3>1, <3>2, <3>3
    <3>5. SumFunction(f) = f[x] + SumFunction(e)  BY <3>4, SumTakes
    <3> QED  BY <3>3, <3>5
  <2>8. SumFunction(e) = Cardinality(C)  BY <2>2 DEF KeptIn
  <2>9. Cardinality(C \cup S) = Cardinality(C) + Cardinality(S)
    <3>1. C \cap S = {}
      <4>1. \A x \in C : x \in Nat  BY RowsAre
      <4>2. \A x \in C : ~(x < x)  BY <4>1
      <4> QED  BY <4>2 DEF Below
    <3>2. IsFiniteSet(C) /\ IsFiniteSet(S) /\ Cardinality(C) \in Nat /\ Cardinality(S) \in Nat
      BY RowsAre
    <3>3. Cardinality(C \cap S) = 0  BY <3>1, FS_EmptySet
    <3>4. Cardinality(C \cup S)
            = Cardinality(C) + Cardinality(S) - Cardinality(C \cap S)
      BY <3>2, FS_Union
    <3> QED  BY <3>2, <3>3, <3>4
  <2>10. Cardinality(C) \in Nat /\ Cardinality(S) \in Nat  BY RowsAre
  <2> QED  BY <2>1, <2>5, <2>7, <2>8, <2>9, <2>10
<1>12. new # << >> /\ C \cup S # {}  BY <1>7
<1> QED  BY <1>1, <1>2, <1>3, <1>7, <1>10, <1>11, <1>12 DEF KeptIn

\* Without groups, the answer is made of all the rows that pass.
LEMMA PlainAnswer ==
  ASSUME table_ \in Tables, Planned, ~Grouped, Passing # {}
  PROVE  UnorderedAnswer = ChunkOf(Passing)
<1>1. PICK rows : rows = Selected(table_, Passing)  OBVIOUS
<1>2. PICK names : names = project_cols(stmt)  OBVIOUS
<1>3. UnorderedAnswer =
        [cols |-> [c \in DOMAIN names |-> Schema[ColumnOf(names[c])]],
         rows |-> [i \in DOMAIN rows |->
                     [c \in DOMAIN names |-> rows[i][ColumnOf(names[c])]]]]
  BY <1>1, <1>2 DEF UnorderedAnswer
<1>4. names = project_cols_  BY <1>2 DEF Planned
<1>5. rows = [k \in 1 .. Cardinality(Passing) |-> table_[InOrder[Passing][k]]]
  <2>1. Passing \in SUBSET Nat /\ IsFiniteSet(Passing)  BY RowsAre
  <2> QED  BY <1>1, <2>1, SelectedAt
<1>6. /\ RowsOf(Passing) = [k \in 1 .. Cardinality(Passing) |-> RowAt[InOrder[Passing][k]]]
      /\ \A k \in 1 .. Cardinality(Passing) : InOrder[Passing][k] \in Rows
  BY RowsAre, RowsOfTyped
<1>7. \A k \in 1 .. Cardinality(Passing) :
        RowAt[InOrder[Passing][k]] =
          [c \in DOMAIN names |-> rows[k][ColumnOf(names[c])]]
  BY <1>4, <1>5, <1>6 DEF RowAt
<1>8. RowsOf(Passing) = [i \in DOMAIN rows |->
                           [c \in DOMAIN names |-> rows[i][ColumnOf(names[c])]]]
  BY <1>5, <1>6, <1>7
<1> QED  BY <1>3, <1>4, <1>8 DEF Columns, ChunkOf

\* Chunk by chunk, they are the answer.
LEMMA KeptAnswer ==
  ASSUME table_ \in Tables, Planned, ~Grouped, NEW cs, KeptIn(cs, Passing)
  PROVE  \/ cs = << >> /\ Passing = {}
         \/ cs # << >> /\ Passing # {} /\ merge(cs) = UnorderedAnswer
<1>1. cs = << >> <=> Passing = {}  BY DEF KeptIn
<1>2. ASSUME cs # << >>  PROVE merge(cs) = UnorderedAnswer
  <2>1. cs[1].cols = Columns
    <3>1. cs \in Seq([cols : {Columns}, rows : Seq(RowSet)])  BY DEF KeptIn
    <3>2. 1 \in 1 .. Len(cs)  BY <1>2, <3>1
    <3> QED  BY <3>1, <3>2, KeptTyped
  <2>2. merge(cs) = ChunkOf(Passing)
    BY <2>1 DEF merge, KeptIn, RowsIn, ChunkOf
  <2>3. UnorderedAnswer = ChunkOf(Passing)  BY <1>1, <1>2, PlainAnswer
  <2> QED  BY <2>2, <2>3
<1> QED  BY <1>1, <1>2

LEMMA MergeOne ==
  ASSUME NEW cols, NEW W, NEW rows \in Seq(W)
  PROVE  merge(<<[cols |-> cols, rows |-> rows]>>) = [cols |-> cols, rows |-> rows]
<1>1. PICK cs : cs = <<[cols |-> cols, rows |-> rows]>>  OBVIOUS
<1>2. [i \in DOMAIN cs |-> cs[i].rows] = <<rows>>  BY <1>1
<1>3. FlattenSeq(<<rows>>) = rows  BY Flattened
<1>4. cs[1].cols = cols  BY <1>1
<1> QED  BY <1>1, <1>2, <1>3, <1>4 DEF merge

\* What produce_result makes of the groups.
Produced ==
  IF group_order_ = << >> THEN << >>
  ELSE <<[cols |-> GroupColumns(agg_specs_),
          rows |-> [i \in DOMAIN group_order_ |-> GroupRow(group_order_[i])]]>>

LEMMA GroupsAnswer ==
  ASSUME table_ \in Tables, Planned, Grouped,
         GroupsOf(hash_table_, group_order_, Passing),
         Passing # {} => Aggregable(Schema, agg_specs_)
  PROVE  \/ Produced = << >> /\ Passing = {}
         \/ Produced # << >> /\ Passing # {} /\ merge(Produced) = UnorderedAnswer
<1>1. PICK F : F = FirstRows  OBVIOUS
<1>2. FirstOf(Passing) = F /\ \A r \in Passing : GroupOf(r) = Sharing(KeyOf(r), Passing)
  BY <1>1 DEF FirstOf, FirstRows, GroupOf, Sharing
<1>3. F \in SUBSET Passing /\ (Passing # {} => F # {}) /\ Passing \in SUBSET Rows
  BY <1>2, KeysListed, RowsAre
<1>4. F \in SUBSET Rows /\ F \in SUBSET Nat /\ IsFiniteSet(F)
  BY <1>3, RowsAre
<1>5. PICK n : n = Cardinality(F)  OBVIOUS
<1>6. PICK first : first = InOrder[F]  OBVIOUS
<1>7. PICK G : G = group_order_  OBVIOUS
<1>8. /\ n \in Nat /\ first \in Seq(F)
      /\ G = [k \in 1 .. n |-> KeyAt[first[k]]]
      /\ \A k \in 1 .. n : first[k] \in F
  BY <1>2, <1>4, <1>5, <1>6, <1>7, SelectedAt DEF GroupsOf
<1>9. Len(first) = n /\ DOMAIN first = 1 .. n
  <2>1. Len(first) = n  BY <1>4, <1>5, <1>6, InOrderIs
  <2> QED  BY <1>8, <2>1
<1>10. DOMAIN G = 1 .. n /\ \A k \in 1 .. n : G[k] = KeyOf(first[k])
  BY <1>4, <1>8 DEF KeyAt
<1>11. F = {} <=> n = 0  BY <1>4, <1>5, FS_EmptySet
<1>12. G = << >> <=> n = 0  BY <1>8, <1>10
<1>13. CASE Passing = {}
  <2>1. F = {}  BY <1>3, <1>13
  <2> QED  BY <1>7, <1>11, <1>12, <1>13, <2>1 DEF Produced
<1>14. CASE Passing # {}
  <2>1. G # << >>  BY <1>3, <1>11, <1>12, <1>14
  <2>2. PICK aggs : aggs = agg_specs_  OBVIOUS
  <2>3. aggs = AggItems(stmt)  BY <2>2 DEF Planned
  <2>4. PICK m : m \in Nat /\ DOMAIN aggs = 1 .. m
                 /\ \A a \in 1 .. m : aggs[a].agg \in {"SUM", "COUNT", "MIN", "MAX", "AVG"}
    <3>1. PICK X : X = [agg : {"SUM", "COUNT", "MIN", "MAX", "AVG"},
                        col : STRING, alias : STRING]
      OBVIOUS
    <3>2. stmt \in StmtType  BY StmtsAssumption DEF Planned
    <3>3. aggs \in Seq(X)  BY <2>3, <3>1, <3>2, AggItemsAre
    <3>4. Len(aggs) \in Nat /\ DOMAIN aggs = 1 .. Len(aggs)
          /\ \A a \in 1 .. Len(aggs) : aggs[a] \in X
      BY <3>3, SeqTyped
    <3>5. \A a \in 1 .. Len(aggs) : aggs[a].agg \in {"SUM", "COUNT", "MIN", "MAX", "AVG"}
      BY <3>1, <3>4
    <3> QED  BY <3>4, <3>5
  <2>5. \A a \in DOMAIN aggs : ColumnOf(aggs[a].col) # NotFound
    BY <1>14, <2>2 DEF Aggregable, ColumnOf
  <2>6. ASSUME NEW k \in 1 .. n
        PROVE  GroupRow(G[k])
                 = <<KeyOf(first[k])>>
                   \o [a \in DOMAIN aggs |-> AggregateOf(aggs[a], GroupOf(first[k]))]
    <3>1. PICK r : r = first[k]  OBVIOUS
    <3>2. r \in Passing /\ G[k] = KeyOf(r)  BY <1>3, <1>8, <1>10, <3>1
    <3>3. PICK S : S = GroupOf(r)  OBVIOUS
    <3>4. S \in SUBSET Rows /\ S # {} /\ S = Sharing(KeyOf(r), Passing)
      <4>1. r \in S /\ S \in SUBSET Passing  BY <3>2, <3>3 DEF GroupOf
      <4> QED  BY <1>2, <1>3, <3>2, <3>3, <4>1
    <3>5. G[k] \in DOMAIN hash_table_  BY <3>2 DEF GroupsOf, States
    <3>6. \A a \in DOMAIN aggs : IsState(hash_table_[G[k]][a], aggs[a].col, S)
      BY <2>2, <3>2, <3>4, <3>5 DEF GroupsOf, States
    <3>7. \A a \in DOMAIN aggs :
            finalize(hash_table_[G[k]][a], aggs[a].agg) = AggregateOf(aggs[a], S)
      <4> SUFFICES ASSUME NEW a \in DOMAIN aggs
                   PROVE  finalize(hash_table_[G[k]][a], aggs[a].agg)
                            = AggregateOf(aggs[a], S)
        OBVIOUS
      <4>1. PICK item : item = aggs[a]  OBVIOUS
      <4>2. ColumnOf(item.col) # NotFound
            /\ item.agg \in {"SUM", "COUNT", "MIN", "MAX", "AVG"}
        BY <2>4, <2>5, <4>1
      <4>3. IsState(hash_table_[G[k]][a], item.col, S)  BY <3>6, <4>1
      <4>4. finalize(hash_table_[G[k]][a], item.agg) = AggregateOf(item, S)
        BY <3>4, <4>2, <4>3, StateEnds
      <4> QED  BY <4>1, <4>4
    <3>8. [a \in DOMAIN aggs |-> finalize(hash_table_[G[k]][a], aggs[a].agg)]
            = [a \in DOMAIN aggs |-> AggregateOf(aggs[a], S)]
      BY <3>7
    <3>9. GroupRow(G[k])
            = <<G[k]>> \o [a \in DOMAIN aggs |-> finalize(hash_table_[G[k]][a], aggs[a].agg)]
      BY <2>2 DEF GroupRow
    <3> QED  BY <3>1, <3>2, <3>3, <3>8, <3>9
  <2>7. PICK rows : rows = [i \in DOMAIN G |-> GroupRow(G[i])]  OBVIOUS
  <2>8. PICK cols : cols = GroupColumns(aggs)  OBVIOUS
  <2>9. UnorderedAnswer = [cols |-> cols, rows |-> rows]
    <3>1. UnorderedAnswer =
            [cols |-> GroupColumns(aggs),
             rows |-> [i \in DOMAIN first |->
                         <<KeyOf(first[i])>>
                         \o [a \in DOMAIN aggs |->
                               AggregateOf(aggs[a], GroupOf(first[i]))]]]
      BY <1>1, <1>6, <1>14, <2>3 DEF UnorderedAnswer
    <3>2. rows = [i \in DOMAIN first |->
                    <<KeyOf(first[i])>>
                    \o [a \in DOMAIN aggs |->
                          AggregateOf(aggs[a], GroupOf(first[i]))]]
      BY <1>9, <1>10, <2>6, <2>7
    <3> QED  BY <2>8, <3>1, <3>2
  <2>10. Produced = <<[cols |-> cols, rows |-> rows]>>
    BY <1>7, <2>1, <2>2, <2>7, <2>8 DEF Produced
  <2>11. PICK W : rows \in Seq(W)
    <3>1. PICK U : U = {GroupRow(G[i]) : i \in 1 .. n}  OBVIOUS
    <3>2. rows \in [1 .. n -> U]  BY <1>10, <2>7, <3>1
    <3>3. rows \in Seq(U)  BY <1>8, <3>2
    <3> QED  BY <3>3
  <2>12. merge(<<[cols |-> cols, rows |-> rows]>>) = [cols |-> cols, rows |-> rows]
    BY <2>11, MergeOne
  <2>13. Produced # << >>  BY <2>10
  <2> QED  BY <1>14, <2>9, <2>10, <2>12, <2>13
<1> QED  BY <1>13, <1>14

----------------------------------------------------------------------------
(* While the table and the plan stay *)

LEMMA SameRows ==
  ASSUME UNCHANGED <<table_, plan>>
  PROVE  /\ table_' = table_ /\ stmt' = stmt
         /\ project_cols_' = project_cols_ /\ agg_specs_' = agg_specs_
         /\ Rows' = Rows /\ Passing' = Passing /\ (\A n : Upto(n)' = Upto(n))
         /\ (Grouped' <=> Grouped) /\ (Ordered' <=> Ordered)
         /\ (Planned' <=> Planned) /\ (There' <=> There)
         /\ Columns' = Columns /\ RowAt' = RowAt /\ KeyAt' = KeyAt
         /\ \A S : ChunkOf(S)' = ChunkOf(S) /\ RowsOf(S)' = RowsOf(S)
<1>1. /\ table_' = table_ /\ stmt' = stmt
      /\ project_cols_' = project_cols_ /\ agg_specs_' = agg_specs_
  BY DEF plan
<1>2. Rows' = Rows  BY <1>1 DEF Rows
<1>3. Passing' = Passing  BY <1>1, <1>2 DEF Passing
<1>4. \A n : Upto(n)' = Upto(n)  BY <1>3 DEF Upto
<1>5. (Grouped' <=> Grouped) /\ (Ordered' <=> Ordered)
  BY <1>1 DEF Grouped, Ordered
<1>6. Planned' <=> Planned  BY <1>1 DEF Planned
<1>7. There' <=> There  BY <1>1 DEF There
<1>8. Columns' = Columns  BY <1>1 DEF Columns
<1>9. RowAt' = RowAt  BY <1>1, <1>2 DEF RowAt
<1>10. KeyAt' = KeyAt  BY <1>1, <1>2 DEF KeyAt, KeyOf
<1>11. \A S : ChunkOf(S)' = ChunkOf(S) /\ RowsOf(S)' = RowsOf(S)
  BY <1>8, <1>9 DEF ChunkOf, RowsOf
<1> QED  BY <1>1, <1>2, <1>3, <1>4, <1>5, <1>6, <1>7, <1>8, <1>9, <1>10, <1>11

LEMMA SameAnswer ==
  ASSUME UNCHANGED <<table_, plan>>
  PROVE  /\ UnorderedAnswer' = UnorderedAnswer
         /\ \A c : SortThrows(c)' <=> SortThrows(c)
         /\ \A c : sort_chunk(c)' = sort_chunk(c)
         /\ ColumnMissing' <=> ColumnMissing
         /\ WhereFails' <=> WhereFails
         /\ GroupFails' <=> GroupFails
         /\ \A H, G, C : GroupsOf(H, G, C)' <=> GroupsOf(H, G, C)
         /\ \A cs, C : KeptIn(cs, C)' <=> KeptIn(cs, C)
<1>1. /\ table_' = table_ /\ stmt' = stmt
      /\ project_cols_' = project_cols_ /\ agg_specs_' = agg_specs_
      /\ Rows' = Rows /\ Passing' = Passing /\ (Grouped' <=> Grouped)
      /\ Columns' = Columns /\ RowAt' = RowAt /\ KeyAt' = KeyAt
      /\ \A S : RowsOf(S)' = RowsOf(S)
  BY SameRows
<1>2. UnorderedAnswer' = UnorderedAnswer
  <2>1. \A r : KeyOf(r)' = KeyOf(r)  BY <1>1 DEF KeyOf
  <2>2. \A r : GroupOf(r)' = GroupOf(r)  BY <1>1, <2>1 DEF GroupOf
  <2>3. FirstRows' = FirstRows  BY <1>1, <2>2 DEF FirstRows
  <2>4. \A item, S : AggregateOf(item, S)' = AggregateOf(item, S)
    BY <1>1 DEF AggregateOf
  <2>5. \A specs : GroupColumns(specs)' = GroupColumns(specs)
    BY <1>1 DEF GroupColumns
  <2>6. AggItems(stmt)' = AggItems(stmt) /\ project_cols(stmt)' = project_cols(stmt)
        /\ Selected(table_, Passing)' = Selected(table_, Passing)
        /\ InOrder[FirstRows]' = InOrder[FirstRows]
    BY <1>1, <2>3
  <2> QED  BY <1>1, <2>1, <2>2, <2>3, <2>4, <2>5, <2>6 DEF UnorderedAnswer
<1>3. \A c : SortThrows(c)' <=> SortThrows(c)  BY <1>1 DEF SortThrows
<1>4. \A c : sort_chunk(c)' = sort_chunk(c)
  BY <1>1 DEF sort_chunk, stable_sort, Comes
<1>5. ColumnMissing' <=> ColumnMissing  BY <1>1 DEF ColumnMissing
<1>6. WhereFails' <=> WhereFails  BY <1>1 DEF WhereFails
<1>7. GroupFails' <=> GroupFails  BY <1>1 DEF GroupFails, Aggregable
<1>8. \A H, G, C : GroupsOf(H, G, C)' <=> GroupsOf(H, G, C)
  BY <1>1 DEF GroupsOf, States, IsState, NumberOf, Sharing, FirstOf, KeyOf
<1>9. \A cs, C : KeptIn(cs, C)' <=> KeptIn(cs, C)
  BY <1>1 DEF KeptIn, RowSet
<1> QED  BY <1>2, <1>3, <1>4, <1>5, <1>6, <1>7, <1>8, <1>9

----------------------------------------------------------------------------
(* The invariant: where the rows of the table are at each step *)

\* No row up to the n-th makes the filter throw.
Clear(n) == \A r \in Rows : r <= n => ~CondsThrow(Schema, table_[r], stmt.where)
NoneFails == ~ColumnMissing /\ ~WhereFails /\ ~GroupFails

\* The rows C, and no others, have been consumed.
Consumed(C) ==
  IF Grouped
  THEN /\ chunks = << >>
       /\ GroupsOf(hash_table_, group_order_, C)
       /\ C # {} => Aggregable(Schema, agg_specs_)
  ELSE KeptIn(chunks, C)

Fresh ==
  /\ current_row_ = 0
  /\ hash_table_ = << >> /\ group_order_ = << >> /\ chunks = << >>
Opened ==
  /\ Planned /\ There
  /\ projected_ = [i \in DOMAIN project_cols_ |-> ColumnOf(project_cols_[i])]
Scanning == Consumed(Upto(current_row_)) /\ Clear(current_row_)
Filtering ==
  \E lo \in 0 .. current_row_ :
    /\ chunk = ChunkOf(lo + 1 .. current_row_)
    /\ Consumed(Upto(lo)) /\ Clear(lo)
Consuming ==
  \E C \in SUBSET Upto(current_row_) :
    /\ Upto(current_row_) \ C # {}
    /\ Below(C, Upto(current_row_) \ C)
    /\ chunk = ChunkOf(Upto(current_row_) \ C)
    /\ Consumed(C) /\ Clear(current_row_)
Producing == Grouped /\ Consumed(Passing) /\ NoneFails

\* The chunks are the answer, before it is sorted and after.
Answered(cs) ==
  \/ cs = << >> /\ Passing = {}
  \/ cs # << >> /\ Passing # {} /\ merge(cs) = UnorderedAnswer
Final ==
  IF Passing # {} /\ Ordered THEN sort_chunk(UnorderedAnswer) ELSE UnorderedAnswer
Merging ==
  /\ NoneFails /\ ~OrderFails
  /\ IF Ordered
     THEN chunks = IF Passing = {} THEN << >> ELSE <<Final>>
     ELSE Answered(chunks)

Phase ==
  /\ pc \in {"idle", "open"} => Fresh
  /\ pc \notin {"idle", "error"} => Planned
  /\ pc \in {"scan", "filter", "consume"} => Opened /\ ~ColumnMissing
  /\ pc = "scan" => Scanning
  /\ pc = "filter" => Filtering
  /\ pc = "consume" => Consuming
  /\ pc = "produce" => Producing
  /\ pc = "sort" => Ordered /\ NoneFails /\ Answered(chunks)
  /\ pc = "merge" => Merging
  /\ pc = "done" => NoneFails /\ ~OrderFails /\ result = Final
  /\ pc = "error" => Fails
Within ==
  /\ table_ \in Tables
  /\ current_row_ \in 0 .. Len(table_)
  /\ pc \in {"idle", "open", "scan", "filter", "consume", "produce", "sort",
             "merge", "done", "error"}
IInv == Within /\ Phase

LEMMA SameParts ==
  ASSUME UNCHANGED <<table_, plan>>
  PROVE  /\ NoneFails' <=> NoneFails
         /\ OrderFails' <=> OrderFails
         /\ \A n : Clear(n)' <=> Clear(n)
         /\ \A cs : Answered(cs)' <=> Answered(cs)
         /\ Final' = Final
         /\ UNCHANGED <<hash_table_, group_order_, chunks>> =>
              \A C : Consumed(C)' <=> Consumed(C)
         /\ (Aggregable(Schema, agg_specs_)' <=> Aggregable(Schema, agg_specs_))
<1>1. /\ table_' = table_ /\ stmt' = stmt /\ agg_specs_' = agg_specs_
      /\ Rows' = Rows /\ Passing' = Passing
      /\ (Grouped' <=> Grouped) /\ (Ordered' <=> Ordered)
  BY SameRows
<1>2. /\ UnorderedAnswer' = UnorderedAnswer
      /\ \A c : SortThrows(c)' <=> SortThrows(c)
      /\ \A c : sort_chunk(c)' = sort_chunk(c)
      /\ ColumnMissing' <=> ColumnMissing
      /\ WhereFails' <=> WhereFails
      /\ GroupFails' <=> GroupFails
      /\ \A H, G, C : GroupsOf(H, G, C)' <=> GroupsOf(H, G, C)
      /\ \A cs, C : KeptIn(cs, C)' <=> KeptIn(cs, C)
  BY SameAnswer
<1>3. NoneFails' <=> NoneFails  BY <1>2 DEF NoneFails
<1>4. OrderFails' <=> OrderFails  BY <1>1, <1>2 DEF OrderFails
<1>5. \A n : Clear(n)' <=> Clear(n)  BY <1>1 DEF Clear
<1>6. \A cs : Answered(cs)' <=> Answered(cs)  BY <1>1, <1>2 DEF Answered
<1>7. Final' = Final  BY <1>1, <1>2 DEF Final
<1>8. Aggregable(Schema, agg_specs_)' <=> Aggregable(Schema, agg_specs_)
  BY <1>1 DEF Aggregable
<1>9. ASSUME UNCHANGED <<hash_table_, group_order_, chunks>>, NEW C
      PROVE  Consumed(C)' <=> Consumed(C)
  BY <1>1, <1>2, <1>8, <1>9 DEF Consumed
<1> QED  BY <1>3, <1>4, <1>5, <1>6, <1>7, <1>8, <1>9

LEMMA MissingIs ==
  ASSUME Planned  PROVE ColumnMissing <=> ~There
  BY DEF Planned, ColumnMissing, There

\* At the start nothing has been consumed.
LEMMA NothingConsumed ==
  ASSUME Fresh, table_ \in Tables  PROVE Consumed({}) /\ Clear(0) /\ Upto(0) = {}
<1>1. \A r \in Rows : ~(r <= 0)
  <2>1. \A r \in Rows : r \in 1 .. Len(table_) /\ Len(table_) \in Nat  BY RowsAre
  <2> QED  BY <2>1
<1>2. Clear(0) /\ Upto(0) = {}  BY <1>1, RowsAre DEF Clear, Upto
<1>3. GroupsOf(<< >>, << >>, {})
  <2>1. States(<< >>, {})  BY DEF States
  <2>2. FirstOf({}) = {}  BY DEF FirstOf
  <2>3. << >> = Selected(KeyAt, FirstOf({}))  BY <2>2, SelectedNone
  <2>4. CountOf(<< >>) = 0
    <3>1. PICK f : f = [k \in DOMAIN << >> |-> << >>[k][1].count]  OBVIOUS
    <3>2. f \in [{} -> Int]  BY <3>1
    <3> QED  BY <3>1, <3>2, SumOf, FS_EmptySet DEF CountOf
  <2>5. Cardinality({}) = 0  BY FS_EmptySet
  <2> QED  BY <2>1, <2>3, <2>4, <2>5 DEF GroupsOf
<1> QED  BY <1>2, <1>3, NothingKept DEF Consumed, Fresh

\* When every row has been scanned.
LEMMA AllScanned ==
  ASSUME table_ \in Tables, Planned, There, Consumed(Upto(Len(table_))),
         Clear(Len(table_))
  PROVE  Upto(Len(table_)) = Passing /\ NoneFails
<1>1. \A r \in Rows : r <= Len(table_)
  <2>1. \A r \in Rows : r \in 1 .. Len(table_) /\ Len(table_) \in Nat  BY RowsAre
  <2> QED  BY <2>1
<1>2. Upto(Len(table_)) = Passing  BY <1>1, RowsAre DEF Upto
<1>3. ~WhereFails  BY <1>1 DEF Clear, WhereFails
<1>4. ~ColumnMissing  BY MissingIs
<1>5. ~GroupFails  BY <1>2 DEF GroupFails, Consumed, Planned
<1> QED  BY <1>2, <1>3, <1>4, <1>5 DEF NoneFails

\* The rows of an answer are a sequence.
LEMMA AnswerShape ==
  ASSUME table_ \in Tables
  PROVE  \E n \in Nat : /\ DOMAIN UnorderedAnswer.rows = 1 .. n
                        /\ UnorderedAnswer = [cols |-> UnorderedAnswer.cols,
                                              rows |-> UnorderedAnswer.rows]
<1>1. CASE Passing = {}
  <2>1. UnorderedAnswer = NoChunk  BY <1>1 DEF UnorderedAnswer
  <2>2. DOMAIN UnorderedAnswer.rows = 1 .. 0  BY <2>1 DEF NoChunk
  <2> QED  BY <2>1, <2>2 DEF NoChunk
<1>2. CASE Passing # {} /\ Grouped
  <2>1. PICK first : first = InOrder[FirstRows]  OBVIOUS
  <2>2. \E cols, R : UnorderedAnswer = [cols |-> cols, rows |-> [i \in DOMAIN first |-> R[i]]]
    <3>1. PICK aggs : aggs = AggItems(stmt)  OBVIOUS
    <3>2. PICK R : R = [i \in DOMAIN first |->
                          <<KeyOf(first[i])>>
                          \o [a \in DOMAIN aggs |->
                                AggregateOf(aggs[a], GroupOf(first[i]))]]
      OBVIOUS
    <3>3. UnorderedAnswer = [cols |-> GroupColumns(aggs), rows |-> R]
      BY <1>2, <2>1, <3>1, <3>2 DEF UnorderedAnswer
    <3>4. R = [i \in DOMAIN first |-> R[i]]  BY <3>2
    <3> QED  BY <3>3, <3>4
  <2>3. FirstRows \in SUBSET Nat /\ IsFiniteSet(FirstRows)
    <3>1. FirstRows \in SUBSET Rows  BY RowsAre DEF FirstRows
    <3> QED  BY <3>1, RowsAre
  <2>4. first \in Seq(FirstRows)  BY <2>1, <2>3, SelectedAt
  <2>5. Len(first) \in Nat /\ DOMAIN first = 1 .. Len(first)  BY <2>4
  <2>6. PICK cols, R : UnorderedAnswer = [cols |-> cols,
                                          rows |-> [i \in DOMAIN first |-> R[i]]]
    BY <2>2
  <2>7. DOMAIN UnorderedAnswer.rows = 1 .. Len(first)  BY <2>5, <2>6
  <2>8. UnorderedAnswer = [cols |-> UnorderedAnswer.cols, rows |-> UnorderedAnswer.rows]
    BY <2>6
  <2> QED  BY <2>5, <2>7, <2>8
<1>3. CASE Passing # {} /\ ~Grouped
  <2>1. PICK rows : rows = Selected(table_, Passing)  OBVIOUS
  <2>2. \E cols, R : UnorderedAnswer = [cols |-> cols, rows |-> [i \in DOMAIN rows |-> R[i]]]
    <3>1. PICK names : names = project_cols(stmt)  OBVIOUS
    <3>2. PICK R : R = [i \in DOMAIN rows |->
                          [c \in DOMAIN names |-> rows[i][ColumnOf(names[c])]]]
      OBVIOUS
    <3>3. PICK cols : cols = [c \in DOMAIN names |-> Schema[ColumnOf(names[c])]]
      OBVIOUS
    <3>4. UnorderedAnswer = [cols |-> cols, rows |-> R]
      BY <1>3, <2>1, <3>1, <3>2, <3>3 DEF UnorderedAnswer
    <3>5. R = [i \in DOMAIN rows |-> R[i]]  BY <3>2
    <3> QED  BY <3>4, <3>5
  <2>3. Passing \in SUBSET Nat /\ IsFiniteSet(Passing)  BY RowsAre
  <2>4. Cardinality(Passing) \in Nat /\ DOMAIN rows = 1 .. Cardinality(Passing)
    BY <2>1, <2>3, SelectedAt
  <2>5. PICK cols, R : UnorderedAnswer = [cols |-> cols,
                                          rows |-> [i \in DOMAIN rows |-> R[i]]]
    BY <2>2
  <2>6. DOMAIN UnorderedAnswer.rows = 1 .. Cardinality(Passing)  BY <2>4, <2>5
  <2>7. UnorderedAnswer = [cols |-> UnorderedAnswer.cols, rows |-> UnorderedAnswer.rows]
    BY <2>5
  <2> QED  BY <2>4, <2>6, <2>7
<1> QED  BY <1>1, <1>2, <1>3

LEMMA SortedShape ==
  ASSUME table_ \in Tables
  PROVE  merge(<<sort_chunk(UnorderedAnswer)>>) = sort_chunk(UnorderedAnswer)
<1>1. PICK n \in Nat : /\ DOMAIN UnorderedAnswer.rows = 1 .. n
                       /\ UnorderedAnswer = [cols |-> UnorderedAnswer.cols,
                                             rows |-> UnorderedAnswer.rows]
  BY AnswerShape
<1>2. PICK c : c = UnorderedAnswer  OBVIOUS
<1>3. PICK rows : rows = stable_sort(c)  OBVIOUS
<1>4. \E R : rows = [k \in 1 .. n |-> R[k]]
  <2>1. DOMAIN c.rows = 1 .. n  BY <1>1, <1>2
  <2>2. DOMAIN rows = 1 .. n /\ rows = [k \in DOMAIN rows |-> rows[k]]
    BY <1>3, <2>1 DEF stable_sort
  <2> QED  BY <2>2
<1>5. PICK W : rows \in Seq(W)
  <2>1. PICK R : rows = [k \in 1 .. n |-> R[k]]  BY <1>4
  <2>2. PICK U : U = {R[k] : k \in 1 .. n}  OBVIOUS
  <2>3. rows \in [1 .. n -> U]  BY <2>1, <2>2
  <2>4. rows \in Seq(U)  BY <2>3
  <2> QED  BY <2>4
<1>6. sort_chunk(c) = [cols |-> c.cols, rows |-> rows]
  BY <1>1, <1>2, <1>3 DEF sort_chunk
<1> QED  BY <1>2, <1>5, <1>6, MergeOne

----------------------------------------------------------------------------
(* One step at a time *)

LEMMA StartInv ==
  ASSUME Init  PROVE IInv
<1>1. table_ \in Tables /\ pc = "idle" /\ current_row_ = 0 /\ hash_table_ = << >>
      /\ group_order_ = << >> /\ chunks = << >>
  BY DEF Init
<1>2. Len(table_) \in Nat  BY <1>1, RowsAre
<1>3. Within  BY <1>1, <1>2 DEF Within
<1>4. Fresh  BY <1>1 DEF Fresh
<1> QED  BY <1>1, <1>3, <1>4 DEF IInv, Phase

LEMMA PlanInv ==
  ASSUME IInv, NEW s \in Stmts, Plan(s)  PROVE IInv'
<1>1. pc = "idle" /\ Fresh /\ Within  BY DEF IInv, Phase, Plan
<1>2. pc' = "open" /\ UNCHANGED <<table_, current_row_, hash_table_, group_order_, chunks>>
  BY DEF Plan
<1>3. Within'  BY <1>1, <1>2 DEF Within
<1>4. Fresh'  BY <1>1, <1>2 DEF Fresh
<1>5. Planned'
  <2>1. stmt' = s /\ project_cols_' = project_cols(s) /\ agg_specs_' = AggItems(s)
    BY DEF Plan
  <2> QED  BY <2>1 DEF Planned
<1> QED  BY <1>2, <1>3, <1>4, <1>5 DEF IInv, Phase

\* What stays when a statement is under way.
LEMMA StaysWithin ==
  ASSUME Within, UNCHANGED <<table_, plan, current_row_>>, pc # "idle",
         pc' \in {"scan", "filter", "consume", "produce", "sort", "merge",
                  "done", "error"}, Phase, pc # "error"
  PROVE  Within' /\ Planned' /\ Planned /\ table_ \in Tables
<1>1. Planned' <=> Planned  BY SameRows
<1>2. table_' = table_ /\ current_row_' = current_row_
  BY DEF plan
<1>3. Within'  BY <1>2 DEF Within
<1> QED  BY <1>1, <1>3 DEF Within, Phase

LEMMA OpenInv ==
  ASSUME IInv, Open  PROVE IInv'
<1>1. pc = "open" /\ Fresh /\ Within /\ Phase  BY DEF IInv, Phase, Open
<1>2. UNCHANGED <<table_, plan>>
      /\ UNCHANGED <<current_row_, hash_table_, group_order_, chunks>>
  BY DEF Open
<1>3. pc' \in {"scan", "error"}  BY DEF Open, Throw
<1>4. Within' /\ Planned' /\ Planned /\ table_ \in Tables
  BY <1>1, <1>2, <1>3, StaysWithin
<1>5. projected_' = [i \in DOMAIN project_cols_ |-> ColumnOf(project_cols_[i])]
  BY DEF Open, ColumnOf
<1>6. (\A i \in DOMAIN projected_' : projected_'[i] # NotFound) <=> There
  BY <1>5 DEF There
<1>7. CASE There
  <2>1. pc' = "scan"  BY <1>6, <1>7 DEF Open
  <2>2. There' /\ project_cols_' = project_cols_  BY <1>2, <1>7, SameRows
  <2>3. Opened'  BY <1>4, <1>5, <2>2 DEF Opened, ColumnOf
  <2>4. ~ColumnMissing'  BY <1>2, <1>4, <1>7, MissingIs, SameAnswer
  <2>5. Consumed({}) /\ Clear(0) /\ Upto(0) = {}
    BY <1>1, <1>4, NothingConsumed
  <2>6. current_row_ = 0 /\ current_row_' = 0  BY <1>1, <1>2 DEF Fresh
  <2>7. Consumed({})' /\ Clear(0)' /\ Upto(0)' = {}
    BY <1>2, <2>5, SameParts, SameRows
  <2>8. Scanning'  BY <2>6, <2>7 DEF Scanning
  <2> QED  BY <1>4, <2>1, <2>3, <2>4, <2>8 DEF IInv, Phase
<1>8. CASE ~There
  <2>1. pc' = "error"  BY <1>6, <1>8 DEF Open, Throw
  <2>2. ColumnMissing'  BY <1>2, <1>4, <1>8, MissingIs, SameAnswer
  <2> QED  BY <1>4, <2>1, <2>2 DEF IInv, Phase, Fails
<1> QED  BY <1>7, <1>8

\* A batch goes up: to the filter, or straight to the consumer.
LEMMA ScanNextInv ==
  ASSUME IInv, ScanNext  PROVE IInv'
<1>1. pc = "scan" /\ Within /\ Phase /\ Opened /\ ~ColumnMissing /\ Scanning
  BY DEF IInv, Phase, ScanNext
<1>2. UNCHANGED <<table_, plan>> /\ UNCHANGED <<hash_table_, group_order_, chunks>>
      /\ projected_' = projected_
  BY DEF ScanNext
<1>3. table_ \in Tables /\ Planned /\ There  BY <1>1 DEF Within, Opened
<1>4. projected_ = [i \in DOMAIN project_cols_ |-> ColumnOf(project_cols_[i])]
  BY <1>1 DEF Opened
<1>5. PICK row : row = current_row_  OBVIOUS
<1>6. PICK end : end = batch_end(row)  OBVIOUS
<1>7. Len(table_) \in Nat  BY <1>3, RowsAre
<1>8. row \in Nat /\ row < Len(table_)
  <2>1. row \in 0 .. Len(table_) /\ row < Len(table_)  BY <1>1, <1>5 DEF Within, ScanNext
  <2> QED  BY <1>7, <2>1
<1>9. /\ end \in Nat /\ row < end /\ end <= Len(table_)
      /\ Batch(row) = RowsOf(row + 1 .. end)
  BY <1>3, <1>4, <1>6, <1>8, BatchIs
<1>10. current_row_' = end  BY <1>5, <1>6 DEF ScanNext
<1>11. chunk' = ChunkOf(row + 1 .. end)
  <2>1. chunk' = [cols |-> [i \in DOMAIN projected_ |-> Schema[projected_[i]]],
                  rows |-> Batch(row)]
    BY <1>5 DEF ScanNext
  <2>2. [i \in DOMAIN projected_ |-> Schema[projected_[i]]] = Columns
    BY <1>4 DEF Columns
  <2> QED  BY <1>9, <2>1, <2>2 DEF ChunkOf
<1>12. Within'
  <2>1. end \in 0 .. Len(table_)  BY <1>7, <1>9
  <2>2. table_' = table_  BY <1>2
  <2>3. pc' \in {"consume", "filter"}  BY DEF ScanNext
  <2> QED  BY <1>3, <1>10, <2>1, <2>2, <2>3 DEF Within
<1>13. Opened' /\ ~ColumnMissing' /\ Planned'
  <2>1. Planned' /\ There'  BY <1>2, <1>3, SameRows
  <2>2. ~ColumnMissing'  BY <1>1, <1>2, SameAnswer
  <2>3. projected_' = [i \in DOMAIN project_cols_' |-> ColumnOf(project_cols_'[i])]
    BY <1>2, <1>4, SameRows
  <2> QED  BY <2>1, <2>2, <2>3 DEF Opened, ColumnOf
<1>14. Consumed(Upto(row)) /\ Clear(row)  BY <1>1, <1>5 DEF Scanning
<1>15. CASE stmt.where = << >>
  <2>1. pc' = "consume"  BY <1>15 DEF ScanNext
  <2>2. \A r \in Rows : r \in Passing /\ ~CondsThrow(Schema, table_[r], stmt.where)
    BY <1>15 DEF Passing, CondsHold, CondsThrow
  <2>3. Clear(end)  BY <2>2 DEF Clear
  <2>4. Upto(row) \in SUBSET Upto(end)
    <3>1. \A r \in Passing : r \in Nat  BY <1>3, RowsAre
    <3>2. \A r \in Passing : r <= row => r <= end
      <4>1. \A r \in Nat : r <= row => r <= end  BY <1>8, <1>9
      <4> QED  BY <3>1, <4>1
    <3> QED  BY <3>2 DEF Upto
  <2>5. Upto(end) \ Upto(row) = row + 1 .. end
    <3>1. Rows = 1 .. Len(table_) /\ Passing = Rows
      BY <1>3, <2>2, RowsAre
    <3>2. Upto(end) = {r \in 1 .. Len(table_) : r <= end}
          /\ Upto(row) = {r \in 1 .. Len(table_) : r <= row}
      BY <3>1 DEF Upto
    <3> QED  BY <1>7, <1>8, <1>9, <3>2
  <2>6. row + 1 .. end # {}
    <3>1. end \in row + 1 .. end  BY <1>8, <1>9
    <3> QED  BY <3>1
  <2>7. Below(Upto(row), row + 1 .. end)
    <3>1. \A x \in Upto(row) : x \in Nat /\ x <= row  BY <1>3, RowsAre DEF Upto
    <3>2. \A x \in Nat, y \in row + 1 .. end : x <= row => x < y
      BY <1>8, <1>9
    <3> QED  BY <3>1, <3>2 DEF Below
  <2>8. /\ Upto(row)' = Upto(row) /\ Upto(end)' = Upto(end)
        /\ ChunkOf(row + 1 .. end)' = ChunkOf(row + 1 .. end)
    BY <1>2, SameRows
  <2>9. Consumed(Upto(row))' /\ Clear(end)'
    <3>1. \A C : Consumed(C)' <=> Consumed(C)  BY <1>2, SameParts
    <3>2. Clear(end)' <=> Clear(end)  BY <1>2, SameParts
    <3> QED  BY <1>14, <2>3, <3>1, <3>2, <2>8
  <2>10. Consuming'
    <3>1. PICK C : C = Upto(row)  OBVIOUS
    <3>2. /\ C \in SUBSET Upto(end) /\ Upto(end) \ C # {}
          /\ Below(C, Upto(end) \ C)
          /\ Upto(end) \ C = row + 1 .. end
      BY <2>4, <2>5, <2>6, <2>7, <3>1
    <3>3. Consumed(C)'  BY <2>8, <2>9, <3>1
    <3>4. Upto(current_row_)' = Upto(end) /\ Clear(current_row_)'
      BY <1>10, <2>8, <2>9
    <3>5. chunk' = ChunkOf(Upto(end) \ C)'  BY <1>11, <2>8, <3>2
    <3> QED  BY <2>8, <3>2, <3>3, <3>4, <3>5 DEF Consuming, Below
  <2> QED  BY <1>12, <1>13, <2>1, <2>10 DEF IInv, Phase
<1>16. CASE stmt.where # << >>
  <2>1. pc' = "filter"  BY <1>16 DEF ScanNext
  <2>2. row \in 0 .. end  BY <1>8, <1>9
  <2>3. Consumed(Upto(row))' /\ Clear(row)' /\ Upto(row)' = Upto(row)
    <3>1. \A C : Consumed(C)' <=> Consumed(C)  BY <1>2, SameParts
    <3>2. Clear(row)' <=> Clear(row)  BY <1>2, SameParts
    <3>3. Upto(row)' = Upto(row)  BY <1>2, SameRows
    <3> QED  BY <1>14, <3>1, <3>2, <3>3
  <2>4. ChunkOf(row + 1 .. end)' = ChunkOf(row + 1 .. end)  BY <1>2, SameRows
  <2>5. Filtering'  BY <1>10, <1>11, <2>2, <2>3, <2>4 DEF Filtering
  <2> QED  BY <1>12, <1>13, <2>1, <2>5 DEF IInv, Phase
<1> QED  BY <1>15, <1>16

LEMMA ScanExhaustedInv ==
  ASSUME IInv, ScanExhausted  PROVE IInv'
<1>1. pc = "scan" /\ Within /\ Phase /\ Opened /\ ~ColumnMissing /\ Scanning
  BY DEF IInv, Phase, ScanExhausted
<1>2. UNCHANGED <<table_, plan>> /\ UNCHANGED <<hash_table_, group_order_, chunks>>
      /\ current_row_' = current_row_
  BY DEF ScanExhausted
<1>3. table_ \in Tables /\ Planned /\ There  BY <1>1 DEF Within, Opened
<1>4. pc' \in {"produce", "sort", "merge"}  BY DEF ScanExhausted
<1>5. Within' /\ Planned'  BY <1>1, <1>2, <1>4, StaysWithin
<1>6. current_row_ = Len(table_)
  <2>1. Len(table_) \in Nat  BY <1>3, RowsAre
  <2>2. current_row_ \in 0 .. Len(table_) /\ current_row_ >= Len(table_)
    BY <1>1 DEF Within, ScanExhausted
  <2> QED  BY <2>1, <2>2
<1>7. Consumed(Upto(Len(table_))) /\ Clear(Len(table_))
  BY <1>1, <1>6 DEF Scanning
<1>8. Upto(Len(table_)) = Passing /\ NoneFails  BY <1>3, <1>7, AllScanned
<1>9. Consumed(Passing)  BY <1>7, <1>8
<1>10. NoneFails' /\ Passing' = Passing /\ (Grouped' <=> Grouped)
       /\ (Ordered' <=> Ordered) /\ chunks' = chunks
  BY <1>2, <1>8, SameParts, SameRows
<1>11. CASE Grouped
  <2>1. pc' = "produce"  BY <1>11 DEF ScanExhausted
  <2>2. Consumed(Passing)'  BY <1>2, <1>9, <1>10, SameParts
  <2> QED  BY <1>5, <1>10, <1>11, <2>1, <2>2 DEF IInv, Phase, Producing
<1>12. CASE ~Grouped
  <2>1. KeptIn(chunks, Passing)  BY <1>9, <1>12 DEF Consumed
  <2>2. Answered(chunks)  BY <1>3, <1>12, <2>1, KeptAnswer DEF Answered
  <2>3. Answered(chunks)'
    <3>1. \A cs : Answered(cs)' <=> Answered(cs)  BY <1>2, SameParts
    <3> QED  BY <1>10, <2>2, <3>1
  <2>4. CASE Ordered
    <3>1. pc' = "sort"  BY <1>12, <2>4 DEF ScanExhausted
    <3> QED  BY <1>5, <1>10, <2>3, <2>4, <3>1 DEF IInv, Phase
  <2>5. CASE ~Ordered
    <3>1. pc' = "merge"  BY <1>12, <2>5 DEF ScanExhausted
    <3>2. ~OrderFails'  BY <1>10, <2>5 DEF OrderFails
    <3>3. Merging'  BY <1>10, <2>3, <2>5, <3>2 DEF Merging
    <3> QED  BY <1>5, <3>1, <3>3 DEF IInv, Phase
  <2> QED  BY <2>4, <2>5
<1> QED  BY <1>11, <1>12

\* The rows of the batch that is being filtered.
LEMMA BatchRows ==
  ASSUME table_ \in Tables, NEW lo \in Nat, NEW n \in Nat, lo <= n,
         n <= Len(table_)
  PROVE  /\ lo + 1 .. n \in SUBSET Rows
         /\ Upto(n) = Upto(lo) \cup ((lo + 1 .. n) \cap Passing)
         /\ Upto(n) \ Upto(lo) = (lo + 1 .. n) \cap Passing
         /\ Below(Upto(lo), (lo + 1 .. n) \cap Passing)
         /\ Upto(lo) \in SUBSET Upto(n)
<1>1. Len(table_) \in Nat /\ Rows = 1 .. Len(table_) /\ Passing \in SUBSET Rows
  BY RowsAre
<1>2. lo + 1 .. n \in SUBSET Rows
  <2>1. \A x \in lo + 1 .. n : x \in 1 .. Len(table_)  BY <1>1
  <2> QED  BY <1>1, <2>1
<1>3. \A r \in Passing : r \in Nat /\ (r <= n <=> r <= lo \/ r \in lo + 1 .. n)
                         /\ ~(r <= lo /\ r \in lo + 1 .. n)
  <2>1. \A r \in Nat : (r <= n <=> r <= lo \/ r \in lo + 1 .. n)
                         /\ ~(r <= lo /\ r \in lo + 1 .. n)
    OBVIOUS
  <2>2. \A r \in Passing : r \in Nat  BY RowsAre
  <2> QED  BY <2>1, <2>2
<1>4. Upto(n) = Upto(lo) \cup ((lo + 1 .. n) \cap Passing)  BY <1>3 DEF Upto
<1>5. Upto(n) \ Upto(lo) = (lo + 1 .. n) \cap Passing  BY <1>3 DEF Upto
<1>6. Below(Upto(lo), (lo + 1 .. n) \cap Passing)
  <2>1. \A x \in Upto(lo) : x \in Nat /\ x <= lo  BY <1>3 DEF Upto
  <2>2. \A x \in Nat, y \in lo + 1 .. n : x <= lo => x < y  OBVIOUS
  <2> QED  BY <2>1, <2>2 DEF Below
<1> QED  BY <1>2, <1>4, <1>5, <1>6

\* A batch of which no row throws, or one that does.
LEMMA ClearGrows ==
  ASSUME table_ \in Tables, NEW lo \in Nat, NEW n \in Nat, Clear(lo),
         \A r \in lo + 1 .. n : ~CondsThrow(Schema, table_[r], stmt.where)
  PROVE  Clear(n)
<1>1. \A r \in Rows : r <= n => r <= lo \/ r \in lo + 1 .. n
  <2>1. \A r \in Rows : r \in Nat  BY RowsAre
  <2>2. \A r \in Nat : r <= n => r <= lo \/ r \in lo + 1 .. n  OBVIOUS
  <2> QED  BY <2>1, <2>2
<1> QED  BY <1>1 DEF Clear

LEMMA FilterNextInv ==
  ASSUME IInv, FilterNext  PROVE IInv'
<1>1. pc = "filter" /\ Within /\ Phase /\ Opened /\ ~ColumnMissing /\ Filtering
  BY DEF IInv, Phase, FilterNext
<1>2. UNCHANGED <<table_, plan>> /\ UNCHANGED <<hash_table_, group_order_, chunks>>
      /\ current_row_' = current_row_ /\ projected_' = projected_
  BY DEF FilterNext
<1>3. table_ \in Tables /\ Planned /\ There  BY <1>1 DEF Within, Opened
<1>4. PICK n : n = current_row_  OBVIOUS
<1>5. PICK lo \in 0 .. n : /\ chunk = ChunkOf(lo + 1 .. n)
                           /\ Consumed(Upto(lo)) /\ Clear(lo)
  BY <1>1, <1>4 DEF Filtering
<1>6. Len(table_) \in Nat  BY <1>3, RowsAre
<1>7. n \in Nat /\ n <= Len(table_)
  <2>1. n \in 0 .. Len(table_)  BY <1>1, <1>4 DEF Within
  <2> QED  BY <1>6, <2>1
<1>8. lo \in Nat /\ lo <= n  BY <1>5, <1>7
<1>9. PICK S : S = lo + 1 .. n  OBVIOUS
<1>10. /\ S \in SUBSET Rows
       /\ Upto(n) = Upto(lo) \cup (S \cap Passing)
       /\ Upto(n) \ Upto(lo) = S \cap Passing
       /\ Below(Upto(lo), S \cap Passing)
       /\ Upto(lo) \in SUBSET Upto(n)
  BY <1>3, <1>7, <1>8, <1>9, BatchRows
<1>11. chunk = ChunkOf(S)  BY <1>5, <1>9
<1>12. PICK sel : sel = RowsOf(S \cap Passing)  OBVIOUS
<1>13. pc' = AfterFilter(sel) /\ chunk' = ChunkOf(S \cap Passing)
  <2>1. Selected(RowsOf(S), {k \in DOMAIN RowsOf(S) :
                               CondsHold(Columns, RowsOf(S)[k], stmt.where)}) = sel
    BY <1>3, <1>10, <1>12, FilterIs
  <2>2. chunk.cols = Columns /\ chunk.rows = RowsOf(S)  BY <1>11 DEF ChunkOf
  <2>3. pc' = AfterFilter(sel) /\ chunk' = [chunk EXCEPT !.rows = sel]
    BY <2>1, <2>2 DEF FilterNext
  <2>4. [chunk EXCEPT !.rows = sel] = ChunkOf(S \cap Passing)
    BY <1>11, <1>12 DEF ChunkOf
  <2> QED  BY <2>3, <2>4
<1>14. Clear(n)
  <2>1. ~BatchThrows(ChunkOf(S))  BY <1>11 DEF FilterNext
  <2>2. \A r \in S : ~CondsThrow(Schema, table_[r], stmt.where)
    BY <1>3, <1>10, <2>1, FilterIs
  <2>3. \A r \in lo + 1 .. n : ~CondsThrow(Schema, table_[r], stmt.where)
    BY <1>9, <2>2
  <2> QED  BY <1>3, <1>5, <1>7, <1>8, <2>3, ClearGrows
<1>15. pc' \in {"scan", "consume"}  BY <1>13 DEF AfterFilter
<1>16. Within' /\ Planned'  BY <1>1, <1>2, <1>15, StaysWithin
<1>17. Opened' /\ ~ColumnMissing'
  <2>1. Planned' /\ There'  BY <1>2, <1>3, SameRows
  <2>2. ~ColumnMissing'  BY <1>1, <1>2, SameAnswer
  <2>3. projected_' = [i \in DOMAIN project_cols_' |-> ColumnOf(project_cols_'[i])]
    BY <1>1, <1>2, SameRows DEF Opened
  <2> QED  BY <2>1, <2>2, <2>3 DEF Opened, ColumnOf
<1>18. /\ \A C : Consumed(C)' <=> Consumed(C)
       /\ \A k : Clear(k)' <=> Clear(k)
       /\ \A k : Upto(k)' = Upto(k)
       /\ \A T : ChunkOf(T)' = ChunkOf(T)
  BY <1>2, SameParts, SameRows
<1>19. current_row_' = n  BY <1>2, <1>4
<1>20. (S \cap Passing # {}) <=> sel # << >>
  <2>1. S \cap Passing \in SUBSET Rows  BY <1>10
  <2> QED  BY <1>3, <1>12, <2>1, RowsOfTyped
<1>21. CASE S \cap Passing = {}
  <2>1. pc' = "scan"  BY <1>13, <1>20, <1>21 DEF AfterFilter
  <2>2. Upto(n) = Upto(lo)  BY <1>10, <1>21
  <2>3. Scanning'  BY <1>5, <1>14, <1>18, <1>19, <2>2 DEF Scanning
  <2> QED  BY <1>16, <1>17, <2>1, <2>3 DEF IInv, Phase
<1>22. CASE S \cap Passing # {}
  <2>1. pc' = "consume"  BY <1>13, <1>20, <1>22 DEF AfterFilter
  <2>2. PICK C : C = Upto(lo)  OBVIOUS
  <2>3. PICK D : D = Upto(n)  OBVIOUS
  <2>4. /\ C \in SUBSET D /\ D \ C # {} /\ Below(C, D \ C)
        /\ D \ C = S \cap Passing
    BY <1>10, <1>22, <2>2, <2>3
  <2>5. Consumed(C)' /\ Clear(n)'  BY <1>5, <1>14, <1>18, <2>2
  <2>6. Upto(current_row_)' = D  BY <1>18, <1>19, <2>3
  <2>7. chunk' = ChunkOf(D \ C)'  BY <1>13, <1>18, <2>4
  <2>8. Clear(current_row_)'  BY <1>19, <2>5
  <2>9. Consuming'  BY <2>4, <2>5, <2>6, <2>7, <2>8 DEF Consuming, Below
  <2> QED  BY <1>16, <1>17, <2>1, <2>9 DEF IInv, Phase
<1> QED  BY <1>21, <1>22

LEMMA FilterThrowsInv ==
  ASSUME IInv, FilterThrows  PROVE IInv'
<1>1. pc = "filter" /\ Within /\ Phase /\ Opened /\ Filtering
  BY DEF IInv, Phase, FilterThrows
<1>2. UNCHANGED <<table_, plan>> /\ current_row_' = current_row_ /\ pc' = "error"
  BY DEF FilterThrows, Throw
<1>3. table_ \in Tables /\ Planned /\ There  BY <1>1 DEF Within, Opened
<1>4. PICK n : n = current_row_  OBVIOUS
<1>5. PICK lo \in 0 .. n : chunk = ChunkOf(lo + 1 .. n)
  BY <1>1, <1>4 DEF Filtering
<1>6. Len(table_) \in Nat  BY <1>3, RowsAre
<1>7. n \in Nat /\ n <= Len(table_)
  <2>1. n \in 0 .. Len(table_)  BY <1>1, <1>4 DEF Within
  <2> QED  BY <1>6, <2>1
<1>8. lo \in Nat /\ lo <= n  BY <1>5, <1>7
<1>9. lo + 1 .. n \in SUBSET Rows  BY <1>3, <1>7, <1>8, BatchRows
<1>10. BatchThrows(ChunkOf(lo + 1 .. n))  BY <1>5 DEF FilterThrows
<1>11. WhereFails  BY <1>3, <1>9, <1>10, FilterIs DEF WhereFails
<1>12. WhereFails'  BY <1>2, <1>11, SameAnswer
<1>13. Within'  BY <1>1, <1>2, StaysWithin
<1> QED  BY <1>2, <1>12, <1>13 DEF IInv, Phase, Fails

LEMMA AccumulateInv ==
  ASSUME IInv, Accumulate  PROVE IInv'
<1>1. pc = "consume" /\ Within /\ Phase /\ Opened /\ ~ColumnMissing /\ Consuming
      /\ Grouped
  BY DEF IInv, Phase, Accumulate
<1>2. UNCHANGED <<table_, plan>> /\ chunks' = chunks
      /\ current_row_' = current_row_ /\ projected_' = projected_
  BY DEF Accumulate
<1>3. table_ \in Tables /\ Planned /\ There  BY <1>1 DEF Within, Opened
<1>4. PICK n : n = current_row_  OBVIOUS
<1>5. PICK D : D = Upto(n)  OBVIOUS
<1>6. PICK C \in SUBSET D :
        /\ D \ C # {} /\ Below(C, D \ C) /\ chunk = ChunkOf(D \ C)
        /\ Consumed(C) /\ Clear(n)
  BY <1>1, <1>4, <1>5 DEF Consuming
<1>7. PICK S : S = D \ C  OBVIOUS
<1>8. D \in SUBSET Rows /\ S \in SUBSET Rows /\ C \in SUBSET Rows /\ S # {}
  BY <1>3, <1>5, <1>6, <1>7, RowsAre DEF Upto
<1>9. PICK r \in S : /\ \A q \in S \ {r} : r < q
                     /\ Head(RowsOf(S)) = RowAt[r]
                     /\ Tail(RowsOf(S)) = RowsOf(S \ {r})
                     /\ Len(RowsOf(S)) > 1 <=> S \ {r} # {}
  BY <1>3, <1>8, FirstRow
<1>10. chunk = ChunkOf(S) /\ chunk.cols = Columns /\ chunk.rows = RowsOf(S)
  BY <1>6, <1>7 DEF ChunkOf
<1>11. Aggregable(Columns, agg_specs_)  BY <1>10 DEF Accumulate
<1>12. Aggregable(Schema, agg_specs_)  BY <1>1, <1>3, <1>11, AggregableSame
<1>13. GroupsOf(hash_table_, group_order_, C) /\ chunks = << >>
  BY <1>1, <1>6 DEF Consumed
<1>14. \A q \in C : q < r  BY <1>6, <1>7, <1>9 DEF Below
<1>15. GroupsOf(hash_table_', group_order_', C \cup {r})
  <2>1. GroupsOf(AccumulateRow(Columns, RowAt[r]),
                 Seen(group_order_, GroupKey(Columns, RowAt[r])), C \cup {r})
    BY <1>1, <1>3, <1>8, <1>9, <1>12, <1>13, <1>14, GroupsGrow
  <2>2. /\ hash_table_' = AccumulateRow(Columns, RowAt[r])
        /\ group_order_' = Seen(group_order_, GroupKey(Columns, RowAt[r]))
    BY <1>9, <1>10 DEF Accumulate
  <2> QED  BY <2>1, <2>2
<1>16. /\ (Grouped' <=> Grouped)
       /\ (Aggregable(Schema, agg_specs_)' <=> Aggregable(Schema, agg_specs_))
       /\ \A H, G, X : GroupsOf(H, G, X)' <=> GroupsOf(H, G, X)
       /\ \A k : Clear(k)' <=> Clear(k)
       /\ \A k : Upto(k)' = Upto(k)
       /\ \A T : ChunkOf(T)' = ChunkOf(T)
  BY <1>2, SameParts, SameRows, SameAnswer
<1>17. PICK E : E = C \cup {r}  OBVIOUS
<1>18. Consumed(E)'
  BY <1>1, <1>2, <1>12, <1>13, <1>15, <1>16, <1>17 DEF Consumed
<1>19. pc' \in {"scan", "consume"}  BY <1>1 DEF Accumulate
<1>20. Within' /\ Planned'  BY <1>1, <1>2, <1>19, StaysWithin
<1>21. Opened' /\ ~ColumnMissing'
  <2>1. Planned' /\ There'  BY <1>2, <1>3, SameRows
  <2>2. ~ColumnMissing'  BY <1>1, <1>2, SameAnswer
  <2>3. projected_' = [i \in DOMAIN project_cols_' |-> ColumnOf(project_cols_'[i])]
    BY <1>1, <1>2, SameRows DEF Opened
  <2> QED  BY <2>1, <2>2, <2>3 DEF Opened, ColumnOf
<1>22. current_row_' = n /\ Clear(n)' /\ Upto(n)' = D
  BY <1>2, <1>4, <1>5, <1>6, <1>16
<1>23. CASE S \ {r} = {}
  <2>1. pc' = "scan"  BY <1>9, <1>10, <1>23 DEF Accumulate
  <2>2. E = D  BY <1>6, <1>7, <1>9, <1>17, <1>23
  <2>3. Scanning'  BY <1>18, <1>22, <2>2 DEF Scanning
  <2> QED  BY <1>20, <1>21, <2>1, <2>3 DEF IInv, Phase
<1>24. CASE S \ {r} # {}
  <2>1. pc' = "consume" /\ chunk' = [chunk EXCEPT !.rows = Tail(@)]
    BY <1>1, <1>9, <1>10, <1>24 DEF Accumulate
  <2>2. E \in SUBSET D /\ D \ E = S \ {r}  BY <1>6, <1>7, <1>9, <1>17
  <2>3. chunk' = ChunkOf(D \ E)  BY <1>9, <1>10, <2>1, <2>2 DEF ChunkOf
  <2>4. Below(E, D \ E)
    <3>1. \A x \in C, y \in S : x < y  BY <1>6, <1>7 DEF Below
    <3>2. \A y \in S \ {r} : r < y  BY <1>9
    <3> QED  BY <1>17, <2>2, <3>1, <3>2 DEF Below
  <2>5. chunk' = ChunkOf(D \ E)' /\ Upto(current_row_)' = D /\ Clear(current_row_)'
    BY <1>16, <1>22, <2>3
  <2>6. Consuming'  BY <1>18, <1>24, <2>2, <2>4, <2>5 DEF Consuming, Below
  <2> QED  BY <1>20, <1>21, <2>1, <2>6 DEF IInv, Phase
<1> QED  BY <1>23, <1>24

LEMMA AccumulateThrowsInv ==
  ASSUME IInv, AccumulateThrows  PROVE IInv'
<1>1. pc = "consume" /\ Within /\ Phase /\ Opened /\ Consuming /\ Grouped
  BY DEF IInv, Phase, AccumulateThrows
<1>2. UNCHANGED <<table_, plan>> /\ current_row_' = current_row_ /\ pc' = "error"
  BY DEF AccumulateThrows, Throw
<1>3. table_ \in Tables /\ Planned /\ There  BY <1>1 DEF Within, Opened
<1>4. PICK C \in SUBSET Upto(current_row_) :
        /\ Upto(current_row_) \ C # {}
        /\ chunk = ChunkOf(Upto(current_row_) \ C)
  BY <1>1 DEF Consuming
<1>5. chunk.cols = Columns  BY <1>4 DEF ChunkOf
<1>6. ~Aggregable(Columns, agg_specs_)  BY <1>5 DEF AccumulateThrows
<1>7. ~Aggregable(Schema, agg_specs_)  BY <1>1, <1>3, <1>6, AggregableSame
<1>8. Passing # {}  BY <1>4 DEF Upto
<1>9. GroupFails  BY <1>1, <1>3, <1>7, <1>8 DEF GroupFails, Planned
<1>10. GroupFails'  BY <1>2, <1>9, SameAnswer
<1>11. Within'  BY <1>1, <1>2, StaysWithin
<1> QED  BY <1>2, <1>10, <1>11 DEF IInv, Phase, Fails

LEMMA CollectInv ==
  ASSUME IInv, Collect  PROVE IInv'
<1>1. pc = "consume" /\ Within /\ Phase /\ Opened /\ ~ColumnMissing /\ Consuming
      /\ ~Grouped
  BY DEF IInv, Phase, Collect
<1>2. UNCHANGED <<table_, plan>> /\ current_row_' = current_row_
      /\ projected_' = projected_ /\ pc' = "scan" /\ chunks' = Append(chunks, chunk)
  BY DEF Collect
<1>3. table_ \in Tables /\ Planned /\ There  BY <1>1 DEF Within, Opened
<1>4. PICK n : n = current_row_  OBVIOUS
<1>5. PICK D : D = Upto(n)  OBVIOUS
<1>6. PICK C \in SUBSET D :
        /\ D \ C # {} /\ Below(C, D \ C) /\ chunk = ChunkOf(D \ C)
        /\ Consumed(C) /\ Clear(n)
  BY <1>1, <1>4, <1>5 DEF Consuming
<1>7. PICK S : S = D \ C  OBVIOUS
<1>8. S \in SUBSET Rows /\ C \in SUBSET Rows /\ S # {} /\ C \cup S = D
      /\ Below(C, S) /\ chunk = ChunkOf(S)
  BY <1>3, <1>5, <1>6, <1>7, RowsAre DEF Upto
<1>9. KeptIn(chunks, C)  BY <1>1, <1>6 DEF Consumed
<1>10. KeptIn(Append(chunks, ChunkOf(S)), C \cup S)
  BY <1>3, <1>8, <1>9, KeptGrows
<1>11. KeptIn(chunks', D)  BY <1>2, <1>8, <1>10
<1>12. /\ (Grouped' <=> Grouped)
       /\ \A cs, X : KeptIn(cs, X)' <=> KeptIn(cs, X)
       /\ \A k : Clear(k)' <=> Clear(k)
       /\ \A k : Upto(k)' = Upto(k)
  BY <1>2, SameParts, SameRows, SameAnswer
<1>13. Consumed(D)'  BY <1>1, <1>11, <1>12 DEF Consumed
<1>14. Within' /\ Planned'  BY <1>1, <1>2, StaysWithin
<1>15. Opened' /\ ~ColumnMissing'
  <2>1. Planned' /\ There'  BY <1>2, <1>3, SameRows
  <2>2. ~ColumnMissing'  BY <1>1, <1>2, SameAnswer
  <2>3. projected_' = [i \in DOMAIN project_cols_' |-> ColumnOf(project_cols_'[i])]
    BY <1>1, <1>2, SameRows DEF Opened
  <2> QED  BY <2>1, <2>2, <2>3 DEF Opened, ColumnOf
<1>16. current_row_' = n /\ Clear(n)' /\ Upto(n)' = D
  BY <1>2, <1>4, <1>5, <1>6, <1>12
<1>17. Scanning'  BY <1>13, <1>16 DEF Scanning
<1> QED  BY <1>2, <1>14, <1>15, <1>17 DEF IInv, Phase

LEMMA ProduceResultInv ==
  ASSUME IInv, ProduceResult  PROVE IInv'
<1>1. pc = "produce" /\ Within /\ Phase /\ Planned /\ Producing
  BY DEF IInv, Phase, ProduceResult
<1>2. UNCHANGED <<table_, plan>> /\ current_row_' = current_row_
      /\ chunks' = Produced
  BY DEF ProduceResult, Produced
<1>3. pc' \in {"sort", "merge"}  BY DEF ProduceResult
<1>4. Within' /\ Planned' /\ table_ \in Tables  BY <1>1, <1>2, <1>3, StaysWithin
<1>5. Grouped /\ NoneFails /\ GroupsOf(hash_table_, group_order_, Passing)
      /\ (Passing # {} => Aggregable(Schema, agg_specs_))
  BY <1>1 DEF Producing, Consumed
<1>6. Answered(Produced)  BY <1>1, <1>4, <1>5, GroupsAnswer DEF Answered
<1>7. Answered(chunks)'
  <2>1. \A cs : Answered(cs)' <=> Answered(cs)  BY <1>2, SameParts
  <2> QED  BY <1>2, <1>6, <2>1
<1>8. NoneFails' /\ (Ordered' <=> Ordered)  BY <1>2, <1>5, SameParts, SameRows
<1>9. CASE Ordered
  <2>1. pc' = "sort"  BY <1>9 DEF ProduceResult
  <2> QED  BY <1>4, <1>7, <1>8, <1>9, <2>1 DEF IInv, Phase
<1>10. CASE ~Ordered
  <2>1. pc' = "merge"  BY <1>10 DEF ProduceResult
  <2>2. ~OrderFails'  BY <1>8, <1>10 DEF OrderFails
  <2>3. Merging'  BY <1>7, <1>8, <1>10, <2>2 DEF Merging
  <2> QED  BY <1>4, <2>1, <2>3 DEF IInv, Phase
<1> QED  BY <1>9, <1>10

LEMMA SortNextInv ==
  ASSUME IInv, SortNext  PROVE IInv'
<1>1. pc = "sort" /\ Within /\ Phase /\ Planned /\ Ordered /\ NoneFails
      /\ Answered(chunks)
  BY DEF IInv, Phase, SortNext
<1>2. UNCHANGED <<table_, plan>> /\ current_row_' = current_row_ /\ pc' = "merge"
  BY DEF SortNext
<1>3. Within' /\ Planned'  BY <1>1, <1>2, StaysWithin
<1>4. /\ NoneFails' /\ (Ordered' <=> Ordered) /\ (OrderFails' <=> OrderFails)
      /\ Final' = Final /\ Passing' = Passing
  BY <1>1, <1>2, SameParts, SameRows
<1>5. CASE chunks = << >>
  <2>1. Passing = {}  BY <1>1, <1>5 DEF Answered
  <2>2. chunks' = << >>  BY <1>5 DEF SortNext
  <2>3. ~SortThrows(UnorderedAnswer)
    <3>1. UnorderedAnswer.rows = << >>  BY <2>1 DEF UnorderedAnswer, NoChunk
    <3> QED  BY <3>1 DEF SortThrows
  <2>4. ~OrderFails  BY <2>3 DEF OrderFails
  <2>5. Merging'  BY <1>1, <1>4, <2>1, <2>2, <2>4 DEF Merging
  <2> QED  BY <1>2, <1>3, <2>5 DEF IInv, Phase
<1>6. CASE chunks # << >>
  <2>1. Passing # {} /\ merge(chunks) = UnorderedAnswer  BY <1>1, <1>6 DEF Answered
  <2>2. ~SortThrows(UnorderedAnswer) /\ chunks' = <<sort_chunk(UnorderedAnswer)>>
    BY <1>6, <2>1 DEF SortNext
  <2>3. ~OrderFails  BY <2>2 DEF OrderFails
  <2>4. chunks' = <<Final>>  BY <1>1, <2>1, <2>2 DEF Final
  <2>5. Merging'  BY <1>1, <1>4, <2>1, <2>3, <2>4 DEF Merging
  <2> QED  BY <1>2, <1>3, <2>5 DEF IInv, Phase
<1> QED  BY <1>5, <1>6

LEMMA SortThrowsUpInv ==
  ASSUME IInv, SortThrowsUp  PROVE IInv'
<1>1. pc = "sort" /\ Within /\ Phase /\ Ordered /\ Answered(chunks)
  BY DEF IInv, Phase, SortThrowsUp
<1>2. UNCHANGED <<table_, plan>> /\ current_row_' = current_row_ /\ pc' = "error"
  BY DEF SortThrowsUp, Throw
<1>3. Within'  BY <1>1, <1>2, StaysWithin
<1>4. merge(chunks) = UnorderedAnswer  BY <1>1 DEF Answered, SortThrowsUp
<1>5. OrderFails  BY <1>1, <1>4 DEF OrderFails, SortThrowsUp
<1>6. OrderFails'  BY <1>2, <1>5, SameParts
<1> QED  BY <1>2, <1>3, <1>6 DEF IInv, Phase, Fails

LEMMA DrainedInv ==
  ASSUME IInv, Drained  PROVE IInv'
<1>1. pc = "merge" /\ Within /\ Phase /\ Merging  BY DEF IInv, Phase, Drained
<1>2. UNCHANGED <<table_, plan>> /\ current_row_' = current_row_ /\ pc' = "done"
      /\ result' = IF chunks = << >> THEN NoChunk ELSE merge(chunks)
  BY DEF Drained
<1>3. Within' /\ Planned' /\ table_ \in Tables  BY <1>1, <1>2, StaysWithin
<1>4. result' = Final
  <2>1. CASE Passing = {}
    <3>1. chunks = << >>  BY <1>1, <2>1 DEF Merging, Answered
    <3>2. Final = NoChunk  BY <2>1 DEF Final, UnorderedAnswer
    <3> QED  BY <1>2, <3>1, <3>2
  <2>2. CASE Passing # {} /\ Ordered
    <3>1. Final = sort_chunk(UnorderedAnswer)  BY <2>2 DEF Final
    <3>2. chunks = <<sort_chunk(UnorderedAnswer)>>  BY <1>1, <2>2, <3>1 DEF Merging
    <3>3. chunks # << >>  BY <3>2
    <3>4. merge(chunks) = sort_chunk(UnorderedAnswer)  BY <1>3, <3>2, SortedShape
    <3> QED  BY <1>2, <3>1, <3>3, <3>4
  <2>3. CASE Passing # {} /\ ~Ordered
    <3>1. chunks # << >> /\ merge(chunks) = UnorderedAnswer
      BY <1>1, <2>3 DEF Merging, Answered
    <3>2. Final = UnorderedAnswer  BY <2>3 DEF Final
    <3> QED  BY <1>2, <3>1, <3>2
  <2> QED  BY <2>1, <2>2, <2>3
<1>5. NoneFails' /\ ~OrderFails' /\ Final' = Final
  BY <1>1, <1>2, SameParts DEF Merging
<1> QED  BY <1>2, <1>3, <1>4, <1>5 DEF IInv, Phase

\* Nothing happens.
LEMMA StutterInv ==
  ASSUME IInv, UNCHANGED vars  PROVE IInv'
<1>1. UNCHANGED <<table_, plan>> /\ pc' = pc /\ current_row_' = current_row_
      /\ projected_' = projected_ /\ chunk' = chunk /\ hash_table_' = hash_table_
      /\ group_order_' = group_order_ /\ chunks' = chunks /\ result' = result
  BY DEF vars
<1>2. UNCHANGED <<hash_table_, group_order_, chunks>>  BY <1>1
<1>3. /\ (Planned' <=> Planned) /\ (There' <=> There) /\ (Ordered' <=> Ordered)
      /\ (Grouped' <=> Grouped) /\ Passing' = Passing /\ table_' = table_
      /\ project_cols_' = project_cols_
      /\ \A k : Upto(k)' = Upto(k)
      /\ \A T : ChunkOf(T)' = ChunkOf(T)
  BY <1>1, SameRows
<1>4. /\ (NoneFails' <=> NoneFails) /\ (OrderFails' <=> OrderFails)
      /\ \A k : Clear(k)' <=> Clear(k)
      /\ \A cs : Answered(cs)' <=> Answered(cs)
      /\ Final' = Final
      /\ \A C : Consumed(C)' <=> Consumed(C)
  BY <1>1, <1>2, SameParts
<1>5. (ColumnMissing' <=> ColumnMissing) /\ (Fails' <=> Fails)
  BY <1>1, <1>4, SameAnswer DEF Fails
<1>6. Within' <=> Within  BY <1>1, <1>3 DEF Within
<1>7. Fresh' <=> Fresh  BY <1>1 DEF Fresh
<1>8. Opened' <=> Opened  BY <1>1, <1>3 DEF Opened, ColumnOf
<1>9. Scanning' <=> Scanning  BY <1>1, <1>3, <1>4 DEF Scanning
<1>10. Filtering' <=> Filtering  BY <1>1, <1>3, <1>4 DEF Filtering
<1>11. Consuming => Consuming'
  <2>1. PICK D : D = Upto(current_row_)  OBVIOUS
  <2>2. D = Upto(current_row_)'  BY <1>1, <1>3, <2>1
  <2>3. \A T : chunk = ChunkOf(T) => chunk' = ChunkOf(T)'  BY <1>1, <1>3
  <2>4. Clear(current_row_) => Clear(current_row_)'  BY <1>1, <1>4
  <2> QED  BY <1>4, <2>1, <2>2, <2>3, <2>4 DEF Consuming, Below
<1>12. Producing' <=> Producing  BY <1>3, <1>4 DEF Producing
<1>13. Merging' <=> Merging  BY <1>1, <1>3, <1>4 DEF Merging
<1>14. Answered(chunks)' <=> Answered(chunks)  BY <1>1, <1>4
<1> QED
  BY <1>1, <1>3, <1>4, <1>5, <1>6, <1>7, <1>8, <1>9, <1>10, <1>11, <1>12,
     <1>13, <1>14 DEF IInv, Phase

LEMMA StepInv ==
  ASSUME IInv, [Next]_vars  PROVE IInv'
<1>1. CASE \E s \in Stmts : Plan(s)  BY <1>1, PlanInv
<1>2. CASE Open  BY <1>2, OpenInv
<1>3. CASE ScanNext  BY <1>3, ScanNextInv
<1>4. CASE ScanExhausted  BY <1>4, ScanExhaustedInv
<1>5. CASE FilterNext  BY <1>5, FilterNextInv
<1>6. CASE FilterThrows  BY <1>6, FilterThrowsInv
<1>7. CASE Accumulate  BY <1>7, AccumulateInv
<1>8. CASE AccumulateThrows  BY <1>8, AccumulateThrowsInv
<1>9. CASE Collect  BY <1>9, CollectInv
<1>10. CASE ProduceResult  BY <1>10, ProduceResultInv
<1>11. CASE SortNext  BY <1>11, SortNextInv
<1>12. CASE SortThrowsUp  BY <1>12, SortThrowsUpInv
<1>13. CASE Drained  BY <1>13, DrainedInv
<1>14. CASE UNCHANGED vars  BY <1>14, StutterInv
<1> QED
  BY <1>1, <1>2, <1>3, <1>4, <1>5, <1>6, <1>7, <1>8, <1>9, <1>10, <1>11, <1>12,
     <1>13, <1>14 DEF Next

LEMMA AlwaysInv == Spec => []IInv
<1>1. Init => IInv  BY StartInv
<1>2. IInv /\ [Next]_vars => IInv'  BY StepInv
<1> QED  BY <1>1, <1>2, PTL DEF Spec

----------------------------------------------------------------------------
(* The results *)

\* Whether a SELECT fails depends on the statement and the rows, not on how
\* the rows fall into batches: ScanOperator, FilterOperator, AggregateOperator
\* and SortOperator throw exactly if the table as a whole gives them a reason.
THEOREM ErrorsOfTheTable == Spec => []ErrorsAreWhole
<1>1. IInv => ErrorsAreWhole
  BY DEF IInv, Phase, ErrorsAreWhole, NoneFails, Fails
<1> QED  BY <1>1, AlwaysInv, PTL

\* The answer that drain returns for a SELECT without ORDER BY, unless it has
\* aggregates and no GROUP BY, is the answer over the whole table, for every
\* batch size: no row is lost, repeated or moved at the edge of a batch, by the
\* filter or by the hash table.
THEOREM AnswerOfTheTable == Spec => []AnswerIsWhole
<1>1. IInv => AnswerIsWhole
  BY DEF IInv, Phase, AnswerIsWhole, Final
<1> QED  BY <1>1, AlwaysInv, PTL

\* Between two batches every passing row that has been scanned is in exactly
\* one collected chunk, or counted in exactly one group of the hash table.
THEOREM RowsAreAccountedFor == Spec => []NoRowInBetween
<1>1. ASSUME IInv, pc = "scan"  PROVE NoRowInBetween
  <2>1. PICK scanned : scanned = Upto(current_row_)  OBVIOUS
  <2>2. Planned /\ Consumed(scanned)
    BY <1>1, <2>1 DEF IInv, Phase, Opened, Scanning
  <2>3. scanned = {r \in Passing : r <= current_row_}  BY <2>1 DEF Upto
  <2>4. CASE ~Grouped
    <3>1. SumFunction([i \in DOMAIN chunks |-> Len(chunks[i].rows)]) = Cardinality(scanned)
      BY <2>2, <2>4 DEF Consumed, KeptIn, LengthsIn
    <3> QED  BY <2>3, <2>4, <3>1 DEF NoRowInBetween
  <2>5. CASE Grouped
    <3>1. GroupsOf(hash_table_, group_order_, scanned)  BY <2>2, <2>5 DEF Consumed
    <3>2. DOMAIN hash_table_ = {KeyOf(r) : r \in scanned}
      BY <3>1 DEF GroupsOf, States
    <3>3. AggItems(stmt) # << >> =>
            SumFunction([k \in DOMAIN hash_table_ |-> hash_table_[k][1].count])
              = Cardinality(scanned)
      BY <2>2, <3>1 DEF GroupsOf, CountOf, Planned
    <3> QED  BY <2>3, <2>5, <3>2, <3>3 DEF NoRowInBetween
  <2> QED  BY <2>4, <2>5
<1>2. IInv => NoRowInBetween  BY <1>1 DEF NoRowInBetween
<1> QED  BY <1>2, AlwaysInv, PTL

----------------------------------------------------------------------------
(* Cells: every chunk is rectangular, and typed by its columns *)

IsCell(x, type) == x.type = type /\ x.n \in Int /\ x.d \in Nat \ {0}
Cells(c, n, m) ==
  /\ DOMAIN c.rows = 1 .. n
  /\ DOMAIN c.cols = 1 .. m /\ Len(c.cols) = m
  /\ \A r \in 1 .. n : DOMAIN c.rows[r] = 1 .. m
  /\ \A r \in 1 .. n, i \in 1 .. m : IsCell(c.rows[r][i], c.cols[i].type)
IsTyped(c) == \E n, m \in Nat : Cells(c, n, m)

LEMMA NoChunkTyped == IsTyped(NoChunk)
<1>1. Cells(NoChunk, 0, 0)  BY DEF Cells, NoChunk
<1> QED  BY <1>1 DEF IsTyped

LEMMA ChunkTyped ==
  ASSUME table_ \in Tables, Planned, There, NEW S \in SUBSET Rows
  PROVE  IsTyped(ChunkOf(S))
<1>1. PICK n : n = Cardinality(S)  OBVIOUS
<1>2. PICK m : m = Len(Columns)  OBVIOUS
<1>3. n \in Nat /\ DOMAIN RowsOf(S) = 1 .. n
      /\ RowsOf(S) = [k \in 1 .. n |-> RowAt[InOrder[S][k]]]
      /\ \A k \in 1 .. n : InOrder[S][k] \in S
  BY <1>1, RowsOfTyped
<1>4. m \in Nat /\ DOMAIN Columns = 1 .. m /\ DOMAIN project_cols_ = 1 .. m
  BY <1>2, ColumnsAre
<1>5. ASSUME NEW r \in 1 .. n  PROVE DOMAIN RowsOf(S)[r] = 1 .. m
  <2>1. PICK q \in Rows : RowsOf(S)[r] = RowAt[q]  BY <1>3
  <2> QED  BY <1>4, <2>1 DEF RowAt
<1>6. ASSUME NEW r \in 1 .. n, NEW i \in 1 .. m
      PROVE  IsCell(RowsOf(S)[r][i], Columns[i].type)
  <2>1. PICK q \in Rows : RowsOf(S)[r] = RowAt[q]  BY <1>3
  <2>2. PICK k \in DOMAIN Schema : k = ColumnOf(project_cols_[i]) /\ Columns[i] = Schema[k]
    BY <1>4, ColumnsAre
  <2>3. RowAt[q][i] = table_[q][k]  BY <1>4, <2>2 DEF RowAt
  <2>4. table_[q][k].type = Schema[k].type /\ table_[q][k].d = 1
        /\ table_[q][k].n \in Int
    BY CellIs
  <2> QED  BY <2>1, <2>2, <2>3, <2>4 DEF IsCell
<1>7. Cells(ChunkOf(S), n, m)
  BY <1>2, <1>3, <1>4, <1>5, <1>6 DEF Cells, ChunkOf
<1> QED  BY <1>3, <1>4, <1>7 DEF IsTyped

TypeOf(item) == IF item.agg = "COUNT" THEN "INT64" ELSE "FLOAT64"

LEMMA AggregateTyped ==
  ASSUME table_ \in Tables, NEW item, ColumnOf(item.col) # NotFound,
         item.agg \in {"SUM", "COUNT", "MIN", "MAX", "AVG"},
         NEW S \in SUBSET Rows, S # {}
  PROVE  IsCell(AggregateOf(item, S), TypeOf(item))
<1>1. PICK number : number = [r \in S |-> NumberOf(item.col, r)]  OBVIOUS
<1>2. PICK numbers : numbers = {number[r] : r \in S}  OBVIOUS
<1>3. number = [r \in S |-> table_[r][ColumnOf(item.col)].n]
  BY <1>1 DEF NumberOf
<1>4. AggregateOf(item, S) =
        CASE item.agg = "SUM"   -> V("FLOAT64", SumFunction(number))
          [] item.agg = "COUNT" -> V("INT64", Cardinality(S))
          [] item.agg = "MIN"   -> V("FLOAT64", Min(numbers))
          [] item.agg = "MAX"   -> V("FLOAT64", Max(numbers))
          [] item.agg = "AVG"   -> [type |-> "FLOAT64",
                                    n |-> SumFunction(number),
                                    d |-> Cardinality(S)]
  BY <1>2, <1>3 DEF AggregateOf
<1>5. \A r \in S : number[r] \in Int /\ -DblMax <= number[r] /\ number[r] <= DblMax
  BY <1>1, NumberIs
<1>6. numbers \subseteq Int /\ numbers # {}
      /\ (\A x \in numbers : -DblMax <= x) /\ \A x \in numbers : x <= DblMax
  BY <1>2, <1>5
<1>7. DblMax \in Int /\ -DblMax \in Int  BY DblMaxAssumption
<1>8. PICK low : low = -DblMax  OBVIOUS
<1>9. Min(numbers) \in Int
  <2>1. low \in Int /\ \A x \in numbers : low <= x  BY <1>6, <1>7, <1>8
  <2>2. Min(numbers) \in numbers  BY <1>6, <2>1, MinIs
  <2> QED  BY <1>6, <2>2
<1>10. Max(numbers) \in Int
  <2>1. Max(numbers) \in numbers  BY <1>6, <1>7, MaxIs
  <2> QED  BY <1>6, <2>1
<1>11. IsFiniteSet(S) /\ Cardinality(S) \in Nat  BY RowsAre
<1>12. Cardinality(S) \in Nat \ {0}  BY <1>11, FS_EmptySet
<1>13. SumFunction(number) \in Int
  <2>1. number \in [S -> Int]  BY <1>1, <1>5
  <2> QED  BY <1>11, <2>1, SumOf
<1>14. \A type, n : n \in Int => IsCell(V(type, n), type)  BY DEF IsCell, V
<1>15. Cardinality(S) \in Int  BY <1>11
<1>16. CASE item.agg = "AVG"
  BY <1>4, <1>12, <1>13, <1>16 DEF IsCell, TypeOf
<1>17. CASE item.agg = "SUM"  BY <1>4, <1>13, <1>14, <1>17 DEF TypeOf
<1>18. CASE item.agg = "COUNT"  BY <1>4, <1>14, <1>15, <1>18 DEF TypeOf
<1>19. CASE item.agg = "MIN"  BY <1>4, <1>9, <1>14, <1>19 DEF TypeOf
<1>20. CASE item.agg = "MAX"  BY <1>4, <1>10, <1>14, <1>20 DEF TypeOf
<1> QED  BY <1>16, <1>17, <1>18, <1>19, <1>20

LEMMA AnswerTyped ==
  ASSUME table_ \in Tables, Planned, NoneFails
  PROVE  IsTyped(UnorderedAnswer)
<1>1. There  BY MissingIs DEF NoneFails
<1>2. CASE Passing = {}
  BY <1>2, NoChunkTyped DEF UnorderedAnswer
<1>3. CASE Passing # {} /\ ~Grouped
  <2>1. UnorderedAnswer = ChunkOf(Passing)  BY <1>3, PlainAnswer
  <2> QED  BY <1>1, <2>1, ChunkTyped, RowsAre
<1>4. CASE Passing # {} /\ Grouped
  <2>1. PICK F : F = FirstRows  OBVIOUS
  <2>2. F \in SUBSET Rows /\ F \in SUBSET Passing /\ F \in SUBSET Nat /\ IsFiniteSet(F)
    <3>1. F \in SUBSET Passing /\ Passing \in SUBSET Rows  BY <2>1, RowsAre DEF FirstRows
    <3> QED  BY <3>1, RowsAre
  <2>3. PICK first : first = InOrder[F]  OBVIOUS
  <2>4. PICK n : n = Cardinality(F)  OBVIOUS
  <2>5. n \in Nat /\ first \in Seq(F) /\ Len(first) = n
        /\ \A k \in 1 .. n : first[k] \in F
    BY <2>2, <2>3, <2>4, SelectedAt, InOrderIs
  <2>6. DOMAIN first = 1 .. n  BY <2>5
  <2>7. PICK aggs : aggs = AggItems(stmt)  OBVIOUS
  <2>8. PICK m : m \in Nat /\ DOMAIN aggs = 1 .. m
                 /\ \A a \in 1 .. m : aggs[a].agg \in {"SUM", "COUNT", "MIN", "MAX", "AVG"}
    <3>1. PICK X : X = [agg : {"SUM", "COUNT", "MIN", "MAX", "AVG"},
                        col : STRING, alias : STRING]
      OBVIOUS
    <3>2. stmt \in StmtType  BY StmtsAssumption DEF Planned
    <3>3. aggs \in Seq(X)  BY <2>7, <3>1, <3>2, AggItemsAre
    <3>4. Len(aggs) \in Nat /\ DOMAIN aggs = 1 .. Len(aggs)
          /\ \A a \in 1 .. Len(aggs) : aggs[a] \in X
      BY <3>3, SeqTyped
    <3>5. \A a \in 1 .. Len(aggs) : aggs[a].agg \in {"SUM", "COUNT", "MIN", "MAX", "AVG"}
      BY <3>1, <3>4
    <3> QED  BY <3>4, <3>5
  <2>9. Aggregable(Schema, aggs)  BY <1>4, <2>7 DEF NoneFails, GroupFails
  <2>10. PICK key : key = ColumnOf(stmt.group_by[1])  OBVIOUS
  <2>11. key \in DOMAIN Schema /\ Schema[key].type = "STRING"
    <3>1. key # NotFound /\ Schema[key].type \in {"STRING"}
      BY <2>9, <2>10 DEF Aggregable, ColumnOf
    <3> QED  BY <2>10, <3>1, SchemaIs
  <2>12. \A a \in 1 .. m : ColumnOf(aggs[a].col) # NotFound
    BY <2>8, <2>9 DEF Aggregable, ColumnOf
  <2>13. PICK types : types = [a \in 1 .. m |->
           [name |-> aggs[a].alias, type |-> TypeOf(aggs[a])]]
    OBVIOUS
  <2>14. PICK head : head = [name |-> stmt.group_by[1], type |-> "STRING"]  OBVIOUS
  <2>15. PICK cols : cols = GroupColumns(aggs)  OBVIOUS
  <2>16. cols = <<head>> \o types
    BY <2>8, <2>13, <2>14, <2>15 DEF GroupColumns, TypeOf
  <2>17. Follow(cols, head, types, m)
    <3>1. types = [a \in 1 .. m |-> types[a]]  BY <2>13
    <3> QED  BY <2>8, <2>16, <3>1, Followed
  <2>18. PICK rows : rows = [i \in DOMAIN first |->
                      <<KeyOf(first[i])>>
                      \o [a \in DOMAIN aggs |->
                            AggregateOf(aggs[a], GroupOf(first[i]))]]
    OBVIOUS
  <2>19. UnorderedAnswer = [cols |-> cols, rows |-> rows]
    BY <1>4, <2>1, <2>3, <2>7, <2>15, <2>18 DEF UnorderedAnswer
  <2>20. ASSUME NEW k \in 1 .. n
         PROVE  /\ DOMAIN rows[k] = 1 .. m + 1
                /\ \A i \in 1 .. m + 1 : IsCell(rows[k][i], cols[i].type)
    <3>1. PICK r : r = first[k]  OBVIOUS
    <3>2. r \in Rows /\ r \in Passing  BY <2>2, <2>5, <3>1
    <3>3. PICK S : S = GroupOf(r)  OBVIOUS
    <3>4. S \in SUBSET Rows /\ S # {}
      <4>1. r \in S /\ S \in SUBSET Passing  BY <3>2, <3>3 DEF GroupOf
      <4> QED  BY <4>1, RowsAre
    <3>5. PICK x : x = KeyOf(r)  OBVIOUS
    <3>6. PICK f : f = [a \in 1 .. m |-> AggregateOf(aggs[a], S)]  OBVIOUS
    <3>7. rows[k] = <<x>> \o f
      BY <2>6, <2>8, <2>18, <3>1, <3>3, <3>5, <3>6
    <3>8. Follow(rows[k], x, f, m)
      <4>1. f = [a \in 1 .. m |-> f[a]]  BY <3>6
      <4> QED  BY <2>8, <3>7, <4>1, Followed
    <3>9. IsCell(x, "STRING")
      <4>1. x = table_[r][key]  BY <2>10, <3>5 DEF KeyOf
      <4>2. x.type = "STRING" /\ x.d = 1 /\ x.n \in Int
        BY <2>11, <3>2, <4>1, CellIs
      <4> QED  BY <4>2 DEF IsCell
    <3>10. \A a \in 1 .. m : IsCell(f[a], TypeOf(aggs[a]))
      <4> SUFFICES ASSUME NEW a \in 1 .. m  PROVE IsCell(f[a], TypeOf(aggs[a]))
        OBVIOUS
      <4>1. PICK item : item = aggs[a]  OBVIOUS
      <4>2. ColumnOf(item.col) # NotFound
            /\ item.agg \in {"SUM", "COUNT", "MIN", "MAX", "AVG"}
        BY <2>8, <2>12, <4>1
      <4>3. IsCell(AggregateOf(item, S), TypeOf(item))
        BY <3>4, <4>2, AggregateTyped
      <4> QED  BY <3>6, <4>1, <4>3
    <3>11. cols[1].type = "STRING" /\ rows[k][1] = x
      BY <2>14, <2>17, <3>8 DEF Follow
    <3>12. \A a \in 1 .. m : cols[a + 1].type = TypeOf(aggs[a])
                             /\ rows[k][a + 1] = f[a]
      BY <2>13, <2>17, <3>8 DEF Follow
    <3>13. ASSUME NEW i \in 1 .. m + 1  PROVE IsCell(rows[k][i], cols[i].type)
      <4>1. CASE i = 1  BY <3>9, <3>11, <4>1
      <4>2. CASE \E a \in 1 .. m : i = a + 1
        <5>1. PICK a \in 1 .. m : i = a + 1  BY <4>2
        <5> QED  BY <3>10, <3>12, <5>1
      <4> QED  BY <2>17, <4>1, <4>2 DEF Follow
    <3> QED  BY <3>8, <3>13 DEF Follow
  <2>21. DOMAIN rows = 1 .. n  BY <2>6, <2>18
  <2>22. m + 1 \in Nat  BY <2>8
  <2>23. Cells(UnorderedAnswer, n, m + 1)
    <3>1. DOMAIN cols = 1 .. m + 1 /\ Len(cols) = m + 1  BY <2>17 DEF Follow
    <3> QED  BY <2>19, <2>20, <2>21, <3>1 DEF Cells
  <2> QED  BY <2>5, <2>22, <2>23 DEF IsTyped
<1> QED  BY <1>2, <1>3, <1>4

----------------------------------------------------------------------------
(* The comparator of SortOperator: cells of one column, as fractions *)

Frac(x) == IF x.type = "STRING" THEN <<x.n, 1>> ELSE to_double(x)
Under(x, y) == Frac(x)[1] * Frac(y)[2] < Frac(y)[1] * Frac(x)[2]

LEMMA FracIs ==
  ASSUME NEW x, NEW type, IsCell(x, type)
  PROVE  \E p \in Int, q \in Nat \ {0} : Frac(x) = <<p, q>>
  BY DEF Frac, to_double, IsCell

LEMMA CompareIs ==
  ASSUME NEW x, NEW y, NEW type, IsCell(x, type), IsCell(y, type)
  PROVE  compare(x, y) = IF Under(x, y) THEN -1 ELSE IF Under(y, x) THEN 1 ELSE 0
<1>1. x.type = type /\ y.type = type  BY DEF IsCell
<1>2. CASE type = "STRING"
  <2>1. Frac(x) = <<x.n, 1>> /\ Frac(y) = <<y.n, 1>>  BY <1>1, <1>2 DEF Frac
  <2> QED  BY <1>1, <1>2, <2>1 DEF compare, Under
<1>3. CASE type # "STRING"
  <2>1. Frac(x) = to_double(x) /\ Frac(y) = to_double(y)  BY <1>1, <1>3 DEF Frac
  <2> QED  BY <1>1, <1>3, <2>1 DEF compare, Under
<1> QED  BY <1>2, <1>3

LEMMA TimesLess ==
  ASSUME NEW a \in Int, NEW b \in Int, NEW c \in Nat \ {0}
  PROVE  a < b <=> a * c < b * c
<1>1. ASSUME a < b  PROVE a * c < b * c
  <2>1. PICK d \in Nat \ {0} : b = a + d
    <3>1. b - a \in Nat \ {0} /\ b = a + (b - a)  BY <1>1
    <3> QED  BY <3>1
  <2>2. d * c \in Nat \ {0} /\ a * c \in Int  OBVIOUS
  <2>3. b * c = a * c + d * c  BY <2>1
  <2> QED  BY <2>2, <2>3
<1>2. ASSUME b < a  PROVE b * c < a * c
  <2>1. PICK d \in Nat \ {0} : a = b + d
    <3>1. a - b \in Nat \ {0} /\ a = b + (a - b)  BY <1>2
    <3> QED  BY <3>1
  <2>2. d * c \in Nat \ {0} /\ b * c \in Int  OBVIOUS
  <2>3. a * c = b * c + d * c  BY <2>1
  <2> QED  BY <2>2, <2>3
<1>3. a * c \in Int /\ b * c \in Int  OBVIOUS
<1>4. CASE a = b  BY <1>3, <1>4
<1> QED  BY <1>1, <1>2, <1>3, <1>4

\* Of three cells of a column, compared as fractions.
LEMMA UnderOrder ==
  ASSUME NEW x, NEW y, NEW z, NEW type,
         IsCell(x, type), IsCell(y, type), IsCell(z, type)
  PROVE  /\ ~(Under(x, y) /\ Under(y, x))
         /\ Under(x, y) /\ ~Under(z, y) => Under(x, z)
         /\ ~Under(y, x) /\ Under(y, z) => Under(x, z)
<1>1. PICK xp \in Int, xq \in Nat \ {0} : Frac(x) = <<xp, xq>>  BY FracIs
<1>2. PICK yp \in Int, yq \in Nat \ {0} : Frac(y) = <<yp, yq>>  BY FracIs
<1>3. PICK zp \in Int, zq \in Nat \ {0} : Frac(z) = <<zp, zq>>  BY FracIs
<1>4. /\ Under(x, y) <=> xp * yq < yp * xq
      /\ Under(y, x) <=> yp * xq < xp * yq
      /\ Under(y, z) <=> yp * zq < zp * yq
      /\ Under(z, y) <=> zp * yq < yp * zq
      /\ Under(x, z) <=> xp * zq < zp * xq
  BY <1>1, <1>2, <1>3 DEF Under
<1>5. PICK a \in Int, b \in Int : a = xp * yq /\ b = yp * xq
  <2>1. xp * yq \in Int /\ yp * xq \in Int  OBVIOUS
  <2> QED  BY <2>1
<1>6. PICK c \in Int, d \in Int : c = yp * zq /\ d = zp * yq
  <2>1. yp * zq \in Int /\ zp * yq \in Int  OBVIOUS
  <2> QED  BY <2>1
<1>7. PICK e \in Int, f \in Int : e = xp * zq /\ f = zp * xq
  <2>1. xp * zq \in Int /\ zp * xq \in Int  OBVIOUS
  <2> QED  BY <2>1
<1>8. a * zq = e * yq /\ b * zq = c * xq /\ d * xq = f * yq
  BY <1>5, <1>6, <1>7
<1>9. PICK A \in Int, B \in Int, D \in Int : A = a * zq /\ B = b * zq /\ D = d * xq
  <2>1. a * zq \in Int /\ b * zq \in Int /\ d * xq \in Int  OBVIOUS
  <2> QED  BY <2>1
<1>10. (a < b <=> A < B) /\ (b < a <=> B < A)
  BY <1>9, TimesLess
<1>11. (c < d <=> B < D) /\ (d < c <=> D < B)
  <2>1. (c < d <=> c * xq < d * xq) /\ (d < c <=> d * xq < c * xq)  BY TimesLess
  <2> QED  BY <1>8, <1>9, <2>1
<1>12. e < f <=> A < D
  <2>1. e < f <=> e * yq < f * yq  BY TimesLess
  <2> QED  BY <1>8, <1>9, <2>1
<1>13. /\ ~(A < B /\ B < A)
       /\ A < B /\ ~(D < B) => A < D
       /\ ~(B < A) /\ B < D => A < D
  OBVIOUS
<1> QED  BY <1>4, <1>5, <1>6, <1>7, <1>10, <1>11, <1>12, <1>13

\* The first m ORDER BY keys are columns of c.  Either these are all of them,
\* or the next one is not, and no two of its n rows tie on those before it.
Reaches(c, m, n) ==
  /\ m \in Nat /\ Len(stmt.order_by) \in Nat /\ m <= Len(stmt.order_by)
  /\ DOMAIN stmt.order_by = 1 .. Len(stmt.order_by)
  /\ \A i \in 1 .. m : find_column(c.cols, stmt.order_by[i].col) # NotFound
  /\ m # Len(stmt.order_by) =>
       /\ find_column(c.cols, stmt.order_by[m + 1].col) = NotFound
       /\ \A p, q \in 1 .. n : p # q =>
            ~TiesUpTo(c.cols, stmt.order_by, c.rows[p], c.rows[q], m)

LEMMA SortReaches ==
  ASSUME Planned, NEW c, NEW n \in Nat, NEW k \in Nat, Cells(c, n, k),
         ~SortThrows(c)
  PROVE  \E m \in Nat : Reaches(c, m, n)
<1>1. PICK keys : keys = stmt.order_by  OBVIOUS
<1>2. PICK l : l = Len(keys)  OBVIOUS
<1>3. l \in Nat /\ DOMAIN keys = 1 .. l
  <2>1. stmt \in StmtType  BY StmtsAssumption DEF Planned
  <2>2. PICK X : X = [col : STRING, asc : BOOLEAN]  OBVIOUS
  <2>3. keys \in Seq(X)  BY <1>1, <2>1, <2>2 DEF StmtType
  <2> QED  BY <1>2, <2>3, SeqTyped
<1>4. PICK T : T = {i \in Nat : i \in 0 .. l /\
                     (i = l \/ find_column(c.cols, keys[i + 1].col) = NotFound)}
  OBVIOUS
<1>5. T \subseteq Nat /\ T # {}
  <2>1. l \in T  BY <1>3, <1>4
  <2> QED  BY <1>4, <2>1
<1>6. PICK m \in T : \A i \in T : m <= i  BY <1>5, LeastNat
<1>7. m \in Nat /\ m <= l
      /\ (m = l \/ find_column(c.cols, keys[m + 1].col) = NotFound)
  BY <1>3, <1>4
<1>8. ASSUME NEW i \in 1 .. m  PROVE find_column(c.cols, keys[i].col) # NotFound
  <2>1. i - 1 \in Nat /\ i - 1 \in 0 .. l /\ ~(m <= i - 1) /\ i - 1 # l /\ i - 1 + 1 = i
    BY <1>3, <1>7
  <2>2. i - 1 \notin T  BY <1>6, <2>1
  <2>3. find_column(c.cols, keys[i - 1 + 1].col) # NotFound  BY <1>4, <2>1, <2>2
  <2> QED  BY <2>1, <2>3
<1>9. ASSUME m # l, NEW p \in 1 .. n, NEW q \in 1 .. n, p # q
      PROVE  ~TiesUpTo(c.cols, keys, c.rows[p], c.rows[q], m)
  <2>1. PICK i : i = m + 1  OBVIOUS
  <2>2. i \in 1 .. l /\ i - 1 = m  BY <1>3, <1>7, <1>9, <2>1
  <2>3. p \in DOMAIN c.rows /\ q \in DOMAIN c.rows  BY DEF Cells
  <2>4. find_column(c.cols, keys[i].col) = NotFound  BY <1>7, <1>9, <2>1
  <2>5. \A j \in 1 .. i - 1 : find_column(c.cols, keys[j].col) # NotFound
    BY <1>8, <2>2
  <2>6. ~TiesUpTo(c.cols, keys, c.rows[p], c.rows[q], i - 1)
    BY <1>1, <1>3, <1>9, <2>2, <2>3, <2>4, <2>5 DEF SortThrows
  <2> QED  BY <2>2, <2>6
<1>10. Reaches(c, m, n)  BY <1>1, <1>2, <1>3, <1>7, <1>8, <1>9 DEF Reaches
<1> QED  BY <1>7, <1>10

\* Lt holds how each of these keys orders the rows, and at last their places.
KeyCmp(c, i, p, q) ==
  compare(SortKey(c.cols, c.rows[p], stmt.order_by[i]),
          SortKey(c.cols, c.rows[q], stmt.order_by[i]))
Tells(Lt, c, i, p, q) ==
  /\ KeyCmp(c, i, p, q) = 0 <=> Even(Lt, i, p, q)
  /\ (IF stmt.order_by[i].asc THEN KeyCmp(c, i, p, q) < 0
      ELSE KeyCmp(c, i, p, q) > 0) <=> <<i, p, q>> \in Lt
  /\ KeyCmp(c, i, p, q) # 0 =>
       ((stmt.order_by[i].asc = (KeyCmp(c, i, p, q) = -1)) <=> <<i, p, q>> \in Lt)
Orders(Lt, c, m, n) ==
  /\ \A i \in 1 .. m + 1 : WeakOrder(Lt, i, 1 .. n)
  /\ \A p, q \in 1 .. n : <<m + 1, p, q>> \in Lt <=> p < q
  /\ \A i \in 1 .. m : \A p, q \in 1 .. n : Tells(Lt, c, i, p, q)

LEMMA KeyTyped ==
  ASSUME NEW c, NEW n \in Nat, NEW k \in Nat, Cells(c, n, k), NEW m \in Nat,
         Reaches(c, m, n), NEW i \in 1 .. m
  PROVE  \E type : \A p \in 1 .. n :
           IsCell(SortKey(c.cols, c.rows[p], stmt.order_by[i]), type)
<1>1. PICK name : name = stmt.order_by[i].col  OBVIOUS
<1>2. PICK col : col = find_column(c.cols, name)  OBVIOUS
<1>3. col # NotFound  BY <1>1, <1>2 DEF Reaches
<1>4. DOMAIN c.cols = 1 .. k /\ Len(c.cols) = k  BY DEF Cells
<1>5. Finds(col, c.cols, name)  BY <1>2, <1>4, FindIs
<1>6. col \in 1 .. k  BY <1>3, <1>4, <1>5 DEF Finds
<1>7. \A p \in 1 .. n : IsCell(c.rows[p][col], c.cols[col].type)
  BY <1>6 DEF Cells
<1> QED  BY <1>1, <1>2, <1>7 DEF SortKey

LEMMA OrdersExist ==
  ASSUME Planned, NEW c, NEW n \in Nat, NEW k \in Nat, Cells(c, n, k),
         NEW m \in Nat, Reaches(c, m, n)
  PROVE  \E Lt : Orders(Lt, c, m, n)
<1>1. PICK keys : keys = stmt.order_by  OBVIOUS
<1>2. \A i \in 1 .. m : keys[i].asc \in BOOLEAN
  <2>1. stmt \in StmtType  BY StmtsAssumption DEF Planned
  <2>2. PICK X : X = [col : STRING, asc : BOOLEAN]  OBVIOUS
  <2>3. keys \in Seq(X)  BY <1>1, <2>1, <2>2 DEF StmtType
  <2>4. \A i \in 1 .. Len(keys) : keys[i] \in X  BY <2>3, SeqTyped
  <2>5. \A i \in 1 .. m : i \in 1 .. Len(keys)  BY <1>1 DEF Reaches
  <2> QED  BY <2>2, <2>4, <2>5
<1>3. PICK cell : cell = [i \in 1 .. m |-> [p \in 1 .. n |->
                            SortKey(c.cols, c.rows[p], keys[i])]]
  OBVIOUS
<1>4. PICK first : first = [i \in 1 .. m |-> [p \in 1 .. n |-> [q \in 1 .. n |->
                             IF keys[i].asc THEN Under(cell[i][p], cell[i][q])
                             ELSE Under(cell[i][q], cell[i][p])]]]
  OBVIOUS
<1>5. PICK Lt : Lt = {e \in (1 .. m + 1) \X (1 .. n) \X (1 .. n) :
                        IF e[1] = m + 1 THEN e[2] < e[3] ELSE first[e[1]][e[2]][e[3]]}
  OBVIOUS
<1>6. \A p, q \in 1 .. n : <<m + 1, p, q>> \in Lt <=> p < q
  <2>1. m + 1 \in 1 .. m + 1  OBVIOUS
  <2> QED  BY <1>5, <2>1
<1>7. ASSUME NEW i \in 1 .. m, NEW p \in 1 .. n, NEW q \in 1 .. n
      PROVE  <<i, p, q>> \in Lt <=> IF keys[i].asc THEN Under(cell[i][p], cell[i][q])
                                    ELSE Under(cell[i][q], cell[i][p])
  <2>1. i \in 1 .. m + 1 /\ i # m + 1  OBVIOUS
  <2> QED  BY <1>4, <1>5, <2>1
<1>8. WeakOrder(Lt, m + 1, 1 .. n)
  <2>1. \A x, y, z \in 1 .. n : /\ ~(x < y /\ y < x)
                                /\ x < y /\ ~(z < y) => x < z
                                /\ ~(y < x) /\ y < z => x < z
    OBVIOUS
  <2> QED  BY <1>6, <2>1 DEF WeakOrder
<1>9. ASSUME NEW i \in 1 .. m
      PROVE  WeakOrder(Lt, i, 1 .. n) /\ \A p, q \in 1 .. n : Tells(Lt, c, i, p, q)
  <2>1. PICK type : \A p \in 1 .. n : IsCell(SortKey(c.cols, c.rows[p], keys[i]), type)
    BY <1>1, KeyTyped
  <2>2. \A p \in 1 .. n : IsCell(cell[i][p], type)  BY <1>3, <2>1
  <2>3. ASSUME NEW x \in 1 .. n, NEW y \in 1 .. n, NEW z \in 1 .. n
        PROVE  /\ ~(<<i, x, y>> \in Lt /\ <<i, y, x>> \in Lt)
               /\ <<i, x, y>> \in Lt /\ <<i, z, y>> \notin Lt => <<i, x, z>> \in Lt
               /\ <<i, y, x>> \notin Lt /\ <<i, y, z>> \in Lt => <<i, x, z>> \in Lt
    <3>1. IsCell(cell[i][x], type) /\ IsCell(cell[i][y], type) /\ IsCell(cell[i][z], type)
      BY <2>2
    <3>2. PICK a, b, d : a = cell[i][x] /\ b = cell[i][y] /\ d = cell[i][z]  OBVIOUS
    <3>3. /\ ~(Under(a, b) /\ Under(b, a))
          /\ Under(a, b) /\ ~Under(d, b) => Under(a, d)
          /\ ~Under(b, a) /\ Under(b, d) => Under(a, d)
      BY <3>1, <3>2, UnderOrder
    <3>4. /\ ~(Under(b, a) /\ Under(a, b))
          /\ Under(d, b) /\ ~Under(a, b) => Under(d, a)
          /\ ~Under(b, d) /\ Under(b, a) => Under(d, a)
      BY <3>1, <3>2, UnderOrder
    <3>5. CASE keys[i].asc  BY <1>7, <3>2, <3>3, <3>5
    <3>6. CASE ~keys[i].asc  BY <1>7, <3>2, <3>4, <3>6
    <3> QED  BY <3>5, <3>6
  <2>4. ASSUME NEW p \in 1 .. n, NEW q \in 1 .. n  PROVE Tells(Lt, c, i, p, q)
    <3>1. PICK a, b : a = cell[i][p] /\ b = cell[i][q]  OBVIOUS
    <3>2. IsCell(a, type) /\ IsCell(b, type)  BY <2>2, <3>1
    <3>3. PICK cmp : cmp = KeyCmp(c, i, p, q)  OBVIOUS
    <3>4. cmp = compare(a, b)  BY <1>1, <1>3, <3>1, <3>3 DEF KeyCmp
    <3>5. cmp = IF Under(a, b) THEN -1 ELSE IF Under(b, a) THEN 1 ELSE 0
      BY <3>2, <3>4, CompareIs
    <3>6. ~(Under(a, b) /\ Under(b, a))  BY <3>2, UnderOrder
    <3>7. /\ <<i, p, q>> \in Lt <=> IF keys[i].asc THEN Under(a, b) ELSE Under(b, a)
          /\ <<i, q, p>> \in Lt <=> IF keys[i].asc THEN Under(b, a) ELSE Under(a, b)
      BY <1>7, <3>1
    <3>8. cmp = 0 <=> Even(Lt, i, p, q)  BY <3>5, <3>6, <3>7 DEF Even
    <3>9. (IF keys[i].asc THEN cmp < 0 ELSE cmp > 0) <=> <<i, p, q>> \in Lt
      BY <3>5, <3>6, <3>7
    <3>10. cmp # 0 => ((keys[i].asc = (cmp = -1)) <=> <<i, p, q>> \in Lt)
      <4>1. keys[i].asc = TRUE \/ keys[i].asc = FALSE  BY <1>2
      <4>2. (cmp = -1) = TRUE \/ (cmp = -1) = FALSE  OBVIOUS
      <4>3. cmp = -1 <=> Under(a, b)  BY <3>5
      <4>4. cmp # 0 /\ cmp # -1 <=> Under(b, a)  BY <3>5, <3>6
      <4> QED  BY <3>7, <4>1, <4>2, <4>3, <4>4
    <3> QED  BY <1>1, <3>3, <3>8, <3>9, <3>10 DEF Tells
  <2> QED  BY <2>3, <2>4 DEF WeakOrder
<1>10. \A i \in 1 .. m + 1 : i = m + 1 \/ i \in 1 .. m  OBVIOUS
<1> QED  BY <1>6, <1>8, <1>9, <1>10 DEF Orders

\* Rows that tie on the keys before the i-th.
LEMMA TiesAre ==
  ASSUME NEW c, NEW m \in Nat, NEW n \in Nat, NEW Lt, Orders(Lt, c, m, n),
         NEW p \in 1 .. n, NEW q \in 1 .. n, NEW i \in 1 .. m + 1
  PROVE  TiesUpTo(c.cols, stmt.order_by, c.rows[p], c.rows[q], i - 1)
           <=> EvenBelow(Lt, i, p, q)
<1>1. \A l \in 1 .. i - 1 : l \in 1 .. m  OBVIOUS
<1>2. \A l \in 1 .. i - 1 : KeyCmp(c, l, p, q) = 0 <=> Even(Lt, l, p, q)
  BY <1>1 DEF Orders, Tells
<1> QED  BY <1>2 DEF TiesUpTo, EvenBelow, KeyCmp

LEMMA BeforeIs ==
  ASSUME NEW c, NEW m \in Nat, NEW n \in Nat, Reaches(c, m, n),
         NEW Lt, Orders(Lt, c, m, n), NEW p \in 1 .. n, NEW q \in 1 .. n, p # q
  PROVE  Before(c.cols, stmt.order_by, c.rows[p], c.rows[q]) <=> LexLess(Lt, m, p, q)
<1>1. PICK keys : keys = stmt.order_by  OBVIOUS
<1>2. PICK l : l = Len(keys)  OBVIOUS
<1>3. l \in Nat /\ DOMAIN keys = 1 .. l /\ m <= l  BY <1>1, <1>2 DEF Reaches
<1>4. PICK x, y : x = c.rows[p] /\ y = c.rows[q]  OBVIOUS
<1>5. Before(c.cols, keys, x, y) <=>
        \E i \in DOMAIN keys :
          /\ TiesUpTo(c.cols, keys, x, y, i - 1)
          /\ IF keys[i].asc THEN KeyCmp(c, i, p, q) < 0 ELSE KeyCmp(c, i, p, q) > 0
  BY <1>1, <1>4 DEF Before, KeyCmp
<1>6. ASSUME NEW i \in 1 .. m
      PROVE  /\ TiesUpTo(c.cols, keys, x, y, i - 1) <=> EvenBelow(Lt, i, p, q)
             /\ (IF keys[i].asc THEN KeyCmp(c, i, p, q) < 0
                 ELSE KeyCmp(c, i, p, q) > 0) <=> <<i, p, q>> \in Lt
  <2>1. i \in 1 .. m + 1  OBVIOUS
  <2>2. TiesUpTo(c.cols, keys, x, y, i - 1) <=> EvenBelow(Lt, i, p, q)
    BY <1>1, <1>4, <2>1, TiesAre
  <2>3. Tells(Lt, c, i, p, q)  BY DEF Orders
  <2> QED  BY <1>1, <2>2, <2>3 DEF Tells
<1>7. ASSUME NEW i \in DOMAIN keys, TiesUpTo(c.cols, keys, x, y, i - 1)
      PROVE  i \in 1 .. m
  <2>1. CASE m = l  BY <1>3, <2>1
  <2>2. CASE m # l
    <3>1. ~TiesUpTo(c.cols, keys, x, y, m)
      BY <1>1, <1>2, <1>4, <2>2 DEF Reaches
    <3>2. ~(m < i)
      <4> SUFFICES ASSUME m < i  PROVE FALSE  OBVIOUS
      <4>1. \A j \in 1 .. m : j \in 1 .. i - 1  BY <1>3
      <4>2. TiesUpTo(c.cols, keys, x, y, m)  BY <1>7, <4>1 DEF TiesUpTo
      <4> QED  BY <3>1, <4>2
    <3> QED  BY <1>3, <3>2
  <2> QED  BY <2>1, <2>2
<1>8. \A i \in 1 .. m : i \in DOMAIN keys  BY <1>3
<1>9. Before(c.cols, keys, x, y) => LexLess(Lt, m, p, q)
  BY <1>5, <1>6, <1>7 DEF LexLess
<1>10. LexLess(Lt, m, p, q) => Before(c.cols, keys, x, y)
  BY <1>5, <1>6, <1>8 DEF LexLess
<1> QED  BY <1>1, <1>4, <1>9, <1>10

LEMMA ComesIs ==
  ASSUME NEW c, NEW m \in Nat, NEW n \in Nat, Reaches(c, m, n),
         NEW Lt, Orders(Lt, c, m, n), NEW p \in 1 .. n, NEW q \in 1 .. n, p # q
  PROVE  Comes(c, p, q) <=> LexLess(Lt, m + 1, p, q)
<1>1. /\ Before(c.cols, stmt.order_by, c.rows[p], c.rows[q]) <=> LexLess(Lt, m, p, q)
      /\ Before(c.cols, stmt.order_by, c.rows[q], c.rows[p]) <=> LexLess(Lt, m, q, p)
  BY BeforeIs
<1>2. Comes(c, p, q) <=> LexLess(Lt, m, p, q) \/ (p < q /\ ~LexLess(Lt, m, q, p))
  BY <1>1 DEF Comes
<1>3. <<m + 1, p, q>> \in Lt <=> p < q  BY DEF Orders
<1>4. \A i \in 1 .. m : i \in 1 .. m + 1 /\ WeakOrder(Lt, i, 1 .. n)
  <2>1. \A i \in 1 .. m : i \in 1 .. m + 1  OBVIOUS
  <2> QED  BY <2>1 DEF Orders
<1>5. m + 1 \in 1 .. m + 1 /\ m + 1 - 1 = m
      /\ \A i \in 1 .. m + 1 : i = m + 1 \/ i \in 1 .. m
  OBVIOUS
<1>6. LexLess(Lt, m, p, q) => LexLess(Lt, m + 1, p, q)  BY <1>4 DEF LexLess
<1>7. ASSUME p < q, ~LexLess(Lt, m, p, q), ~LexLess(Lt, m, q, p)
      PROVE  LexLess(Lt, m + 1, p, q)
  <2>1. \A l \in 1 .. m : Even(Lt, l, p, q)  BY <1>7, LexFirst
  <2>2. EvenBelow(Lt, m + 1, p, q)  BY <1>5, <2>1 DEF EvenBelow
  <2> QED  BY <1>3, <1>5, <1>7, <2>2 DEF LexLess
<1>8. ASSUME LexLess(Lt, m + 1, p, q), ~LexLess(Lt, m, p, q)
      PROVE  p < q /\ ~LexLess(Lt, m, q, p)
  <2>1. PICK i \in 1 .. m + 1 : EvenBelow(Lt, i, p, q) /\ <<i, p, q>> \in Lt
    BY <1>8 DEF LexLess
  <2>2. i = m + 1  BY <1>5, <1>8, <2>1 DEF LexLess
  <2>3. \A l \in 1 .. m : Even(Lt, l, p, q)  BY <1>5, <2>1, <2>2 DEF EvenBelow
  <2>4. ~LexLess(Lt, m, q, p)  BY <2>3 DEF LexLess, Even
  <2> QED  BY <1>3, <2>1, <2>2, <2>4
<1> QED  BY <1>2, <1>6, <1>7, <1>8

LEMMA PrecedesIs ==
  ASSUME NEW c, NEW m \in Nat, NEW n \in Nat, Reaches(c, m, n),
         NEW Lt, Orders(Lt, c, m, n), NEW p \in 1 .. n, NEW q \in 1 .. n, p # q
  PROVE  Precedes(c, c.rows[p], c.rows[q]) <=> LexLess(Lt, m, p, q)
<1>1. PICK keys : keys = stmt.order_by  OBVIOUS
<1>2. PICK l : l = Len(keys)  OBVIOUS
<1>3. l \in Nat /\ DOMAIN keys = 1 .. l /\ m <= l  BY <1>1, <1>2 DEF Reaches
<1>4. PICK x, y : x = c.rows[p] /\ y = c.rows[q]  OBVIOUS
<1>5. PICK differ : differ = {i \in DOMAIN keys :
                                /\ find_column(c.cols, keys[i].col) # NotFound
                                /\ KeyCmp(c, i, p, q) # 0}
  OBVIOUS
<1>6. Precedes(c, x, y) <=>
        differ # {} /\ keys[Min(differ)].asc = (KeyCmp(c, Min(differ), p, q) = -1)
  BY <1>1, <1>4, <1>5 DEF Precedes, KeyCmp, SortKey
<1>7. \A i \in 1 .. m : i \in differ <=> ~Even(Lt, i, p, q)
  <2>1. \A i \in 1 .. m : i \in DOMAIN keys /\ find_column(c.cols, keys[i].col) # NotFound
    BY <1>1, <1>3 DEF Reaches
  <2>2. \A i \in 1 .. m : KeyCmp(c, i, p, q) = 0 <=> Even(Lt, i, p, q)
    BY DEF Orders, Tells
  <2> QED  BY <1>5, <2>1, <2>2
<1>8. differ \subseteq Int /\ \A i \in differ : i \in 1 .. l /\ 0 <= i
  BY <1>3, <1>5
<1>9. differ # {} => Min(differ) \in differ /\ \A i \in differ : Min(differ) <= i
  <2>1. 0 \in Int  OBVIOUS
  <2> QED  BY <1>8, <2>1, MinIs
<1>10. differ # {} => \E i \in 1 .. m : i \in differ
  <2>1. CASE m = l  BY <1>8, <2>1
  <2>2. CASE m # l
    <3>1. ~TiesUpTo(c.cols, keys, x, y, m)
      BY <1>1, <1>2, <1>4, <2>2 DEF Reaches
    <3>2. m + 1 \in 1 .. m + 1 /\ m + 1 - 1 = m  OBVIOUS
    <3>3. ~EvenBelow(Lt, m + 1, p, q)
      <4>1. PICK i : i = m + 1  OBVIOUS
      <4>2. i \in 1 .. m + 1 /\ i - 1 = m  BY <3>2, <4>1
      <4>3. TiesUpTo(c.cols, stmt.order_by, c.rows[p], c.rows[q], i - 1)
              <=> EvenBelow(Lt, i, p, q)
        BY <4>2, TiesAre
      <4> QED  BY <1>1, <1>4, <3>1, <4>1, <4>2, <4>3
    <3> QED  BY <1>7, <3>2, <3>3 DEF EvenBelow
  <2> QED  BY <2>1, <2>2
<1>11. ASSUME differ # {}, NEW i \in Int, i = Min(differ)
       PROVE  /\ i \in 1 .. m /\ EvenBelow(Lt, i, p, q) /\ ~Even(Lt, i, p, q)
              /\ Precedes(c, x, y) <=> <<i, p, q>> \in Lt
  <2>1. PICK j \in 1 .. m : j \in differ  BY <1>10, <1>11
  <2>2. i \in differ /\ i <= j /\ i \in 1 .. l  BY <1>8, <1>9, <1>11, <2>1
  <2>3. i \in 1 .. m  BY <1>3, <2>2
  <2>4. ASSUME NEW k \in 1 .. i - 1  PROVE Even(Lt, k, p, q)
    <3>1. k \in 1 .. m /\ ~(i <= k)  BY <2>3
    <3>2. k \notin differ  BY <1>9, <1>11, <3>1
    <3> QED  BY <1>7, <3>1, <3>2
  <2>5. Tells(Lt, c, i, p, q)  BY <2>3 DEF Orders
  <2>6. KeyCmp(c, i, p, q) # 0  BY <1>5, <2>2
  <2>7. Precedes(c, x, y) <=> <<i, p, q>> \in Lt
    BY <1>1, <1>6, <1>11, <2>5, <2>6 DEF Tells
  <2> QED  BY <1>7, <2>2, <2>3, <2>4, <2>7 DEF EvenBelow
<1>12. ASSUME Precedes(c, x, y)  PROVE LexLess(Lt, m, p, q)
  <2>1. differ # {}  BY <1>6, <1>12
  <2>2. Min(differ) \in Int  BY <1>8, <1>9, <2>1
  <2> QED  BY <1>11, <1>12, <2>1, <2>2 DEF LexLess
<1>13. ASSUME LexLess(Lt, m, p, q)  PROVE Precedes(c, x, y)
  <2>1. PICK i \in 1 .. m : EvenBelow(Lt, i, p, q) /\ <<i, p, q>> \in Lt
    BY <1>13 DEF LexLess
  <2>2. ~Even(Lt, i, p, q)  BY <2>1 DEF Even
  <2>3. i \in differ  BY <1>7, <2>2
  <2>4. PICK j \in Int : j = Min(differ)  BY <1>8, <1>9, <2>3
  <2>5. /\ j \in 1 .. m /\ EvenBelow(Lt, j, p, q) /\ ~Even(Lt, j, p, q)
        /\ Precedes(c, x, y) <=> <<j, p, q>> \in Lt
    BY <1>11, <2>3, <2>4
  <2>6. ~(j \in 1 .. i - 1) /\ ~(i \in 1 .. j - 1)
    BY <2>1, <2>2, <2>5 DEF EvenBelow
  <2>7. i = j  BY <2>5, <2>6
  <2> QED  BY <2>1, <2>5, <2>7
<1> QED  BY <1>4, <1>12, <1>13

\* The sort puts the rows in the order of the keys, and keeps ties.
LEMMA SortedIs ==
  ASSUME Planned, NEW c, NEW n \in Nat, NEW k \in Nat, Cells(c, n, k),
         ~SortThrows(c)
  PROVE  \E perm \in Bijection(1 .. n, 1 .. n) :
           /\ stable_sort(c) = [i \in DOMAIN perm |-> c.rows[perm[i]]]
           /\ IsStableOrder(c, perm)
<1>1. PICK m \in Nat : Reaches(c, m, n)  BY SortReaches
<1>2. PICK Lt : Orders(Lt, c, m, n)  BY <1>1, OrdersExist
<1>3. PICK S : S = 1 .. n  OBVIOUS
<1>4. PICK R : R = LexOrder(Lt, m + 1, S)  OBVIOUS
<1>5. StrictOrder(S, R)
  <2>1. \A i \in 1 .. m + 1 : WeakOrder(Lt, i, S)  BY <1>2, <1>3 DEF Orders
  <2>2. \A x, y \in S : x # y => ~Even(Lt, m + 1, x, y)
    <3>1. \A x, y \in S : (<<m + 1, x, y>> \in Lt <=> x < y)
                          /\ (<<m + 1, y, x>> \in Lt <=> y < x)
      BY <1>2, <1>3 DEF Orders
    <3>2. \A x, y \in S : x # y => x < y \/ y < x  BY <1>3
    <3> QED  BY <3>1, <3>2 DEF Even
  <2>3. m + 1 \in Nat /\ m + 1 # 0  OBVIOUS
  <2> QED  BY <1>4, <2>1, <2>2, <2>3, LexIsOrder
<1>6. IsFiniteSet(S) /\ Cardinality(S) = n
  <2>1. 1 \in Int /\ n \in Int  OBVIOUS
  <2>2. IsFiniteSet(1 .. n) /\ Cardinality(1 .. n) = IF 1 > n THEN 0 ELSE n - 1 + 1
    BY <2>1, FS_Interval
  <2> QED  BY <1>3, <2>2
<1>7. PICK perm : perm = Ranked(S, R)  OBVIOUS
<1>8. /\ perm \in Bijection(1 .. n, S)
      /\ \A i, j \in 1 .. n : i < j => <<perm[i], perm[j]>> \in R
  BY <1>5, <1>6, <1>7, RankedIs
<1>9. DOMAIN perm = 1 .. n /\ \A i \in 1 .. n : perm[i] \in S
  BY <1>8 DEF Bijection, Injection
<1>10. \A x, y \in S : x # y => (<<x, y>> \in R <=> Comes(c, x, y))
  <2> SUFFICES ASSUME NEW x \in S, NEW y \in S, x # y
               PROVE  <<x, y>> \in R <=> Comes(c, x, y)
    OBVIOUS
  <2>1. Comes(c, x, y) <=> LexLess(Lt, m + 1, x, y)  BY <1>1, <1>2, <1>3, ComesIs
  <2> QED  BY <1>4, <2>1 DEF LexOrder
<1>11. \A x \in S : {y \in S : <<y, x>> \in R} = {y \in S \ {x} : Comes(c, y, x)}
  <2>1. \A x \in S : <<x, x>> \notin R  BY <1>5 DEF StrictOrder
  <2> QED  BY <1>10, <2>1
<1>12. stable_sort(c) = [i \in DOMAIN perm |-> c.rows[perm[i]]]
  <2>1. DOMAIN c.rows = S  BY <1>3 DEF Cells
  <2>2. stable_sort(c) =
          [i \in S |-> c.rows[CHOOSE x \in S :
             Cardinality({y \in S \ {x} : Comes(c, y, x)}) = i - 1]]
    BY <2>1 DEF stable_sort
  <2>3. ASSUME NEW i \in S
        PROVE  perm[i] = CHOOSE x \in S :
                 Cardinality({y \in S \ {x} : Comes(c, y, x)}) = i - 1
    <3>1. perm[i] = CHOOSE x \in S : Cardinality({y \in S : <<y, x>> \in R}) = i - 1
      BY <1>3, <1>6, <1>7 DEF Ranked
    <3>2. \A x \in S : Cardinality({y \in S : <<y, x>> \in R}) = i - 1
                         <=> Cardinality({y \in S \ {x} : Comes(c, y, x)}) = i - 1
      BY <1>11
    <3> QED  BY <3>1, <3>2
  <2> QED  BY <1>3, <1>9, <2>2, <2>3
<1>13. IsStableOrder(c, perm)
  <2> SUFFICES ASSUME NEW i \in 1 .. n, NEW j \in 1 .. n, i < j
               PROVE  \/ Precedes(c, c.rows[perm[i]], c.rows[perm[j]])
                      \/ /\ ~Precedes(c, c.rows[perm[j]], c.rows[perm[i]])
                         /\ perm[i] < perm[j]
    <3>1. DOMAIN c.rows = 1 .. n  BY DEF Cells
    <3> QED  BY <3>1 DEF IsStableOrder
  <2>1. PICK p, q : p = perm[i] /\ q = perm[j]  OBVIOUS
  <2>2. p \in S /\ q \in S /\ <<p, q>> \in R  BY <1>8, <1>9, <2>1
  <2>3. p # q  BY <1>5, <2>2 DEF StrictOrder
  <2>4. Comes(c, p, q)  BY <1>10, <2>2, <2>3
  <2>5. /\ Before(c.cols, stmt.order_by, c.rows[p], c.rows[q]) <=> LexLess(Lt, m, p, q)
        /\ Before(c.cols, stmt.order_by, c.rows[q], c.rows[p]) <=> LexLess(Lt, m, q, p)
    BY <1>1, <1>2, <1>3, <2>2, <2>3, BeforeIs
  <2>6. /\ Precedes(c, c.rows[p], c.rows[q]) <=> LexLess(Lt, m, p, q)
        /\ Precedes(c, c.rows[q], c.rows[p]) <=> LexLess(Lt, m, q, p)
    BY <1>1, <1>2, <1>3, <2>2, <2>3, PrecedesIs
  <2> QED  BY <2>1, <2>4, <2>5, <2>6 DEF Comes
<1> QED  BY <1>3, <1>8, <1>12, <1>13

\* ORDER BY permutes the answer over the whole table by its keys in turn, each
\* ascending or descending, and keeps rows that tie in their order: what
\* SortOperator returns, for every batch size.
THEOREM AnswerIsSorted == Spec => []AnswerIsOrdered
<1>1. ASSUME IInv, pc = "done", Answerable, Ordered  PROVE AnswerIsOrdered
  <2>1. table_ \in Tables /\ Planned /\ NoneFails /\ ~OrderFails /\ result = Final
    BY <1>1 DEF IInv, Within, Phase
  <2>2. PICK c : c = UnorderedAnswer  OBVIOUS
  <2>3. PICK n \in Nat, k \in Nat : Cells(c, n, k)
    BY <2>1, <2>2, AnswerTyped DEF IsTyped
  <2>4. DOMAIN c.rows = 1 .. n  BY <2>3 DEF Cells
  <2>5. ~SortThrows(c)  BY <1>1, <2>1, <2>2 DEF OrderFails
  <2>6. PICK perm \in Bijection(1 .. n, 1 .. n) :
          /\ stable_sort(c) = [i \in DOMAIN perm |-> c.rows[perm[i]]]
          /\ IsStableOrder(c, perm)
    BY <2>1, <2>3, <2>5, SortedIs
  <2>7. result.cols = c.cols /\ result.rows = stable_sort(c)
    <3>1. CASE Passing # {}
      <4>1. result = sort_chunk(c)  BY <1>1, <2>1, <2>2, <3>1 DEF Final
      <4>2. c = [cols |-> c.cols, rows |-> c.rows]  BY <2>1, <2>2, AnswerShape
      <4> QED  BY <4>1, <4>2 DEF sort_chunk
    <3>2. CASE Passing = {}
      <4>1. result = c /\ c = NoChunk  BY <2>1, <2>2, <3>2 DEF Final, UnorderedAnswer
      <4>2. DOMAIN c.rows = {} /\ c.rows = << >>  BY <4>1 DEF NoChunk
      <4>3. stable_sort(c) = << >>
        <5>1. stable_sort(c) = [x \in {} |-> c.rows[(CHOOSE i \in {} :
                Cardinality({j \in {} \ {i} : Comes(c, j, i)}) = x - 1)]]
          BY <4>2 DEF stable_sort
        <5> QED  BY <5>1
      <4> QED  BY <4>1, <4>2, <4>3
    <3> QED  BY <3>1, <3>2
  <2> QED  BY <2>2, <2>4, <2>6, <2>7 DEF AnswerIsOrdered
<1>2. IInv => AnswerIsOrdered  BY <1>1 DEF AnswerIsOrdered
<1> QED  BY <1>2, AlwaysInv, PTL

----------------------------------------------------------------------------
(* Types: what holds of the chunks and the hash table at every step *)

\* A group is in the hash table exactly if it is in the order of groups, once.
Listed ==
  /\ DOMAIN hash_table_ = ToSet(group_order_)
  /\ Cardinality(DOMAIN hash_table_) = Len(group_order_)
Outside == IsTyped(chunk) /\ IsTyped(result) /\ Listed

\* What the invariant says of them where an action has just set them.
Held ==
  /\ pc \in {"filter", "consume"} =>
       IsTyped(chunk) /\ chunk = [cols |-> chunk.cols, rows |-> chunk.rows]
  /\ pc = "done" => IsTyped(result)
  /\ pc \in {"scan", "consume"} /\ Grouped => Listed

LEMMA GroupsListed ==
  ASSUME table_ \in Tables, NEW C \in SUBSET Rows,
         GroupsOf(hash_table_, group_order_, C)
  PROVE  Listed
<1>1. PICK F : F = FirstOf(C)  OBVIOUS
<1>2. PICK G : G = group_order_  OBVIOUS
<1>3. PICK D : D = DOMAIN hash_table_  OBVIOUS
<1>4. F \in SUBSET C /\ \A q, r \in F : KeyOf(q) = KeyOf(r) => q = r
  BY <1>1, KeysListed
<1>5. F \in SUBSET Rows /\ F \in SUBSET Nat /\ IsFiniteSet(F)
  BY <1>4, RowsAre
<1>6. PICK n : n = Cardinality(F)  OBVIOUS
<1>7. PICK s : s = InOrder[F]  OBVIOUS
<1>8. /\ n \in Nat /\ G = [k \in 1 .. n |-> KeyAt[s[k]]]
      /\ \A k \in 1 .. n : s[k] \in F
  BY <1>1, <1>2, <1>5, <1>6, <1>7, SelectedAt DEF GroupsOf
<1>9. \A i, j \in 1 .. n : i < j => s[i] < s[j]
  BY <1>5, <1>6, <1>7, InOrderIs DEF Lists
<1>10. \A i, j \in 1 .. n : i # j => s[i] # s[j]
  <2>1. \A i \in 1 .. n : s[i] \in Nat  BY <1>5, <1>8
  <2>2. \A i, j \in 1 .. n : i # j => i < j \/ j < i  OBVIOUS
  <2> QED  BY <1>9, <2>1, <2>2
<1>11. DOMAIN G = 1 .. n /\ Len(G) = n /\ \A k \in 1 .. n : G[k] = KeyOf(s[k])
  <2>1. DOMAIN G = 1 .. n /\ Len(G) = n  BY <1>8
  <2>2. \A r \in Rows : KeyAt[r] = KeyOf(r)  BY DEF KeyAt
  <2>3. \A k \in 1 .. n : G[k] = KeyAt[s[k]] /\ s[k] \in Rows  BY <1>5, <1>8
  <2> QED  BY <2>1, <2>2, <2>3
<1>12. \A k : k \in D <=> \E i \in 1 .. n : G[i] = k
  <2>1. \A k : Contains(G, k) <=> \E r \in C : KeyOf(r) = k
    BY <1>2, KeysListed DEF GroupsOf
  <2>2. \A k : Contains(G, k) <=> \E i \in 1 .. n : G[i] = k
    BY <1>11 DEF Contains
  <2>3. \A k : k \in D <=> \E r \in C : KeyOf(r) = k
    BY <1>3 DEF GroupsOf, States
  <2> QED  BY <2>1, <2>2, <2>3
<1>13. D = ToSet(G)  BY <1>11, <1>12 DEF ToSet
<1>14. G \in Bijection(1 .. n, D)
  <2>1. G \in [1 .. n -> D]  BY <1>8, <1>11, <1>12
  <2>2. \A i, j \in 1 .. n : G[i] = G[j] => i = j  BY <1>4, <1>8, <1>10, <1>11
  <2>3. \A k \in D : \E i \in 1 .. n : G[i] = k  BY <1>12
  <2> QED  BY <2>1, <2>2, <2>3 DEF Bijection, Injection, Surjection, IsInjective
<1>15. Cardinality(D) = n
  <2>1. 1 \in Int /\ n \in Int  BY <1>8
  <2>2. IsFiniteSet(1 .. n) /\ Cardinality(1 .. n) = IF 1 > n THEN 0 ELSE n - 1 + 1
    BY <2>1, FS_Interval
  <2>3. Cardinality(1 .. n) = n  BY <1>8, <2>2
  <2>4. ExistsBijection(1 .. n, D)  BY <1>14 DEF ExistsBijection
  <2> QED  BY <2>2, <2>3, <2>4, FS_Bijection
<1> QED  BY <1>2, <1>3, <1>11, <1>13, <1>15 DEF Listed

\* The rows of a sorted chunk are those of the chunk.
LEMMA SortedTyped ==
  ASSUME table_ \in Tables, Planned, NoneFails, ~SortThrows(UnorderedAnswer)
  PROVE  IsTyped(sort_chunk(UnorderedAnswer))
<1>1. PICK c : c = UnorderedAnswer  OBVIOUS
<1>2. PICK n \in Nat, m \in Nat : Cells(c, n, m)
  BY <1>1, AnswerTyped DEF IsTyped
<1>3. PICK perm \in Bijection(1 .. n, 1 .. n) :
        stable_sort(c) = [i \in DOMAIN perm |-> c.rows[perm[i]]]
  BY <1>1, <1>2, SortedIs
<1>4. DOMAIN perm = 1 .. n /\ \A i \in 1 .. n : perm[i] \in 1 .. n
  BY DEF Bijection, Injection
<1>5. c = [cols |-> c.cols, rows |-> c.rows]  BY <1>1, AnswerShape
<1>6. PICK t : t = sort_chunk(c)  OBVIOUS
<1>7. t.cols = c.cols /\ t.rows = [i \in 1 .. n |-> c.rows[perm[i]]]
  BY <1>3, <1>4, <1>5, <1>6 DEF sort_chunk
<1>8. Cells(t, n, m)
  <2>1. \A r \in 1 .. n : t.rows[r] = c.rows[perm[r]] /\ perm[r] \in 1 .. n
    BY <1>4, <1>7
  <2>2. DOMAIN t.rows = 1 .. n  BY <1>7
  <2> QED  BY <1>2, <1>7, <2>1, <2>2 DEF Cells
<1> QED  BY <1>1, <1>6, <1>8 DEF IsTyped

LEMMA InvHolds ==
  ASSUME IInv  PROVE Held
<1>1. table_ \in Tables /\ current_row_ \in 0 .. Len(table_)
  BY DEF IInv, Within
<1>2. \A n : Upto(n) \in SUBSET Rows  BY <1>1, RowsAre DEF Upto
<1>3. \A S : ChunkOf(S) = [cols |-> ChunkOf(S).cols, rows |-> ChunkOf(S).rows]
  BY DEF ChunkOf
<1>4. pc \in {"scan", "filter", "consume"} => Planned /\ There
  BY DEF IInv, Phase, Opened
<1>5. ASSUME pc = "filter"
      PROVE  IsTyped(chunk) /\ chunk = [cols |-> chunk.cols, rows |-> chunk.rows]
  <2>1. PICK n : n = current_row_  OBVIOUS
  <2>2. PICK lo \in 0 .. n : chunk = ChunkOf(lo + 1 .. n)
    BY <1>5, <2>1 DEF IInv, Phase, Filtering
  <2>3. n \in Nat /\ lo \in Nat /\ lo <= n /\ n <= Len(table_)
    <3>1. Len(table_) \in Nat /\ n \in 0 .. Len(table_)  BY <1>1, <2>1, RowsAre
    <3> QED  BY <3>1
  <2>4. lo + 1 .. n \in SUBSET Rows  BY <1>1, <2>3, BatchRows
  <2>5. IsTyped(ChunkOf(lo + 1 .. n))  BY <1>1, <1>4, <1>5, <2>4, ChunkTyped
  <2> QED  BY <1>3, <2>2, <2>5
<1>6. ASSUME pc = "consume"
      PROVE  IsTyped(chunk) /\ chunk = [cols |-> chunk.cols, rows |-> chunk.rows]
  <2>1. PICK C \in SUBSET Upto(current_row_) : chunk = ChunkOf(Upto(current_row_) \ C)
    BY <1>6 DEF IInv, Phase, Consuming
  <2>2. Upto(current_row_) \ C \in SUBSET Rows  BY <1>2
  <2>3. IsTyped(ChunkOf(Upto(current_row_) \ C))
    BY <1>1, <1>4, <1>6, <2>2, ChunkTyped
  <2> QED  BY <1>3, <2>1, <2>3
<1>7. ASSUME pc = "done"  PROVE IsTyped(result)
  <2>1. Planned /\ NoneFails /\ ~OrderFails /\ result = Final
    BY <1>7 DEF IInv, Phase
  <2>2. CASE Passing # {} /\ Ordered
    <3>1. ~SortThrows(UnorderedAnswer)  BY <2>1, <2>2 DEF OrderFails
    <3> QED  BY <1>1, <2>1, <2>2, <3>1, SortedTyped DEF Final
  <2>3. CASE ~(Passing # {} /\ Ordered)
    BY <1>1, <2>1, <2>3, AnswerTyped DEF Final
  <2> QED  BY <2>2, <2>3
<1>8. ASSUME pc = "scan", Grouped  PROVE Listed
  <2>1. GroupsOf(hash_table_, group_order_, Upto(current_row_))
    BY <1>8 DEF IInv, Phase, Scanning, Consumed
  <2> QED  BY <1>1, <1>2, <2>1, GroupsListed
<1>9. ASSUME pc = "consume", Grouped  PROVE Listed
  <2>1. PICK C \in SUBSET Upto(current_row_) : Consumed(C)
    BY <1>9 DEF IInv, Phase, Consuming
  <2>2. GroupsOf(hash_table_, group_order_, C) /\ C \in SUBSET Rows
    BY <1>2, <1>9, <2>1 DEF Consumed
  <2> QED  BY <1>1, <2>2, GroupsListed
<1> QED  BY <1>5, <1>6, <1>7, <1>8, <1>9 DEF Held

LEMMA StartOutside ==
  ASSUME Init  PROVE Outside
<1>1. ToSet(<< >>) = {} /\ DOMAIN << >> = {} /\ Len(<< >>) = 0  BY DEF ToSet
<1>2. Cardinality({}) = 0  BY FS_EmptySet
<1> QED  BY <1>1, <1>2, NoChunkTyped DEF Init, Outside, Listed

LEMMA StepOutside ==
  ASSUME Outside, Held, Held', [Next]_vars  PROVE Outside'
<1>1. ASSUME UNCHANGED <<chunk, result, hash_table_, group_order_>>  PROVE Outside'
  BY <1>1 DEF Outside, Listed
<1>2. ASSUME UNCHANGED <<hash_table_, group_order_>>  PROVE Listed'
  BY <1>2 DEF Outside, Listed
<1>3. CASE \E s \in Stmts : Plan(s)  BY <1>1, <1>3 DEF Plan
<1>4. CASE Open  BY <1>1, <1>4 DEF Open
<1>5. CASE ScanNext
  <2>1. pc' \in {"filter", "consume"} /\ result' = result
        /\ UNCHANGED <<hash_table_, group_order_>>
    BY <1>5 DEF ScanNext
  <2> QED  BY <1>2, <2>1 DEF Outside, Held
<1>6. CASE ScanExhausted  BY <1>1, <1>6 DEF ScanExhausted
<1>7. CASE FilterNext
  <2>1. PICK sel : /\ pc' = AfterFilter(sel)
                   /\ chunk' = [chunk EXCEPT !.rows = sel]
    BY <1>7 DEF FilterNext
  <2>2. result' = result /\ UNCHANGED <<hash_table_, group_order_>> /\ pc = "filter"
    BY <1>7 DEF FilterNext
  <2>3. CASE sel = << >>
    <3>1. PICK n \in Nat, m \in Nat : Cells(chunk, n, m)  BY DEF Outside, IsTyped
    <3>2. chunk = [cols |-> chunk.cols, rows |-> chunk.rows]  BY <2>2 DEF Held
    <3>3. chunk'.cols = chunk.cols /\ chunk'.rows = << >>  BY <2>1, <2>3, <3>2
    <3>4. Cells(chunk', 0, m)  BY <3>1, <3>3 DEF Cells
    <3>5. IsTyped(chunk')  BY <3>4 DEF IsTyped
    <3> QED  BY <1>2, <2>2, <3>5 DEF Outside
  <2>4. CASE sel # << >>
    <3>1. pc' = "consume"  BY <2>1, <2>4 DEF AfterFilter
    <3> QED  BY <1>2, <2>2, <3>1 DEF Outside, Held
  <2> QED  BY <2>3, <2>4
<1>8. CASE FilterThrows  BY <1>1, <1>8 DEF FilterThrows
<1>9. CASE Accumulate
  <2>1. Grouped' /\ result' = result /\ pc' \in {"scan", "consume"}
        /\ (pc' = "consume" \/ chunk' = NoChunk)
    BY <1>9 DEF Accumulate, Grouped, plan
  <2>2. Listed'  BY <2>1 DEF Held
  <2>3. IsTyped(chunk')  BY <2>1, NoChunkTyped DEF Held
  <2> QED  BY <2>1, <2>2, <2>3 DEF Outside
<1>10. CASE AccumulateThrows  BY <1>1, <1>10 DEF AccumulateThrows
<1>11. CASE Collect
  <2>1. chunk' = NoChunk /\ result' = result /\ UNCHANGED <<hash_table_, group_order_>>
    BY <1>11 DEF Collect
  <2> QED  BY <1>2, <2>1, NoChunkTyped DEF Outside
<1>12. CASE ProduceResult  BY <1>1, <1>12 DEF ProduceResult
<1>13. CASE SortNext  BY <1>1, <1>13 DEF SortNext
<1>14. CASE SortThrowsUp  BY <1>1, <1>14 DEF SortThrowsUp
<1>15. CASE Drained
  <2>1. pc' = "done" /\ chunk' = chunk /\ UNCHANGED <<hash_table_, group_order_>>
    BY <1>15 DEF Drained
  <2> QED  BY <1>2, <2>1 DEF Outside, Held
<1>16. CASE UNCHANGED vars  BY <1>1, <1>16 DEF vars
<1> QED
  BY <1>3, <1>4, <1>5, <1>6, <1>7, <1>8, <1>9, <1>10, <1>11, <1>12, <1>13,
     <1>14, <1>15, <1>16 DEF Next

\* Every chunk that goes up the pipeline is rectangular and typed by its
\* columns, the aggregates' included; a group is in AggregateOperator's hash
\* table exactly if it is in group_order_, which holds it once.
THEOREM ChunksAreTyped == Spec => []TypeOK
<1>1. IInv => Held  BY InvHolds
<1>2. Init => Outside  BY StartOutside
<1>3. Outside /\ Held /\ Held' /\ [Next]_vars => Outside'  BY StepOutside
<1>4. ASSUME IInv, Outside  PROVE TypeOK
  <2>1. ASSUME NEW c \in {chunk, result}, IsTyped(c)  PROVE c \in ChunkType
    <3>1. PICK n \in Nat, m \in Nat : Cells(c, n, m)  BY <2>1 DEF IsTyped
    <3>2. \A r \in DOMAIN c.rows :
            /\ DOMAIN c.rows[r] = DOMAIN c.cols
            /\ \A i \in DOMAIN c.cols : c.rows[r][i].type = c.cols[i].type
      BY <3>1 DEF Cells, IsCell
    <3> QED  BY <3>2 DEF ChunkType
  <2>2. chunk \in ChunkType /\ result \in ChunkType  BY <1>4, <2>1 DEF Outside
  <2> QED  BY <1>4, <2>2 DEF TypeOK, IInv, Within, Outside, Listed
<1> QED  BY <1>1, <1>2, <1>3, <1>4, AlwaysInv, PTL DEF Spec
=============================================================================
