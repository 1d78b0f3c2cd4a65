------------------------------ MODULE DataLemmas ------------------------------
(***************************************************************************)
(* Facts about the data the models are built of, for sequences and sets of *)
(* any size: induction over the naturals, as a least element that a set of *)
(* naturals has; what FlattenSeq makes of a sequence of sequences; finite  *)
(* sets put in order, naturals listed from the smallest on; what           *)
(* SumFunction adds up; and how the pieces between the tokens of one type, *)
(* the lists they make and the rows that are read in them go on when one   *)
(* more token is appended.                                                 *)
(***************************************************************************)
EXTENDS Splitting, FiniteSetTheorems, SequenceTheorems,
        WellFoundedInduction, FunctionTheorems, TLAPS

----------------------------------------------------------------------------
(* Induction *)

\* A set of naturals has a least element.
LEMMA LeastNat ==
  ASSUME NEW T, T \subseteq Nat, T # {}
  PROVE  \E x \in T : \A y \in T : x <= y
<1>1. IsWellFoundedOn(OpToRel(<, Nat), Nat)  BY NatLessThanWellFounded
<1>2. PICK x \in T : \A y \in T : ~(<<y, x>> \in OpToRel(<, Nat))
  BY <1>1, WFMin
<1>3. \A y \in T : ~(y < x)  BY <1>2 DEF OpToRel
<1>4. x \in Nat /\ \A y \in T : y \in Nat  OBVIOUS
<1> QED  BY <1>3, <1>4

\* What holds of 0, and of n + 1 if of n, holds of all naturals: for the set S
\* of those that it holds of.
LEMMA Induction ==
  ASSUME NEW S, 0 \in S, \A n \in Nat : n \in S => n + 1 \in S
  PROVE  \A n \in Nat : n \in S
<1> SUFFICES ASSUME Nat \ S # {}  PROVE FALSE
  OBVIOUS
<1>1. PICK x \in Nat \ S : \A y \in Nat \ S : x <= y  BY LeastNat
<1>2. x # 0 /\ x - 1 \in Nat /\ (x - 1) + 1 = x  OBVIOUS
<1>3. x - 1 \in S  BY <1>1, <1>2
<1> QED  BY <1>1, <1>2, <1>3

----------------------------------------------------------------------------
(* FlattenSeq *)

\* f has the sequences of ss joined up to each place.
Joins(f, ss) ==
  f = [i \in 1 .. Len(ss) |-> IF i = 1 THEN ss[i] ELSE f[i - 1] \o ss[i]]

LEMMA JoinsExist ==
  ASSUME NEW V, NEW ss \in Seq(Seq(V))
  PROVE  \E f \in [1 .. Len(ss) -> Seq(V)] : Joins(f, ss)
<1> DEFINE Good(f, m) ==
             /\ f \in [1 .. m -> Seq(V)]
             /\ \A i \in 1 .. m : f[i] = IF i = 1 THEN ss[i] ELSE f[i - 1] \o ss[i]
           S == {m \in Nat : m <= Len(ss) => \E f : Good(f, m)}
<1>1. 0 \in S
  <2>1. Good(<< >>, 0)  OBVIOUS
  <2> QED  BY <2>1
<1>2. ASSUME NEW m \in Nat, m \in S  PROVE m + 1 \in S
  <2> HIDE DEF Good
  <2> SUFFICES ASSUME m + 1 <= Len(ss)  PROVE \E f : Good(f, m + 1)
    OBVIOUS
  <2>0. Len(ss) \in Nat /\ m <= Len(ss)  OBVIOUS
  <2>1. PICK f : Good(f, m)  BY <1>2, <2>0
  <2> USE DEF Good
  <2>2. PICK last : last = IF m = 0 THEN ss[1] ELSE f[m] \o ss[m + 1]  OBVIOUS
  <2>3. last \in Seq(V)
    <3>1. ss[m + 1] \in Seq(V)  BY m + 1 \in 1 .. Len(ss)
    <3>2. m # 0 => f[m] \in Seq(V)  BY <2>1
    <3> QED  BY <2>2, <3>1, <3>2
  <2>4. PICK g : g = [i \in 1 .. m + 1 |-> IF i = m + 1 THEN last ELSE f[i]]  OBVIOUS
  <2>5. g \in [1 .. m + 1 -> Seq(V)]  BY <2>1, <2>3, <2>4
  <2>6. ASSUME NEW i \in 1 .. m + 1
        PROVE  g[i] = IF i = 1 THEN ss[i] ELSE g[i - 1] \o ss[i]
    <3>1. CASE i = m + 1
      <4>1. g[i] = last /\ (i # 1 => g[i - 1] = f[m])  BY <2>4, <3>1
      <4> QED  BY <2>2, <3>1, <4>1
    <3>2. CASE i # m + 1
      <4>1. i \in 1 .. m /\ g[i] = f[i] /\ (i # 1 => g[i - 1] = f[i - 1])
        BY <2>4, <3>2
      <4> QED  BY <2>1, <4>1
    <3> QED  BY <3>1, <3>2
  <2> QED  BY <2>5, <2>6
<1>3. \A m \in Nat : m \in S
  <2> HIDE DEF S
  <2> QED  BY <1>1, <1>2, Induction
<1>4. PICK f : Good(f, Len(ss))
  <2> HIDE DEF Good
  <2>1. Len(ss) \in Nat /\ Len(ss) <= Len(ss)  OBVIOUS
  <2> QED  BY <1>3, <2>1
<1>5. f = [i \in 1 .. Len(ss) |-> IF i = 1 THEN ss[i] ELSE f[i - 1] \o ss[i]]
  BY <1>4
<1> QED  BY <1>4, <1>5 DEF Joins

Agree(f, g, n) == \A i \in 1 .. n : f[i] = g[i]

\* There is only one way to join them.
LEMMA JoinsAgree ==
  ASSUME NEW V, NEW ss \in Seq(Seq(V)), NEW tt \in Seq(Seq(V)),
         NEW n \in Nat, n <= Len(ss), n <= Len(tt),
         Agree(ss, tt, n), NEW f, Joins(f, ss), NEW g, Joins(g, tt)
  PROVE  Agree(f, g, n)
<1> USE DEF Agree
<1> DEFINE S == {m \in Nat : m \in 1 .. n => f[m] = g[m]}
<1>1. 0 \in S  OBVIOUS
<1>2. ASSUME NEW m \in Nat, m \in S  PROVE m + 1 \in S
  <2> SUFFICES ASSUME m + 1 \in 1 .. n  PROVE f[m + 1] = g[m + 1]
    OBVIOUS
  <2>1. m + 1 \in 1 .. Len(ss) /\ m + 1 \in 1 .. Len(tt) /\ (m + 1) - 1 = m
    OBVIOUS
  <2>2. /\ f[m + 1] = IF m + 1 = 1 THEN ss[m + 1] ELSE f[m] \o ss[m + 1]
        /\ g[m + 1] = IF m + 1 = 1 THEN tt[m + 1] ELSE g[m] \o tt[m + 1]
    BY <2>1 DEF Joins
  <2>3. m + 1 # 1 => f[m] = g[m]  BY <1>2
  <2> QED  BY <2>2, <2>3
<1>3. \A m \in Nat : m \in S
  <2> HIDE DEF S
  <2> QED  BY <1>1, <1>2, Induction
<1> QED  BY <1>3

LEMMA FlattenIs ==
  ASSUME NEW V, NEW ss \in Seq(Seq(V)), ss # << >>
  PROVE  \E f \in [1 .. Len(ss) -> Seq(V)] : Joins(f, ss) /\ FlattenSeq(ss) = f[Len(ss)]
<1>1. Len(ss) # 0  OBVIOUS
<1>2. PICK g \in [1 .. Len(ss) -> Seq(V)] : Joins(g, ss)  BY JoinsExist
<1>3. FlattenSeq(ss) = (CHOOSE f : Joins(f, ss))[Len(ss)]
  BY <1>1 DEF FlattenSeq, Joins
<1>4. PICK f : f = CHOOSE h : Joins(h, ss)  OBVIOUS
<1>5. Joins(f, ss)  BY <1>2, <1>4
<1>6. Agree(f, g, Len(ss))
  <2>1. Agree(ss, ss, Len(ss)) /\ Len(ss) \in Nat /\ Len(ss) <= Len(ss)
    BY DEF Agree
  <2> QED  BY <1>2, <1>5, <2>1, JoinsAgree
<1>7. FlattenSeq(ss) = g[Len(ss)]  BY <1>1, <1>3, <1>4, <1>6 DEF Agree
<1> QED  BY <1>2, <1>7

\* FlattenSeq takes the sequences one after the other.
LEMMA Flattened ==
  ASSUME NEW V
  PROVE  /\ \A ss \in Seq(Seq(V)) : FlattenSeq(ss) \in Seq(V)
         /\ FlattenSeq(<< >>) = << >>
         /\ \A s \in Seq(V) : FlattenSeq(<<s>>) = s
         /\ \A ss \in Seq(Seq(V)), s \in Seq(V) :
              FlattenSeq(Append(ss, s)) = FlattenSeq(ss) \o s
<1>1. FlattenSeq(<< >>) = << >>  BY DEF FlattenSeq
<1>2. ASSUME NEW ss \in Seq(Seq(V))  PROVE FlattenSeq(ss) \in Seq(V)
  <2>1. CASE ss = << >>
    <3>1. << >> \in Seq(V)  OBVIOUS
    <3> QED  BY <1>1, <2>1, <3>1
  <2>2. CASE ss # << >>
    <3>1. PICK f \in [1 .. Len(ss) -> Seq(V)] : FlattenSeq(ss) = f[Len(ss)]
      BY <2>2, FlattenIs
    <3>2. Len(ss) \in 1 .. Len(ss)  BY <2>2
    <3> QED  BY <3>1, <3>2
  <2> QED  BY <2>1, <2>2
<1>3. ASSUME NEW s \in Seq(V)  PROVE FlattenSeq(<<s>>) = s
  <2>1. PICK ss : ss = <<s>>  OBVIOUS
  <2>2. ss \in Seq(Seq(V)) /\ ss # << >> /\ Len(ss) = 1 /\ ss[1] = s  BY <2>1
  <2>3. PICK f : Joins(f, ss) /\ FlattenSeq(ss) = f[1]
    BY <2>2, FlattenIs
  <2>4. f[1] = ss[1]  BY <2>2, <2>3 DEF Joins
  <2> QED  BY <2>1, <2>2, <2>3, <2>4
<1>4. ASSUME NEW ss \in Seq(Seq(V)), NEW s \in Seq(V)
      PROVE  FlattenSeq(Append(ss, s)) = FlattenSeq(ss) \o s
  <2>1. CASE ss = << >>
    <3>1. Append(ss, s) = <<s>>  BY <2>1
    <3>2. << >> \o s = s  BY ConcatEmptySeq
    <3> QED  BY <1>1, <1>3, <2>1, <3>1, <3>2
  <2>2. CASE ss # << >>
    <3>1. PICK n : n = Len(ss)  OBVIOUS
    <3>2. PICK tt : tt = Append(ss, s)  OBVIOUS
    <3>3. /\ n \in Nat /\ n # 0
          /\ tt \in Seq(Seq(V)) /\ Len(tt) = n + 1 /\ tt # << >>
          /\ \A i \in 1 .. n : tt[i] = ss[i]
          /\ tt[n + 1] = s
      <4>1. tt \in Seq(Seq(V))  BY <3>2
      <4>2. Len(tt) = n + 1 /\ n \in Nat /\ n # 0  BY <2>2, <3>1, <3>2
      <4>3. (\A i \in 1 .. n : tt[i] = ss[i]) /\ tt[n + 1] = s
        BY <3>1, <3>2, AppendProperties
      <4>4. tt # << >>  BY <4>2
      <4> QED  BY <4>1, <4>2, <4>3, <4>4
    <3>4. PICK f : Joins(f, ss) /\ FlattenSeq(ss) = f[n]
      BY <2>2, <3>1, FlattenIs
    <3>5. PICK g : Joins(g, tt) /\ FlattenSeq(tt) = g[n + 1]
      BY <3>3, FlattenIs
    <3>6. f[n] = g[n]
      <4>1. n <= Len(ss) /\ n <= Len(tt) /\ n \in 1 .. n  BY <3>1, <3>3
      <4>2. /\ n \in Nat /\ tt \in Seq(Seq(V)) /\ Joins(f, ss) /\ Joins(g, tt)
            /\ Agree(ss, tt, n)
        BY <3>3, <3>4, <3>5 DEF Agree
      <4>3. Agree(f, g, n)  BY <4>1, <4>2, JoinsAgree
      <4> QED  BY <4>1, <4>3 DEF Agree
    <3>7. g[n + 1] = g[n] \o s
      <4>1. n + 1 \in 1 .. Len(tt) /\ n + 1 # 1 /\ (n + 1) - 1 = n  BY <3>3
      <4> QED  BY <3>3, <3>5, <4>1 DEF Joins
    <3> QED  BY <3>2, <3>4, <3>5, <3>6, <3>7
  <2> QED  BY <2>1, <2>2
<1> QED  BY <1>1, <1>2, <1>3, <1>4

\* What is in one of the sequences is in the joined one.
LEMMA FlattenHas ==
  ASSUME NEW V, NEW ss \in Seq(Seq(V)), NEW i \in 1 .. Len(ss),
         NEW k \in 1 .. Len(ss[i])
  PROVE  \E j \in 1 .. Len(FlattenSeq(ss)) : FlattenSeq(ss)[j] = ss[i][k]
<1>1. ss # << >> /\ Len(ss) \in Nat  OBVIOUS
<1>2. PICK f \in [1 .. Len(ss) -> Seq(V)] :
             Joins(f, ss) /\ FlattenSeq(ss) = f[Len(ss)]
  BY <1>1, FlattenIs
<1>3. PICK x : x = ss[i][k]  OBVIOUS
<1>4. PICK n : n = Len(ss)  OBVIOUS
<1> DEFINE has(t) == \E j \in 1 .. Len(t) : t[j] = x
           S == {m \in Nat : i <= m /\ m <= n => has(f[m])}
<1>5. 0 \in S  BY <1>4
<1>6. ASSUME NEW m \in Nat, m \in S  PROVE m + 1 \in S
  <2> SUFFICES ASSUME i <= m + 1, m + 1 <= n  PROVE has(f[m + 1])
    OBVIOUS
  <2>1. m + 1 \in 1 .. n /\ n \in Nat /\ i \in Nat  BY <1>1, <1>4
  <2>2. f[m + 1] = IF m + 1 = 1 THEN ss[m + 1] ELSE f[(m + 1) - 1] \o ss[m + 1]
    BY <1>2, <1>4, <2>1 DEF Joins
  <2>3. ss[m + 1] \in Seq(V)  BY <1>4, <2>1
  <2>4. has(ss[i])  BY <1>3
  <2>5. CASE m = 0
    <3>1. i = 1 /\ m + 1 = 1  BY <2>1, <2>5
    <3>2. f[m + 1] = ss[i]  BY <2>2, <3>1
    <3> QED  BY <2>4, <3>2
  <2>6. CASE m # 0
    <3>1. m + 1 # 1 /\ (m + 1) - 1 = m /\ m \in 1 .. n  BY <2>1, <2>6
    <3>2. PICK u : u = f[m]  OBVIOUS
    <3>3. PICK v : v = ss[m + 1]  OBVIOUS
    <3>4. u \in Seq(V) /\ v \in Seq(V)  BY <1>2, <1>4, <2>3, <3>1, <3>2, <3>3
    <3>5. f[m + 1] = u \o v  BY <2>2, <3>1, <3>2, <3>3
    <3>6. has(u) \/ has(v)
      <4>1. CASE i <= m  BY <1>6, <2>1, <3>1, <3>2, <4>1
      <4>2. CASE ~(i <= m)
        <5>1. i = m + 1  BY <2>1, <4>2
        <5> QED  BY <2>4, <3>3, <5>1
      <4> QED  BY <4>1, <4>2
    <3>7. has(u \o v)
      <4>1. Len(u) \in Nat /\ Len(v) \in Nat /\ Len(u \o v) = Len(u) + Len(v)
        BY <3>4, ConcatProperties
      <4>2. \A j \in 1 .. Len(u) + Len(v) :
              (u \o v)[j] = IF j <= Len(u) THEN u[j] ELSE v[j - Len(u)]
        BY <3>4, ConcatProperties
      <4>3. CASE has(u)
        <5>1. PICK j \in 1 .. Len(u) : u[j] = x  BY <4>3
        <5>2. j \in 1 .. Len(u) + Len(v) /\ j <= Len(u)  BY <4>1, <5>1
        <5> QED  BY <4>1, <4>2, <5>1, <5>2
      <4>4. CASE has(v)
        <5>1. PICK j \in 1 .. Len(v) : v[j] = x  BY <4>4
        <5>2. PICK l : l = Len(u) + j  OBVIOUS
        <5>3. /\ l \in 1 .. Len(u) + Len(v) /\ ~(l <= Len(u)) /\ l - Len(u) = j
          BY <4>1, <5>1, <5>2
        <5> QED  BY <4>1, <4>2, <5>1, <5>3
      <4> QED  BY <3>6, <4>3, <4>4
    <3> QED  BY <3>5, <3>7
  <2> QED  BY <2>5, <2>6
<1>7. \A m \in Nat : m \in S
  <2> HIDE DEF S
  <2> QED  BY <1>5, <1>6, Induction
<1>8. has(f[n])  BY <1>1, <1>4, <1>7
<1> QED  BY <1>2, <1>3, <1>4, <1>8

----------------------------------------------------------------------------
(* Finite sets in order *)

\* R puts any two members of S in an order.
StrictOrder(S, R) ==
  /\ \A x, y \in S : x = y \/ <<x, y>> \in R \/ <<y, x>> \in R
  /\ \A x \in S : <<x, x>> \notin R
  /\ \A x, y, z \in S : <<x, y>> \in R /\ <<y, z>> \in R => <<x, z>> \in R

\* The member that comes k-th: k - 1 come before it.
Ranked(S, R) ==
  [k \in 1 .. Cardinality(S) |->
     CHOOSE x \in S : Cardinality({y \in S : <<y, x>> \in R}) = k - 1]

\* Every member of a finite set has one place in the order.
LEMMA RankedIs ==
  ASSUME NEW S, IsFiniteSet(S), NEW R, StrictOrder(S, R)
  PROVE  /\ Ranked(S, R) \in Bijection(1 .. Cardinality(S), S)
         /\ \A i, j \in 1 .. Cardinality(S) :
              i < j => <<Ranked(S, R)[i], Ranked(S, R)[j]>> \in R
<1> DEFINE ahead(x) == {y \in S : <<y, x>> \in R}
<1>0. PICK n : n = Cardinality(S)  OBVIOUS
<1>1. n \in Nat  BY <1>0, FS_CardinalityType
<1>2. \A x \in S : IsFiniteSet(ahead(x)) /\ Cardinality(ahead(x)) \in Nat
  <2> SUFFICES ASSUME NEW x \in S
               PROVE IsFiniteSet(ahead(x)) /\ Cardinality(ahead(x)) \in Nat
    OBVIOUS
  <2>1. ahead(x) \in SUBSET S  OBVIOUS
  <2> QED  BY <2>1, FS_Subset, FS_CardinalityType
<1>3. ASSUME NEW x \in S, NEW y \in S, <<x, y>> \in R
      PROVE  Cardinality(ahead(x)) < Cardinality(ahead(y))
  <2>1. ahead(x) \in SUBSET ahead(y)  BY <1>3 DEF StrictOrder
  <2>2. x \in ahead(y) /\ x \notin ahead(x)  BY <1>3 DEF StrictOrder
  <2>3. Cardinality(ahead(x)) <= Cardinality(ahead(y))
        /\ Cardinality(ahead(x)) # Cardinality(ahead(y))
    <3> HIDE DEF ahead
    <3> QED  BY <1>2, <2>1, <2>2, FS_Subset
  <2> HIDE DEF ahead
  <2> QED  BY <1>2, <2>3
<1>4. ASSUME NEW x \in S  PROVE Cardinality(ahead(x)) \in 0 .. n - 1
  <2>1. ahead(x) \in SUBSET S /\ x \notin ahead(x)  BY DEF StrictOrder
  <2>2. Cardinality(ahead(x)) <= n /\ Cardinality(ahead(x)) # n
    <3> HIDE DEF ahead
    <3> QED  BY <1>0, <2>1, FS_Subset
  <2> HIDE DEF ahead
  <2> QED  BY <1>1, <1>2, <2>2
<1>5. PICK rank : rank = [x \in S |-> Cardinality(ahead(x))]  OBVIOUS
<1>6. rank \in Injection(S, 0 .. n - 1)
  <2>1. rank \in [S -> 0 .. n - 1]  BY <1>4, <1>5
  <2>2. ASSUME NEW x \in S, NEW y \in S, x # y  PROVE rank[x] # rank[y]
    <3>1. <<x, y>> \in R \/ <<y, x>> \in R  BY <2>2 DEF StrictOrder
    <3>2. rank[x] < rank[y] \/ rank[y] < rank[x]
      <4> HIDE DEF ahead
      <4> QED  BY <1>3, <1>5, <3>1
    <3> QED  BY <2>1, <3>2
  <2> QED  BY <2>1, <2>2 DEF Injection, IsInjective
<1>7. rank \in Surjection(S, 0 .. n - 1)
  <2>1. IsFiniteSet(0 .. n - 1) /\ Cardinality(0 .. n - 1) = n
    BY <1>1, FS_Interval
  <2> QED  BY <1>0, <1>6, <2>1, FS_Injection
<1>8. PICK f : f = Ranked(S, R)  OBVIOUS
<1>9. ASSUME NEW k \in 1 .. n  PROVE f[k] \in S /\ rank[f[k]] = k - 1
  <2>1. k - 1 \in 0 .. n - 1  BY <1>1
  <2>2. \E x \in S : Cardinality(ahead(x)) = k - 1
    <3>1. \E x \in S : rank[x] = k - 1  BY <1>7, <2>1 DEF Surjection
    <3> QED  BY <1>5, <3>1
  <2>3. f[k] = CHOOSE x \in S : Cardinality(ahead(x)) = k - 1
    BY <1>0, <1>8 DEF Ranked
  <2>4. f[k] \in S /\ Cardinality(ahead(f[k])) = k - 1
    <3> HIDE DEF ahead
    <3> QED  BY <2>2, <2>3
  <2> QED  BY <1>5, <2>4
<1>10. f \in [1 .. n -> S]
  <2>1. f = [k \in 1 .. n |-> CHOOSE x \in S : Cardinality(ahead(x)) = k - 1]
    BY <1>0, <1>8 DEF Ranked
  <2> HIDE DEF ahead
  <2>2. \A k \in 1 .. n : (CHOOSE x \in S : Cardinality(ahead(x)) = k - 1) = f[k]
    BY <2>1
  <2>3. \A k \in 1 .. n : (CHOOSE x \in S : Cardinality(ahead(x)) = k - 1) \in S
    BY <1>9, <2>2
  <2> QED  BY <2>1, <2>3
<1>11. f \in Bijection(1 .. n, S)
  <2>1. \A i, j \in 1 .. n : f[i] = f[j] => i = j  BY <1>1, <1>9
  <2>2. \A x \in S : \E k \in 1 .. n : f[k] = x
    <3> SUFFICES ASSUME NEW x \in S  PROVE \E k \in 1 .. n : f[k] = x
      OBVIOUS
    <3>1. PICK m : m = rank[x]  OBVIOUS
    <3>2. m \in 0 .. n - 1  BY <1>6, <3>1 DEF Injection
    <3>3. m + 1 \in 1 .. n /\ (m + 1) - 1 = m  BY <1>1, <3>2
    <3>4. f[m + 1] \in S /\ rank[f[m + 1]] = rank[x]  BY <1>9, <3>1, <3>3
    <3>5. f[m + 1] = x  BY <1>6, <3>4 DEF Injection, IsInjective
    <3> QED  BY <3>3, <3>5
  <2> QED  BY <1>10, <2>1, <2>2, Fun_IsBij
<1>12. ASSUME NEW i \in 1 .. n, NEW j \in 1 .. n, i < j
       PROVE  <<f[i], f[j]>> \in R
  <2>1. f[i] # f[j]
    <3>1. i - 1 # j - 1  BY <1>1, <1>12
    <3> QED  BY <1>9, <3>1
  <2>2. ~(<<f[j], f[i]>> \in R)
    <3> SUFFICES ASSUME <<f[j], f[i]>> \in R  PROVE FALSE
      OBVIOUS
    <3>1. rank[f[j]] < rank[f[i]]
      <4>1. f[i] \in S /\ f[j] \in S  BY <1>9
      <4> HIDE DEF ahead
      <4> QED  BY <1>3, <1>5, <4>1
    <3>2. rank[f[i]] = i - 1 /\ rank[f[j]] = j - 1  BY <1>9
    <3> QED  BY <1>1, <1>12, <3>1, <3>2
  <2> QED  BY <1>9, <2>1, <2>2 DEF StrictOrder
<1> QED  BY <1>0, <1>8, <1>11, <1>12

----------------------------------------------------------------------------
(* Sets of naturals as sequences *)

\* s has the members of S from the smallest on.
Lists(s, S) ==
  /\ s \in Seq(S)
  /\ \A x \in S : \E i \in 1 .. Len(s) : s[i] = x
  /\ \A i, j \in 1 .. Len(s) : i < j => s[i] < s[j]

LEMMA ListsTyped ==
  ASSUME NEW S, NEW s, Lists(s, S)
  PROVE  Len(s) \in Nat /\ \A i \in 1 .. Len(s) : s[i] \in S
<1>1. s \in Seq(S)  BY DEF Lists
<1> QED  BY <1>1

\* Two sequences are the same where both are defined.
Meet(s, t) == \A i \in 1 .. Len(s) : i \in 1 .. Len(t) => s[i] = t[i]

LEMMA ListsMeet ==
  ASSUME NEW S, S \subseteq Nat, NEW s, Lists(s, S), NEW t, Lists(t, S)
  PROVE  Meet(s, t)
<1> USE DEF Meet
<1> DEFINE Bad == {i \in 1 .. Len(s) : i \in 1 .. Len(t) /\ s[i] # t[i]}
<1>1. Len(s) \in Nat /\ Len(t) \in Nat  BY ListsTyped
<1>2. \A i \in 1 .. Len(s) : s[i] \in S /\ s[i] \in Nat  BY ListsTyped
<1>3. \A i \in 1 .. Len(t) : t[i] \in S /\ t[i] \in Nat  BY ListsTyped
<1> SUFFICES ASSUME Bad # {}  PROVE FALSE
  OBVIOUS
<1>4. Bad \subseteq Nat  BY <1>1
<1>5. PICK i \in Bad : \A j \in Bad : i <= j
  <2> HIDE DEF Bad
  <2> QED  BY <1>4, LeastNat
<1>6. i \in 1 .. Len(s) /\ i \in 1 .. Len(t) /\ s[i] # t[i] /\ i \in Nat
  BY <1>1
<1>7. \A j \in 1 .. Len(s) : j \in 1 .. Len(t) /\ j < i => s[j] = t[j]
  <2> SUFFICES ASSUME NEW j \in 1 .. Len(s), j \in 1 .. Len(t), j < i, s[j] # t[j]
               PROVE  FALSE
    OBVIOUS
  <2>1. j \in Bad  OBVIOUS
  <2>2. i <= j  BY <1>5, <2>1
  <2> QED  BY <1>1, <1>6, <2>2
<1>8. t[i] < s[i]
  <2>1. PICK j \in 1 .. Len(t) : t[j] = s[i]  BY <1>2, <1>6 DEF Lists
  <2>2. ~(j < i)
    <3> SUFFICES ASSUME j < i  PROVE FALSE
      OBVIOUS
    <3>1. j \in 1 .. Len(s)  BY <1>1, <1>6
    <3>2. s[j] = s[i] /\ s[j] < s[i]  BY <1>6, <1>7, <2>1, <3>1 DEF Lists
    <3> QED  BY <1>2, <1>6, <3>1, <3>2
  <2>3. i < j  BY <1>1, <1>6, <2>1, <2>2
  <2> QED  BY <1>6, <2>1, <2>3 DEF Lists
<1>9. s[i] < t[i]
  <2>1. PICK j \in 1 .. Len(s) : s[j] = t[i]  BY <1>3, <1>6 DEF Lists
  <2>2. ~(j < i)
    <3> SUFFICES ASSUME j < i  PROVE FALSE
      OBVIOUS
    <3>1. j \in 1 .. Len(t)  BY <1>1, <1>6
    <3>2. t[j] = t[i] /\ t[j] < t[i]  BY <1>6, <1>7, <2>1, <3>1 DEF Lists
    <3> QED  BY <1>3, <1>6, <3>1, <3>2
  <2>3. i < j  BY <1>1, <1>6, <2>1, <2>2
  <2> QED  BY <1>6, <2>1, <2>3 DEF Lists
<1> QED  BY <1>2, <1>3, <1>6, <1>8, <1>9

LEMMA ListsLength ==
  ASSUME NEW S, S \subseteq Nat, NEW s, Lists(s, S), NEW t, Lists(t, S)
  PROVE  ~(Len(s) < Len(t))
<1> SUFFICES ASSUME Len(s) < Len(t)  PROVE FALSE
  OBVIOUS
<1>1. PICK m : m = Len(s)  OBVIOUS
<1>2. m \in Nat /\ Len(t) \in Nat  BY <1>1 DEF Lists
<1>3. m + 1 \in 1 .. Len(t)  BY <1>1, <1>2
<1>4. t[m + 1] \in S  BY <1>3 DEF Lists
<1>5. PICK k \in 1 .. Len(s) : s[k] = t[m + 1]  BY <1>4 DEF Lists
<1>6. k \in 1 .. Len(t) /\ k < m + 1  BY <1>1, <1>2, <1>5
<1>7. t[k] = t[m + 1]
  <2>1. Meet(s, t)  BY ListsMeet
  <2> QED  BY <1>5, <1>6, <2>1 DEF Meet
<1>8. t[k] < t[m + 1]  BY <1>3, <1>6 DEF Lists
<1>9. t[m + 1] \in Nat  BY <1>4
<1> QED  BY <1>7, <1>8, <1>9

\* A set can be listed in one way only.
LEMMA ListsAgree ==
  ASSUME NEW S, S \subseteq Nat, NEW s, Lists(s, S), NEW t, Lists(t, S)
  PROVE  s = t
<1>1. Len(s) \in Nat /\ Len(t) \in Nat /\ s \in Seq(S) /\ t \in Seq(S)
  BY DEF Lists
<1>2. ~(Len(s) < Len(t)) /\ ~(Len(t) < Len(s))  BY ListsLength
<1>3. Len(s) = Len(t)  BY <1>1, <1>2
<1>4. \A i \in 1 .. Len(s) : s[i] = t[i]
  <2>1. Meet(s, t)  BY ListsMeet
  <2> QED  BY <1>3, <2>1 DEF Meet
<1> QED  BY <1>1, <1>3, <1>4

\* A set behind another is listed behind it.
LEMMA ListsJoin ==
  ASSUME NEW S, S \subseteq Nat, NEW s, Lists(s, S),
         NEW T, T \subseteq Nat, NEW t, Lists(t, T), \A x \in S, y \in T : x < y
  PROVE  Lists(s \o t, S \cup T)
<1>1. PICK V : V = S \cup T  OBVIOUS
<1>2. s \in Seq(V) /\ t \in Seq(V)  BY <1>1 DEF Lists
<1>3. PICK u : u = s \o t  OBVIOUS
<1>4. PICK m : m = Len(s)  OBVIOUS
<1>5. PICK n : n = Len(t)  OBVIOUS
<1>6. m \in Nat /\ n \in Nat  BY <1>2, <1>4, <1>5
<1>7. /\ u \in Seq(V) /\ Len(u) = m + n
      /\ \A i \in 1 .. m + n : u[i] = IF i <= m THEN s[i] ELSE t[i - m]
  BY <1>2, <1>3, <1>4, <1>5, ConcatProperties
<1>8. ASSUME NEW x \in V  PROVE \E i \in 1 .. Len(u) : u[i] = x
  <2>1. CASE x \in S
    <3>1. PICK i \in 1 .. m : s[i] = x  BY <1>4, <2>1 DEF Lists
    <3>2. i \in 1 .. m + n /\ i <= m  BY <1>6, <3>1
    <3> QED  BY <1>7, <3>1, <3>2
  <2>2. CASE x \in T
    <3>1. PICK i \in 1 .. n : t[i] = x  BY <1>5, <2>2 DEF Lists
    <3>2. i + m \in 1 .. m + n /\ ~(i + m <= m) /\ (i + m) - m = i  BY <1>6, <3>1
    <3>3. u[i + m] = t[i]  BY <1>7, <3>2
    <3> QED  BY <1>7, <3>1, <3>2, <3>3
  <2> QED  BY <1>1, <2>1, <2>2
<1>9. ASSUME NEW i \in 1 .. m + n, NEW j \in 1 .. m + n, i < j
      PROVE  u[i] < u[j]
  <2>1. CASE j <= m
    <3>1. i \in 1 .. m /\ j \in 1 .. m /\ i <= m  BY <1>6, <1>9, <2>1
    <3>2. u[i] = s[i] /\ u[j] = s[j]  BY <1>7, <2>1, <3>1
    <3> QED  BY <1>4, <1>9, <3>1, <3>2 DEF Lists
  <2>2. CASE i <= m /\ ~(j <= m)
    <3>1. i \in 1 .. m /\ j - m \in 1 .. n  BY <1>6, <1>9, <2>2
    <3>2. u[i] = s[i] /\ u[j] = t[j - m]  BY <1>7, <2>2
    <3>3. s[i] \in S /\ t[j - m] \in T  BY <1>4, <1>5, <3>1 DEF Lists
    <3> QED  BY <3>2, <3>3
  <2>3. CASE ~(i <= m)
    <3>1. i - m \in 1 .. n /\ j - m \in 1 .. n /\ i - m < j - m /\ ~(j <= m)
      BY <1>6, <1>9, <2>3
    <3>2. u[i] = t[i - m] /\ u[j] = t[j - m]  BY <1>7, <2>3, <3>1
    <3> QED  BY <1>5, <3>1, <3>2 DEF Lists
  <2> QED  BY <2>1, <2>2, <2>3
<1> QED  BY <1>1, <1>3, <1>7, <1>8, <1>9 DEF Lists

\* An interval.
LEMMA ListsInterval ==
  ASSUME NEW a \in Nat, NEW n \in Nat
  PROVE  Lists([i \in 1 .. n |-> a + i], a + 1 .. a + n)
<1>1. PICK s : s = [i \in 1 .. n |-> a + i]  OBVIOUS
<1>2. s \in [1 .. n -> a + 1 .. a + n]  BY <1>1
<1>3. s \in Seq(a + 1 .. a + n) /\ Len(s) = n  BY <1>2
<1>4. ASSUME NEW x \in a + 1 .. a + n  PROVE \E i \in 1 .. Len(s) : s[i] = x
  <2>1. x - a \in 1 .. n /\ a + (x - a) = x  OBVIOUS
  <2> QED  BY <1>1, <1>3, <2>1
<1>5. \A i, j \in 1 .. Len(s) : i < j => s[i] < s[j]  BY <1>1, <1>3
<1> QED  BY <1>1, <1>3, <1>4, <1>5 DEF Lists

LEMMA ListsOne ==
  ASSUME NEW x \in Nat
  PROVE  Lists(<<x>>, {x})
  BY DEF Lists

LEMMA ListsNone == Lists(<< >>, {})
  BY DEF Lists

\* A part of a list that is listed by its places.
LEMMA ListsPart ==
  ASSUME NEW S, S \subseteq Nat, NEW s, Lists(s, S),
         NEW P, P \subseteq 1 .. Len(s), NEW p, Lists(p, P)
  PROVE  Lists([k \in 1 .. Len(p) |-> s[p[k]]], {s[i] : i \in P})
<1>1. PICK t : t = [k \in 1 .. Len(p) |-> s[p[k]]]  OBVIOUS
<1>2. Len(s) \in Nat /\ Len(p) \in Nat  BY ListsTyped
<1>3. \A k \in 1 .. Len(p) : p[k] \in P /\ p[k] \in 1 .. Len(s)  BY ListsTyped
<1>4. t \in Seq({s[i] : i \in P}) /\ Len(t) = Len(p)
  <2>1. t \in [1 .. Len(p) -> {s[i] : i \in P}]  BY <1>1, <1>3
  <2> QED  BY <1>2, <2>1
<1>5. ASSUME NEW x \in {s[i] : i \in P}  PROVE \E k \in 1 .. Len(t) : t[k] = x
  <2>1. PICK i \in P : x = s[i]  OBVIOUS
  <2>2. PICK k \in 1 .. Len(p) : p[k] = i  BY DEF Lists
  <2> QED  BY <1>1, <1>4, <2>1, <2>2
<1>6. ASSUME NEW k \in 1 .. Len(t), NEW l \in 1 .. Len(t), k < l
      PROVE  t[k] < t[l]
  <2>1. p[k] < p[l]  BY <1>4, <1>6 DEF Lists
  <2>2. s[p[k]] < s[p[l]]  BY <1>3, <1>4, <2>1 DEF Lists
  <2> QED  BY <1>1, <1>4, <2>2
<1> QED  BY <1>1, <1>4, <1>5, <1>6 DEF Lists

----------------------------------------------------------------------------
(* SumFunction *)

\* What holds of a set if it holds of all smaller ones holds of every finite
\* set: for the set Good of those that it holds of.
LEMMA SetInduction ==
  ASSUME NEW D, IsFiniteSet(D), NEW Good,
         \A s \in SUBSET D : (\A t \in SUBSET s : t # s => t \in Good) => s \in Good
  PROVE  \A s \in SUBSET D : s \in Good
<1> DEFINE Bad == {s \in SUBSET D : s \notin Good}
           Sizes == {Cardinality(s) : s \in Bad}
<1>1. \A s \in SUBSET D : IsFiniteSet(s) /\ Cardinality(s) \in Nat
  BY FS_Subset, FS_CardinalityType
<1> SUFFICES ASSUME Bad # {}  PROVE FALSE
  OBVIOUS
<1>2. Sizes \subseteq Nat /\ Sizes # {}  BY <1>1
<1>3. PICK m \in Sizes : \A k \in Sizes : m <= k
  <2> HIDE DEF Sizes
  <2> QED  BY <1>2, LeastNat
<1>4. PICK s \in Bad : m = Cardinality(s)  OBVIOUS
<1>5. \A t \in SUBSET s : t # s => t \in Good
  <2> SUFFICES ASSUME NEW t \in SUBSET s, t # s, t \notin Good  PROVE FALSE
    OBVIOUS
  <2>1. t \in Bad  OBVIOUS
  <2>2. m <= Cardinality(t)  BY <1>3, <2>1
  <2>3. Cardinality(t) <= m /\ Cardinality(t) # m
    <3>1. IsFiniteSet(s)  BY <1>1
    <3>2. /\ Cardinality(t) <= Cardinality(s)
          /\ Cardinality(s) = Cardinality(t) => s = t
      BY <3>1, FS_Subset
    <3> QED  BY <1>4, <3>2
  <2>4. m \in Nat /\ Cardinality(t) \in Nat  BY <1>1, <1>4
  <2> QED  BY <2>2, <2>3, <2>4
<1> QED  BY <1>4, <1>5

\* g has, of every part of D, what a fold makes of it: elements are taken off
\* one after the other, as pick says, and put to what the rest has come to.
Folded(g, D, pick, step, base) ==
  g = [s \in SUBSET D |-> IF s = {} THEN base ELSE step[<<pick[s], g[s \ {pick[s]}]>>]]

LEMMA FoldedExist ==
  ASSUME NEW D, IsFiniteSet(D), NEW W, NEW step \in [D \X W -> W], NEW base \in W,
         NEW pick, \A s \in SUBSET D : s # {} => pick[s] \in s
  PROVE  \E g \in [SUBSET D -> W] : Folded(g, D, pick, step, base)
<1> DEFINE one(s) == pick[s]
           Small(k) == {s \in SUBSET D : Cardinality(s) <= k}
           Good(g, k) == /\ g \in [Small(k) -> W]
                         /\ \A s \in Small(k) :
                              g[s] = IF s = {} THEN base
                                     ELSE step[<<one(s), g[s \ {one(s)}]>>]
           S == {k \in Nat : \E g : Good(g, k)}
<1>1. \A s \in SUBSET D : IsFiniteSet(s) /\ Cardinality(s) \in Nat
  BY FS_Subset, FS_CardinalityType
<1>2. \A s \in SUBSET D : s # {} => one(s) \in s /\ one(s) \in D  OBVIOUS
<1>3. \A s \in SUBSET D : s # {} =>
        s \ {one(s)} \in SUBSET D /\ Cardinality(s \ {one(s)}) = Cardinality(s) - 1
  <2> SUFFICES ASSUME NEW s \in SUBSET D, s # {}
               PROVE  Cardinality(s \ {one(s)}) = Cardinality(s) - 1
    OBVIOUS
  <2> HIDE DEF one
  <2> QED  BY <1>1, <1>2, FS_RemoveElement
<1> HIDE DEF one
<1>4. 0 \in S
  <2>1. PICK g : g = [s \in Small(0) |-> base]  OBVIOUS
  <2>2. \A s \in Small(0) : s = {}
    <3> SUFFICES ASSUME NEW s \in SUBSET D, Cardinality(s) <= 0  PROVE s = {}
      OBVIOUS
    <3>1. Cardinality(s) = 0  BY <1>1
    <3> QED  BY <1>1, <3>1, FS_EmptySet
  <2>3. Good(g, 0)  BY <2>1, <2>2
  <2> QED  BY <2>3
<1>5. ASSUME NEW k \in Nat, k \in S  PROVE k + 1 \in S
  <2>1. PICK g : Good(g, k)  BY <1>5
  <2>2. PICK h : h = [s \in Small(k + 1) |->
                        IF s \in Small(k) THEN g[s] ELSE step[<<one(s), g[s \ {one(s)}]>>]]
    OBVIOUS
  <2>3. \A s \in Small(k + 1) : s # {} => s \ {one(s)} \in Small(k)
    BY <1>1, <1>3
  <2>4. {} \in Small(k)
    <3>1. Cardinality({}) = 0  BY FS_EmptySet
    <3> QED  BY <3>1
  <2>5. \A s \in Small(k) : s \in Small(k + 1)  BY <1>1
  <2>6. \A s \in Small(k) : g[s] \in W  BY <2>1
  <2>7. ASSUME NEW s \in Small(k + 1)
        PROVE  h[s] = IF s = {} THEN base ELSE step[<<one(s), h[s \ {one(s)}]>>]
    <3>1. CASE s \in Small(k)
      <4>1. h[s] = g[s]  BY <2>2, <3>1
      <4>2. s # {} => h[s \ {one(s)}] = g[s \ {one(s)}]
        <5> HIDE DEF Small
        <5> QED  BY <2>2, <2>3, <2>5
      <4> HIDE DEF Small
      <4> QED  BY <2>1, <3>1, <4>1, <4>2
    <3>2. CASE s \notin Small(k)
      <4>1. s # {} /\ s \ {one(s)} \in Small(k)  BY <2>3, <2>4, <3>2
      <4> HIDE DEF Small
      <4>2. h[s] = step[<<one(s), g[s \ {one(s)}]>>] /\ h[s \ {one(s)}] = g[s \ {one(s)}]
        BY <2>2, <2>5, <3>2, <4>1
      <4> QED  BY <4>1, <4>2
    <3> QED  BY <3>1, <3>2
  <2>8. \A s \in Small(k + 1) : h[s] \in W
    <3> SUFFICES ASSUME NEW s \in Small(k + 1)  PROVE h[s] \in W
      OBVIOUS
    <3>1. CASE s \in Small(k)  BY <2>2, <2>6, <3>1
    <3>2. CASE s \notin Small(k)
      <4>1. s # {} /\ s \ {one(s)} \in Small(k)  BY <2>3, <2>4, <3>2
      <4>2. one(s) \in D
        <5>1. s \in SUBSET D  OBVIOUS
        <5> QED  BY <1>2, <4>1, <5>1
      <4> HIDE DEF Small
      <4>3. h[s] = step[<<one(s), g[s \ {one(s)}]>>]  BY <2>2, <3>2
      <4> QED  BY <2>6, <4>1, <4>2, <4>3
    <3> QED  BY <3>1, <3>2
  <2>9. h \in [Small(k + 1) -> W]
    <3> HIDE DEF Small
    <3> QED  BY <2>2, <2>8
  <2>10. Good(h, k + 1)
    <3> HIDE DEF Small
    <3> QED  BY <2>7, <2>9
  <2>11. k + 1 \in Nat  OBVIOUS
  <2> HIDE DEF Good
  <2> QED  BY <2>10, <2>11
<1>6. \A k \in Nat : k \in S
  <2> HIDE DEF S
  <2> QED  BY <1>4, <1>5, Induction
<1>7. PICK n : n = Cardinality(D)  OBVIOUS
<1>8. n \in Nat  BY <1>7, FS_CardinalityType
<1>9. Small(n) = SUBSET D
  <2>1. \A s \in SUBSET D : Cardinality(s) <= n  BY <1>7, FS_Subset
  <2> QED  BY <2>1
<1>10. PICK g : Good(g, n)  BY <1>6, <1>8
<1>11. g \in [SUBSET D -> W]  BY <1>9, <1>10
<1>12. \A s \in SUBSET D : g[s] = IF s = {} THEN base ELSE step[<<one(s), g[s \ {one(s)}]>>]
  BY <1>9, <1>10
<1>13. g = [s \in SUBSET D |-> IF s = {} THEN base ELSE step[<<one(s), g[s \ {one(s)}]>>]]
  <2>1. g = [s \in SUBSET D |-> g[s]]  BY <1>11
  <2> QED  BY <1>12, <2>1
<1>14. Folded(g, D, pick, step, base)  BY <1>13 DEF Folded, one
<1> QED  BY <1>11, <1>14

\* g has the sum of every part of f, taken away element by element.
Adds(g, f) ==
  g = [s \in SUBSET DOMAIN f |->
         IF s = {} THEN 0
         ELSE f[CHOOSE x \in s : TRUE] + g[s \ {CHOOSE x \in s : TRUE}]]

LEMMA AddsExist ==
  ASSUME NEW D, IsFiniteSet(D), NEW f \in [D -> Int]
  PROVE  \E g \in [SUBSET D -> Int] : Adds(g, f)
<1>1. PICK pick : pick = [s \in SUBSET D |-> CHOOSE x \in s : TRUE]  OBVIOUS
<1>2. PICK step : step = [p \in D \X Int |-> f[p[1]] + p[2]]  OBVIOUS
<1>3. step \in [D \X Int -> Int]  BY <1>2
<1>4. \A s \in SUBSET D : s # {} => pick[s] \in s  BY <1>1
<1>5. PICK g \in [SUBSET D -> Int] : Folded(g, D, pick, step, 0)
  <2>1. 0 \in Int  OBVIOUS
  <2>2. PICK W : W = Int  OBVIOUS
  <2>3. \E g \in [SUBSET D -> W] : Folded(g, D, pick, step, 0)
    BY <1>3, <1>4, <2>1, <2>2, FoldedExist
  <2> QED  BY <2>2, <2>3
<1>6. ASSUME NEW s \in SUBSET D, s # {}
      PROVE  step[<<pick[s], g[s \ {pick[s]}]>>] = f[pick[s]] + g[s \ {pick[s]}]
  <2>1. pick[s] \in D /\ g[s \ {pick[s]}] \in Int  BY <1>4, <1>6
  <2> QED  BY <1>2, <2>1
<1>7. \A s \in SUBSET D : pick[s] = CHOOSE x \in s : TRUE  BY <1>1
<1>8. g = [s \in SUBSET D |-> IF s = {} THEN 0 ELSE f[pick[s]] + g[s \ {pick[s]}]]
  <2>1. g = [s \in SUBSET D |-> IF s = {} THEN 0
                                ELSE step[<<pick[s], g[s \ {pick[s]}]>>]]
    BY <1>5 DEF Folded
  <2>2. \A s \in SUBSET D : g[s] = IF s = {} THEN 0 ELSE step[<<pick[s], g[s \ {pick[s]}]>>]
    BY <2>1
  <2>3. \A s \in SUBSET D : g[s] = IF s = {} THEN 0 ELSE f[pick[s]] + g[s \ {pick[s]}]
    BY <1>6, <2>2
  <2>4. g = [s \in SUBSET D |-> g[s]]  OBVIOUS
  <2> QED  BY <2>3, <2>4
<1>9. DOMAIN f = D  OBVIOUS
<1>10. Adds(g, f)  BY <1>7, <1>8, <1>9 DEF Adds
<1> QED  BY <1>10

\* A sum is the same over a part of f, and whichever element is taken first.
LEMMA AddsAgree ==
  ASSUME NEW D, IsFiniteSet(D), NEW f \in [D -> Int], NEW g, Adds(g, f),
         NEW E \in SUBSET D, NEW e \in [E -> Int], NEW h, Adds(h, e),
         \A x \in E : e[x] = f[x]
  PROVE  \A s \in SUBSET E : g[s] = h[s]
<1> DEFINE one(s) == CHOOSE x \in s : TRUE
           Good == {s \in SUBSET E : g[s] = h[s]}
<1>1. IsFiniteSet(E)  BY FS_Subset
<1>2. ASSUME NEW s \in SUBSET E, \A t \in SUBSET s : t # s => t \in Good
      PROVE  s \in Good
  <2>1. CASE s = {}
    <3>1. {} \in SUBSET DOMAIN f /\ {} \in SUBSET DOMAIN e  OBVIOUS
    <3>2. g[{}] = 0 /\ h[{}] = 0  BY <3>1 DEF Adds
    <3> QED  BY <2>1, <3>2
  <2>2. CASE s # {}
    <3>1. one(s) \in s  BY <2>2
    <3>2. s \in SUBSET DOMAIN f /\ s \in SUBSET DOMAIN e  OBVIOUS
    <3>3. /\ g[s] = f[one(s)] + g[s \ {one(s)}]
          /\ h[s] = e[one(s)] + h[s \ {one(s)}]
      BY <2>2, <3>2 DEF Adds
    <3> HIDE DEF one
    <3>4. g[s \ {one(s)}] = h[s \ {one(s)}]
      <4>1. s \ {one(s)} \in SUBSET s /\ s \ {one(s)} # s  BY <3>1
      <4> QED  BY <1>2, <4>1
    <3>5. e[one(s)] = f[one(s)]  BY <3>1
    <3> QED  BY <3>3, <3>4, <3>5
  <2> QED  BY <2>1, <2>2
<1> HIDE DEF Good
<1>3. \A s \in SUBSET E : s \in Good  BY <1>1, <1>2, SetInduction
<1> QED  BY <1>3 DEF Good

Commutes(g, f, D) == \A s \in SUBSET D : \A x \in s : g[s] = f[x] + g[s \ {x}]

LEMMA AddsCommute ==
  ASSUME NEW D, IsFiniteSet(D), NEW f \in [D -> Int],
         NEW g \in [SUBSET D -> Int], Adds(g, f)
  PROVE  Commutes(g, f, D)
<1> DEFINE one(s) == CHOOSE x \in s : TRUE
           Good == {s \in SUBSET D : \A x \in s : g[s] = f[x] + g[s \ {x}]}
<1>1. ASSUME NEW s \in SUBSET D, \A t \in SUBSET s : t # s => t \in Good
      PROVE  s \in Good
  <2> SUFFICES ASSUME NEW x \in s  PROVE g[s] = f[x] + g[s \ {x}]
    OBVIOUS
  <2>1. PICK y : y = one(s)  OBVIOUS
  <2>2. y \in s  BY <2>1
  <2>3. g[s] = f[y] + g[s \ {y}]
    <3>1. s \in SUBSET DOMAIN f /\ s # {}  OBVIOUS
    <3> QED  BY <2>1, <3>1 DEF Adds
  <2>4. CASE x = y  BY <2>3, <2>4
  <2>5. CASE x # y
    <3>1. PICK t : t = s \ {x, y}  OBVIOUS
    <3>2. g[s \ {y}] = f[x] + g[t]
      <4>1. s \ {y} \in SUBSET s /\ s \ {y} # s /\ x \in s \ {y}
            /\ (s \ {y}) \ {x} = t
        BY <2>2, <2>5, <3>1
      <4>2. s \ {y} \in Good  BY <1>1, <4>1
      <4> QED  BY <4>1, <4>2
    <3>3. g[s \ {x}] = f[y] + g[t]
      <4>1. /\ s \ {x} \in SUBSET s /\ s \ {x} # s /\ y \in s \ {x}
            /\ (s \ {x}) \ {y} = t
        BY <2>2, <2>5, <3>1
      <4>2. s \ {x} \in Good  BY <1>1, <4>1
      <4> QED  BY <4>1, <4>2
    <3>4. f[x] \in Int /\ f[y] \in Int /\ g[t] \in Int  BY <2>2, <3>1
    <3> QED  BY <2>3, <3>2, <3>3, <3>4
  <2> QED  BY <2>4, <2>5
<1> HIDE DEF Good
<1>2. \A s \in SUBSET D : s \in Good  BY <1>1, SetInduction
<1> QED  BY <1>2 DEF Good, Commutes

LEMMA SumIs ==
  ASSUME NEW D, IsFiniteSet(D), NEW f \in [D -> Int]
  PROVE  \E g \in [SUBSET D -> Int] : Adds(g, f) /\ SumFunction(f) = g[D]
<1>1. PICK g : g = CHOOSE h : Adds(h, f)  OBVIOUS
<1>2. PICK k \in [SUBSET D -> Int] : Adds(k, f)  BY AddsExist
<1>3. Adds(g, f)  BY <1>1, <1>2
<1>4. SumFunction(f) = (CHOOSE h : Adds(h, f))[DOMAIN f]
  BY DEF SumFunction, SumFunctionOnSet, FoldFunctionOnSet, MapThenFoldSet, Adds
<1>5. \A s \in SUBSET D : g[s] = k[s]  BY <1>2, <1>3, AddsAgree
<1>6. SumFunction(f) = k[D]  BY <1>1, <1>4, <1>5
<1> QED  BY <1>2, <1>6

\* SumFunction adds up what a function has, in any order.
LEMMA SumOf ==
  ASSUME NEW D, IsFiniteSet(D), NEW f \in [D -> Int]
  PROVE  SumFunction(f) \in Int /\ (D = {} => SumFunction(f) = 0)
<1>1. PICK g \in [SUBSET D -> Int] : Adds(g, f) /\ SumFunction(f) = g[D]
  BY SumIs
<1>2. D \in SUBSET DOMAIN f  OBVIOUS
<1> QED  BY <1>1, <1>2 DEF Adds

Part(e, f, E) == \A y \in E : e[y] = f[y]

LEMMA SumTakes ==
  ASSUME NEW D, IsFiniteSet(D), NEW f \in [D -> Int], NEW x \in D,
         NEW E, E = D \ {x}, NEW e \in [E -> Int], Part(e, f, E)
  PROVE  SumFunction(f) = f[x] + SumFunction(e)
<1>1. PICK g \in [SUBSET D -> Int] : Adds(g, f) /\ SumFunction(f) = g[D]
  BY SumIs
<1>2. E \in SUBSET D /\ IsFiniteSet(E)  BY FS_Subset
<1>3. PICK h \in [SUBSET E -> Int] : Adds(h, e) /\ SumFunction(e) = h[E]
  BY <1>2, SumIs
<1>4. g[E] = h[E]
  <2>1. \A y \in E : e[y] = f[y]  BY DEF Part
  <2>2. \A s \in SUBSET E : g[s] = h[s]  BY <1>1, <1>2, <1>3, <2>1, AddsAgree
  <2> QED  BY <2>2
<1>5. g[D] = f[x] + g[D \ {x}]
  <2>1. Commutes(g, f, D)  BY <1>1, AddsCommute
  <2> QED  BY <2>1 DEF Commutes
<1> QED  BY <1>1, <1>3, <1>4, <1>5

----------------------------------------------------------------------------
(* Min and Max; one more element in front *)

LEMMA MinIs ==
  ASSUME NEW S, S \subseteq Int, S # {}, NEW b \in Int, \A x \in S : b <= x
  PROVE  Min(S) \in S /\ \A y \in S : Min(S) <= y
<1>1. PICK T : T = {x - b : x \in S}  OBVIOUS
<1>2. T \subseteq Nat
  <2>1. \A x \in S : x \in Int /\ b <= x  OBVIOUS
  <2>2. \A x \in Int : b <= x => x - b \in Nat  OBVIOUS
  <2> QED  BY <1>1, <2>1, <2>2
<1>3. T # {}  BY <1>1
<1>4. PICK t \in T : \A y \in T : t <= y  BY <1>2, <1>3, LeastNat
<1>5. PICK m \in S : t = m - b  BY <1>1
<1>6. \A y \in S : m <= y
  <2>1. \A y \in S : y \in Int /\ m - b <= y - b  BY <1>1, <1>4, <1>5
  <2>2. m \in Int  OBVIOUS
  <2> QED  BY <2>1, <2>2
<1> QED  BY <1>6 DEF Min

LEMMA MaxIs ==
  ASSUME NEW S, S \subseteq Int, S # {}, NEW b \in Int, \A x \in S : x <= b
  PROVE  Max(S) \in S /\ \A y \in S : y <= Max(S)
<1>1. PICK T : T = {b - x : x \in S}  OBVIOUS
<1>2. T \subseteq Nat
  <2>1. \A x \in S : x \in Int /\ x <= b  OBVIOUS
  <2>2. \A x \in Int : x <= b => b - x \in Nat  OBVIOUS
  <2> QED  BY <1>1, <2>1, <2>2
<1>3. T # {}  BY <1>1
<1>4. PICK t \in T : \A y \in T : t <= y  BY <1>2, <1>3, LeastNat
<1>5. PICK m \in S : t = b - m  BY <1>1
<1>6. \A y \in S : m >= y /\ y \in Int
  <2>1. \A y \in S : y \in Int /\ b - m <= b - y  BY <1>1, <1>4, <1>5
  <2>2. m \in Int  OBVIOUS
  <2> QED  BY <2>1, <2>2
<1>7. Max(S) \in S /\ \A y \in S : Max(S) >= y  BY <1>6 DEF Max
<1>8. \A x, y \in Int : x >= y => y <= x  OBVIOUS
<1> QED  BY <1>6, <1>7, <1>8

\* t has x, and then what f has from 1 to m.
Follow(t, x, f, m) ==
  /\ DOMAIN t = 1 .. m + 1 /\ Len(t) = m + 1
  /\ t[1] = x
  /\ \A a \in 1 .. m : t[a + 1] = f[a]
  /\ \A k \in 1 .. m + 1 : k = 1 \/ \E a \in 1 .. m : k = a + 1

LEMMA Followed ==
  ASSUME NEW x, NEW m \in Nat, NEW f, f = [a \in 1 .. m |-> f[a]]
  PROVE  Follow(<<x>> \o f, x, f, m)
<1>1. PICK W : W = {x} \cup {f[a] : a \in 1 .. m}  OBVIOUS
<1>2. f \in Seq(W) /\ Len(f) = m
  <2>1. f \in [1 .. m -> W]  BY <1>1
  <2> QED  BY <2>1
<1>3. <<x>> \in Seq(W) /\ Len(<<x>>) = 1  BY <1>1
<1>4. PICK t : t = <<x>> \o f  OBVIOUS
<1>5. /\ t \in Seq(W) /\ Len(t) = Len(<<x>>) + Len(f)
      /\ \A i \in 1 .. Len(<<x>>) + Len(f) :
           t[i] = IF i <= Len(<<x>>) THEN <<x>>[i] ELSE f[i - Len(<<x>>)]
  BY <1>2, <1>3, <1>4, ConcatProperties
<1>6. /\ Len(t) = 1 + m
      /\ \A i \in 1 .. 1 + m : t[i] = IF i <= 1 THEN <<x>>[i] ELSE f[i - 1]
  BY <1>2, <1>3, <1>5
<1>7. 1 + m = m + 1 /\ 1 \in 1 .. 1 + m
      /\ \A a \in 1 .. m : /\ a + 1 \in 1 .. 1 + m
                           /\ ~(a + 1 <= 1) /\ a + 1 - 1 = a
  OBVIOUS
<1>8. t[1] = x  BY <1>6, <1>7
<1>9. ASSUME NEW a \in 1 .. m  PROVE t[a + 1] = f[a]
  <2>1. PICK k : k = a + 1  OBVIOUS
  <2>2. k \in 1 .. 1 + m /\ ~(k <= 1) /\ k - 1 = a  BY <1>7, <2>1
  <2>3. t[k] = f[k - 1]  BY <1>6, <2>2
  <2> QED  BY <2>1, <2>2, <2>3
<1>10. DOMAIN t = 1 .. m + 1 /\ Len(t) = m + 1  BY <1>5, <1>6, <1>7
<1>11. ASSUME NEW k \in 1 .. m + 1, k # 1  PROVE \E a \in 1 .. m : k = a + 1
  <2>1. k - 1 \in 1 .. m /\ k = k - 1 + 1  BY <1>11
  <2> QED  BY <2>1
<1> QED  BY <1>4, <1>8, <1>9, <1>10, <1>11 DEF Follow

----------------------------------------------------------------------------
(* Several orders, one after the other: <<i, x, y>> \in Lt says that the    *)
(* i-th puts x before y                                                    *)

\* The i-th puts neither before the other.
Even(Lt, i, x, y) == <<i, x, y>> \notin Lt /\ <<i, y, x>> \notin Lt
WeakOrder(Lt, i, P) ==
  \A x, y, z \in P :
    /\ ~(<<i, x, y>> \in Lt /\ <<i, y, x>> \in Lt)
    /\ <<i, x, y>> \in Lt /\ <<i, z, y>> \notin Lt => <<i, x, z>> \in Lt
    /\ <<i, y, x>> \notin Lt /\ <<i, y, z>> \in Lt => <<i, x, z>> \in Lt

\* The first that tells x from y puts x first.
EvenBelow(Lt, i, x, y) == \A l \in 1 .. i - 1 : Even(Lt, l, x, y)
LexLess(Lt, m, x, y) == \E i \in 1 .. m : EvenBelow(Lt, i, x, y) /\ <<i, x, y>> \in Lt
LexOrder(Lt, m, P) == {e \in P \X P : LexLess(Lt, m, e[1], e[2])}

\* One of the orders tells them apart, and there is a first one.
LEMMA LexFirst ==
  ASSUME NEW m \in Nat, NEW Lt, NEW x, NEW y, NEW k \in 1 .. m, ~Even(Lt, k, x, y)
  PROVE  LexLess(Lt, m, x, y) \/ LexLess(Lt, m, y, x)
<1>1. PICK T : T = {i \in 1 .. m : ~Even(Lt, i, x, y)}  OBVIOUS
<1>2. T \subseteq Nat /\ T # {}  BY <1>1
<1>3. PICK i \in T : \A j \in T : i <= j  BY <1>2, LeastNat
<1>4. i \in 1 .. m /\ ~Even(Lt, i, x, y)  BY <1>1
<1>5. ASSUME NEW l \in 1 .. i - 1  PROVE Even(Lt, l, x, y)
  <2>1. l \in 1 .. m /\ ~(i <= l)  BY <1>4
  <2> QED  BY <1>1, <1>3, <2>1
<1>6. EvenBelow(Lt, i, x, y) /\ EvenBelow(Lt, i, y, x)
  BY <1>5 DEF EvenBelow, Even
<1>7. <<i, x, y>> \in Lt \/ <<i, y, x>> \in Lt  BY <1>4 DEF Even
<1> QED  BY <1>4, <1>6, <1>7 DEF LexLess

LEMMA LexTransitive ==
  ASSUME NEW m \in Nat, NEW P, NEW Lt, \A i \in 1 .. m : WeakOrder(Lt, i, P),
         NEW x \in P, NEW y \in P, NEW z \in P, LexLess(Lt, m, x, y), LexLess(Lt, m, y, z)
  PROVE  LexLess(Lt, m, x, z)
<1>1. PICK i \in 1 .. m : EvenBelow(Lt, i, x, y) /\ <<i, x, y>> \in Lt  BY DEF LexLess
<1>2. PICK j \in 1 .. m : EvenBelow(Lt, j, y, z) /\ <<j, y, z>> \in Lt  BY DEF LexLess
<1>3. ASSUME NEW l \in 1 .. m, Even(Lt, l, x, y), Even(Lt, l, y, z)
      PROVE  Even(Lt, l, x, z)
  BY <1>3 DEF WeakOrder, Even
<1>4. ASSUME NEW k \in 1 .. m, \A l \in 1 .. k - 1 : l \in 1 .. i - 1 /\ l \in 1 .. j - 1
      PROVE  EvenBelow(Lt, k, x, z)
  <2> SUFFICES ASSUME NEW l \in 1 .. k - 1  PROVE Even(Lt, l, x, z)
    BY DEF EvenBelow
  <2>1. l \in 1 .. m  OBVIOUS
  <2>2. Even(Lt, l, x, y) /\ Even(Lt, l, y, z)  BY <1>1, <1>2, <1>4 DEF EvenBelow
  <2> QED  BY <1>3, <2>1, <2>2
<1>5. CASE i < j
  <2>1. i \in 1 .. j - 1 /\ \A l \in 1 .. i - 1 : l \in 1 .. i - 1 /\ l \in 1 .. j - 1
    BY <1>5
  <2>2. Even(Lt, i, y, z)  BY <1>2, <2>1 DEF EvenBelow
  <2>3. <<i, x, z>> \in Lt  BY <1>1, <2>2 DEF WeakOrder, Even
  <2>4. EvenBelow(Lt, i, x, z)  BY <1>4, <2>1
  <2> QED  BY <2>3, <2>4 DEF LexLess
<1>6. CASE j < i
  <2>1. j \in 1 .. i - 1 /\ \A l \in 1 .. j - 1 : l \in 1 .. i - 1 /\ l \in 1 .. j - 1
    BY <1>6
  <2>2. Even(Lt, j, x, y)  BY <1>1, <2>1 DEF EvenBelow
  <2>3. <<j, x, z>> \in Lt  BY <1>2, <2>2 DEF WeakOrder, Even
  <2>4. EvenBelow(Lt, j, x, z)  BY <1>4, <2>1
  <2> QED  BY <2>3, <2>4 DEF LexLess
<1>7. CASE i = j
  <2>1. <<i, x, y>> \in Lt /\ <<i, y, z>> \in Lt  BY <1>1, <1>2, <1>7
  <2>2. <<i, x, z>> \in Lt  BY <2>1 DEF WeakOrder
  <2>3. EvenBelow(Lt, i, x, z)  BY <1>4, <1>7
  <2> QED  BY <2>2, <2>3 DEF LexLess
<1> QED  BY <1>5, <1>6, <1>7

LEMMA LexIsOrder ==
  ASSUME NEW m \in Nat, m # 0, NEW P, NEW Lt,
         \A i \in 1 .. m : WeakOrder(Lt, i, P),
         \A x, y \in P : x # y => ~Even(Lt, m, x, y)
  PROVE  StrictOrder(P, LexOrder(Lt, m, P))
<1>1. PICK R : R = LexOrder(Lt, m, P)  OBVIOUS
<1>2. \A x, y \in P : <<x, y>> \in R <=> LexLess(Lt, m, x, y)  BY <1>1 DEF LexOrder
<1>3. m \in 1 .. m  OBVIOUS
<1>4. \A x, y \in P : x = y \/ <<x, y>> \in R \/ <<y, x>> \in R
  BY <1>2, <1>3, LexFirst
<1>5. ASSUME NEW x \in P  PROVE <<x, x>> \notin R
  <2>1. \A i \in 1 .. m : <<i, x, x>> \notin Lt  BY DEF WeakOrder
  <2> QED  BY <1>2, <2>1 DEF LexLess
<1>6. ASSUME NEW x \in P, NEW y \in P, NEW z \in P, <<x, y>> \in R, <<y, z>> \in R
      PROVE  <<x, z>> \in R
  BY <1>2, <1>6, LexTransitive
<1> QED  BY <1>1, <1>4, <1>5, <1>6 DEF StrictOrder

----------------------------------------------------------------------------
(* Sequences that lie one behind the other in a longer one *)

\* f has s behind its first p elements.
Lies(f, p, s) == p + Len(s) <= Len(f) /\ \A i \in 1 .. Len(s) : f[p + i] = s[i]

LEMMA LiesItself ==
  ASSUME NEW V, NEW s \in Seq(V)
  PROVE  Lies(s, 0, s)
<1>1. \A i \in 1 .. Len(s) : 0 + i = i  OBVIOUS
<1>2. 0 + Len(s) <= Len(s)  OBVIOUS
<1> QED  BY <1>1, <1>2 DEF Lies

LEMMA LiesParted ==
  ASSUME NEW V, NEW s \in Seq(V), NEW t \in Seq(V), NEW f, NEW p \in Nat,
         Len(f) \in Nat, Lies(f, p, s \o t)
  PROVE  Lies(f, p, s) /\ Lies(f, p + Len(s), t)
<1>1. PICK m : m = Len(s)  OBVIOUS
<1>2. PICK n : n = Len(t)  OBVIOUS
<1>3. m \in Nat /\ n \in Nat  BY <1>1, <1>2
<1>4. PICK u : u = s \o t  OBVIOUS
<1>5. /\ Len(u) = m + n
      /\ \A i \in 1 .. m : u[i] = s[i]
      /\ \A i \in 1 .. n : u[m + i] = t[i]
  BY <1>1, <1>2, <1>4
<1>6. p + (m + n) <= Len(f) /\ \A i \in 1 .. m + n : f[p + i] = u[i]
  BY <1>4, <1>5 DEF Lies
<1>7. p + m <= Len(f) /\ \A i \in 1 .. m : f[p + i] = s[i]
  <2>1. \A i \in 1 .. m : i \in 1 .. m + n  BY <1>3
  <2>2. p + m <= Len(f)  BY <1>3, <1>6
  <2> QED  BY <1>5, <1>6, <2>1, <2>2
<1>8. p + m + n <= Len(f) /\ \A i \in 1 .. n : f[p + m + i] = t[i]
  <2>1. \A i \in 1 .. n : m + i \in 1 .. m + n /\ p + (m + i) = p + m + i  BY <1>3
  <2>2. p + m + n <= Len(f)  BY <1>3, <1>6
  <2> QED  BY <1>5, <1>6, <2>1, <2>2
<1> QED  BY <1>1, <1>2, <1>7, <1>8 DEF Lies

\* the first m elements
Begin(ss, m) == [i \in 1 .. m |-> ss[i]]

\* how much is before the c-th of them
LengthBefore(ss, c) == Len(FlattenSeq(Begin(ss, c - 1)))

LEMMA BeginIs ==
  ASSUME NEW V, NEW ss \in Seq(V), NEW m \in 0 .. Len(ss)
  PROVE  Begin(ss, m) \in Seq(V) /\ Len(Begin(ss, m)) = m
<1>1. m \in Nat /\ \A i \in 1 .. m : ss[i] \in V  OBVIOUS
<1>2. Begin(ss, m) \in [1 .. m -> V]  BY <1>1 DEF Begin
<1> QED  BY <1>1, <1>2

LEMMA BeginWhole ==
  ASSUME NEW V, NEW ss \in Seq(V)
  PROVE  Begin(ss, Len(ss)) = ss
  BY DEF Begin

LEMMA FlattenMore ==
  ASSUME NEW V, NEW ss \in Seq(Seq(V)), NEW m \in 1 .. Len(ss)
  PROVE  FlattenSeq(Begin(ss, m)) = FlattenSeq(Begin(ss, m - 1)) \o ss[m]
<1>1. PICK l : l = m - 1  OBVIOUS
<1>2. l \in 0 .. Len(ss) /\ m = l + 1 /\ l \in Nat /\ m \in Nat /\ m <= Len(ss)
  BY <1>1
<1>3. PICK b : b = Begin(ss, l)  OBVIOUS
<1>4. PICK W : W = Seq(V)  OBVIOUS
<1>5. ss \in Seq(W) /\ ss[m] \in W  BY <1>2, <1>4
<1>6. b \in Seq(W) /\ Len(b) = l  BY <1>2, <1>3, <1>5, BeginIs
<1>7. PICK c : c = Begin(ss, m)  OBVIOUS
<1>8. c \in Seq(W) /\ Len(c) = m
  <2>1. m \in 0 .. Len(ss)  BY <1>2
  <2> QED  BY <1>5, <1>7, <2>1, BeginIs
<1>9. PICK d : d = Append(b, ss[m])  OBVIOUS
<1>10. /\ d \in Seq(W) /\ Len(d) = l + 1 /\ d[l + 1] = ss[m]
       /\ \A i \in 1 .. l : d[i] = b[i]
  BY <1>5, <1>6, <1>9
<1>11. c = d
  <2>1. ASSUME NEW i \in 1 .. m  PROVE c[i] = d[i]
    <3>1. c[i] = ss[i]  BY <1>7, <2>1 DEF Begin
    <3>2. CASE i = m  BY <1>2, <1>10, <3>1, <3>2
    <3>3. CASE i # m
      <4>1. i \in 1 .. l  BY <1>2, <3>3
      <4>2. b[i] = ss[i]  BY <1>3, <4>1 DEF Begin
      <4> QED  BY <1>10, <3>1, <4>1, <4>2
    <3> QED  BY <3>2, <3>3
  <2> QED  BY <1>2, <1>8, <1>10, <2>1
<1>12. FlattenSeq(Append(b, ss[m])) = FlattenSeq(b) \o ss[m]
  BY <1>4, <1>5, <1>6, Flattened
<1> QED  BY <1>1, <1>3, <1>7, <1>9, <1>11, <1>12

\* Where the c-th of sequences lies that have been put one behind the other.
LEMMA LiesFlat ==
  ASSUME NEW V, NEW ss \in Seq(Seq(V)), NEW f, NEW p \in Nat,
         Len(f) \in Nat, Lies(f, p, FlattenSeq(ss)), NEW c \in 1 .. Len(ss)
  PROVE  Lies(f, p + LengthBefore(ss, c), ss[c])
<1>1. PICK n : n = Len(ss)  OBVIOUS
<1>2. n \in Nat  BY <1>1
<1>3. ASSUME NEW m \in 0 .. n
      PROVE  FlattenSeq(Begin(ss, m)) \in Seq(V)
  <2>1. PICK W : W = Seq(V)  OBVIOUS
  <2>2. Begin(ss, m) \in Seq(W)  BY <1>1, <2>1, BeginIs
  <2> QED  BY <2>1, <2>2, Flattened
<1> DEFINE S == {k \in Nat : k <= n => Lies(f, p, FlattenSeq(Begin(ss, n - k)))}
<1>4. 0 \in S
  <2>1. n - 0 = n  BY <1>2
  <2>2. Begin(ss, n) = ss  BY <1>1, BeginWhole
  <2> QED  BY <2>1, <2>2
<1>5. ASSUME NEW k \in Nat, k \in S  PROVE k + 1 \in S
  <2> SUFFICES ASSUME k + 1 <= n  PROVE Lies(f, p, FlattenSeq(Begin(ss, n - (k + 1))))
    OBVIOUS
  <2>1. PICK m : m = n - k  OBVIOUS
  <2>2. m \in 1 .. n /\ m - 1 = n - (k + 1) /\ m - 1 \in 0 .. n  BY <1>2, <2>1
  <2>3. Lies(f, p, FlattenSeq(Begin(ss, m)))  BY <1>2, <1>5, <2>1
  <2>4. FlattenSeq(Begin(ss, m)) = FlattenSeq(Begin(ss, m - 1)) \o ss[m]
    BY <1>1, <2>2, FlattenMore
  <2>5. ss[m] \in Seq(V) /\ FlattenSeq(Begin(ss, m - 1)) \in Seq(V)
    <3>1. PICK W : W = Seq(V)  OBVIOUS
    <3>2. ss[m] \in W  BY <1>1, <2>2, <3>1
    <3> QED  BY <1>3, <2>2, <3>1, <3>2
  <2>6. Lies(f, p, FlattenSeq(Begin(ss, m - 1)))
    BY <2>3, <2>4, <2>5, LiesParted
  <2> QED  BY <2>2, <2>6
<1>6. \A k \in Nat : k \in S
  <2> HIDE DEF S
  <2> QED  BY <1>4, <1>5, Induction
<1>7. n - c \in Nat /\ n - c <= n /\ n - (n - c) = c /\ c \in 0 .. n /\ c - 1 \in 0 .. n
  BY <1>1, <1>2
<1>8. Lies(f, p, FlattenSeq(Begin(ss, c)))  BY <1>6, <1>7
<1>9. FlattenSeq(Begin(ss, c)) = FlattenSeq(Begin(ss, c - 1)) \o ss[c]
  BY FlattenMore
<1>10. ss[c] \in Seq(V) /\ FlattenSeq(Begin(ss, c - 1)) \in Seq(V)
  BY <1>3, <1>7
<1>11. Lies(f, p + Len(FlattenSeq(Begin(ss, c - 1))), ss[c])
  BY <1>8, <1>9, <1>10, LiesParted
<1> QED  BY <1>11 DEF LengthBefore

LEMMA LengthBeforeIs ==
  ASSUME NEW V, NEW ss \in Seq(Seq(V)), NEW c \in 1 .. Len(ss)
  PROVE  /\ LengthBefore(ss, c) \in Nat
         /\ LengthBefore(ss, c + 1) = LengthBefore(ss, c) + Len(ss[c])
<1>1. c - 1 \in 0 .. Len(ss) /\ c + 1 - 1 = c  OBVIOUS
<1>2. PICK W : W = Seq(V)  OBVIOUS
<1>3. ss \in Seq(W) /\ ss[c] \in W  BY <1>2
<1>4. Begin(ss, c - 1) \in Seq(W)  BY <1>1, <1>3, BeginIs
<1>5. PICK s : s = FlattenSeq(Begin(ss, c - 1))  OBVIOUS
<1>6. s \in Seq(V)  BY <1>2, <1>4, <1>5, Flattened
<1>7. FlattenSeq(Begin(ss, c)) = s \o ss[c]  BY <1>5, FlattenMore
<1>8. Len(s \o ss[c]) = Len(s) + Len(ss[c]) /\ Len(s) \in Nat
  BY <1>2, <1>3, <1>6
<1>9. LengthBefore(ss, c) = Len(s)  BY <1>5 DEF LengthBefore
<1>10. LengthBefore(ss, c + 1) = Len(s \o ss[c])
  <2>1. PICK d : d = c + 1  OBVIOUS
  <2>2. d - 1 = c  BY <2>1
  <2>3. LengthBefore(ss, d) = Len(FlattenSeq(Begin(ss, c)))  BY <2>2 DEF LengthBefore
  <2> QED  BY <1>7, <2>1, <2>3
<1> QED  BY <1>8, <1>9, <1>10

LEMMA LengthBeforeFirst ==
  ASSUME NEW ss
  PROVE  LengthBefore(ss, 1) = 0
<1>1. Begin(ss, 1 - 1) = << >>  BY DEF Begin
<1>2. FlattenSeq(<< >>) = << >>  BY Flattened
<1> QED  BY <1>1, <1>2 DEF LengthBefore

LEMMA LengthBeforeEnd ==
  ASSUME NEW V, NEW ss \in Seq(V)
  PROVE  LengthBefore(ss, Len(ss) + 1) = Len(FlattenSeq(ss))
<1>1. Len(ss) + 1 - 1 = Len(ss)  OBVIOUS
<1> QED  BY <1>1, BeginWhole DEF LengthBefore

\* The first place from i on that a set of places has, the end being one of them.
LEMMA FirstIn ==
  ASSUME NEW i \in Nat, NEW n \in Nat, NEW T, T \subseteq i .. n, n \in T
  PROVE  \E j \in T : \A k \in i .. j - 1 : k \notin T
<1>1. T \subseteq Nat /\ T # {}  OBVIOUS
<1>2. PICK j \in T : \A k \in T : j <= k  BY <1>1, LeastNat
<1>3. \A k \in i .. j - 1 : ~(j <= k)  BY <1>1
<1> QED  BY <1>2, <1>3

----------------------------------------------------------------------------
(* Pieces between tokens of one type *)

\* How many of some places are up to i, as i goes on.
LEMMA UpToIs ==
  ASSUME NEW m \in Nat, NEW C, C \subseteq 1 .. m, NEW i \in Nat
  PROVE  /\ IsFiniteSet(C) /\ Cardinality(C) \in Nat
         /\ UpTo(C, i) \in 0 .. Cardinality(C)
         /\ i >= m => UpTo(C, i) = Cardinality(C)
<1>1. IsFiniteSet(C)
  <2>1. 1 \in Int /\ m \in Int  OBVIOUS
  <2>2. IsFiniteSet(1 .. m)  BY <2>1, FS_Interval
  <2> QED  BY <2>2, FS_Subset
<1>2. PICK D : D = {k \in C : k <= i}  OBVIOUS
<1>3. D \subseteq C  BY <1>2
<1>4. /\ IsFiniteSet(D) /\ Cardinality(D) \in Nat /\ Cardinality(C) \in Nat
      /\ Cardinality(D) <= Cardinality(C)
  BY <1>1, <1>3, FS_Subset, FS_CardinalityType
<1>5. UpTo(C, i) = Cardinality(D)  BY <1>2 DEF UpTo
<1>6. i >= m => D = C
  <2> SUFFICES ASSUME i >= m  PROVE D = C
    OBVIOUS
  <2>1. \A k \in C : k \in Nat /\ k <= m  OBVIOUS
  <2>2. \A k \in C : k <= i  BY <2>1
  <2> QED  BY <1>2, <2>2
<1> QED  BY <1>1, <1>4, <1>5, <1>6

\* The cuts of a sequence, and one more behind them.
LEMMA NthAre ==
  ASSUME NEW m \in Nat, NEW C, C \subseteq 1 .. m
  PROVE  LET n == Cardinality(C)
             D == C \cup {m + 1}
         IN /\ n \in Nat /\ Cardinality(D) = n + 1
            /\ \A k \in 1 .. n : Nth(C, k) \in 1 .. m /\ Nth(D, k) = Nth(C, k)
            /\ Nth(D, n + 1) = m + 1
<1>1. PICK n : n = Cardinality(C)  OBVIOUS
<1>2. PICK D : D = C \cup {m + 1}  OBVIOUS
<1>3. IsFiniteSet(C) /\ n \in Nat  BY <1>1, UpToIs
<1>4. m + 1 \notin C  OBVIOUS
<1>5. Cardinality(D) = n + 1  BY <1>1, <1>2, <1>3, <1>4, FS_AddElement
<1>6. ASSUME NEW i \in 1 .. m  PROVE UpTo(D, i) = UpTo(C, i)
  <2>1. {k \in D : k <= i} = {k \in C : k <= i}  BY <1>2, <1>6
  <2> QED  BY <2>1 DEF UpTo
<1>7. UpTo(D, m + 1) = n + 1
  <2>1. D \subseteq 1 .. m + 1 /\ m + 1 \in Nat /\ m + 1 >= m + 1
    <3>1. C \subseteq 1 .. m + 1  OBVIOUS
    <3> QED  BY <1>2, <3>1
  <2>2. \A i \in Nat : i >= m + 1 => UpTo(D, i) = Cardinality(D)
    BY <2>1, UpToIs
  <2> QED  BY <1>5, <2>1, <2>2
<1>8. ASSUME NEW k \in 1 .. n
      PROVE  Nth(C, k) \in 1 .. m /\ Nth(D, k) = Nth(C, k)
  <2>1. PICK A : A = {i \in C : UpTo(C, i) >= k}  OBVIOUS
  <2>2. PICK B : B = {i \in D : UpTo(D, i) >= k}  OBVIOUS
  <2>3. A \subseteq Nat /\ B \subseteq Nat
    <3>1. C \subseteq Nat /\ m + 1 \in Nat  OBVIOUS
    <3>2. D \subseteq Nat  BY <1>2, <3>1
    <3>3. A \subseteq C /\ B \subseteq D  BY <2>1, <2>2
    <3> QED  BY <3>1, <3>2, <3>3
  <2>4. C # {}  BY <1>1, <1>8, FS_EmptySet
  <2>5. PICK j \in C : \A i \in C : i <= j
    <3>1. PICK E : E = {x \in 0 .. m : \E i \in C : i = m - x}  OBVIOUS
    <3>2. E \subseteq Nat /\ E # {}
      <4>1. PICK i \in C : TRUE  BY <2>4
      <4>2. m - i \in 0 .. m /\ i = m - (m - i)  OBVIOUS
      <4>3. m - i \in E  BY <3>1, <4>2
      <4>4. \A x \in E : x \in 0 .. m  BY <3>1
      <4>5. \A x \in E : x \in Nat  BY <4>4
      <4> QED  BY <4>3, <4>5
    <3>3. PICK x \in E : \A y \in E : x <= y  BY <3>2, LeastNat
    <3>4. m - x \in C /\ x \in 0 .. m  BY <3>1, <3>3
    <3>5. ASSUME NEW i \in C  PROVE i <= m - x
      <4>1. m - i \in E
        <5>1. m - i \in 0 .. m /\ i = m - (m - i)  OBVIOUS
        <5> QED  BY <3>1, <5>1
      <4> QED  BY <3>3, <3>4, <4>1
    <3> QED  BY <3>4, <3>5
  <2>6. UpTo(C, j) = n
    <3>1. {i \in C : i <= j} = C  BY <2>5
    <3> QED  BY <1>1, <3>1 DEF UpTo
  <2>7. j \in A  BY <1>8, <1>3, <2>1, <2>5, <2>6
  <2>8. Nth(C, k) \in A
    <3>1. \E x \in A : \A y \in A : x <= y  BY <2>3, <2>7, LeastNat
    <3> QED  BY <2>1, <3>1 DEF Nth, Min
  <2>9. PICK x : x = Nth(C, k)  OBVIOUS
  <2>10. x \in A /\ \A y \in A : x <= y
    <3>1. \E x_1 \in A : \A y \in A : x_1 <= y  BY <2>3, <2>7, LeastNat
    <3> QED  BY <2>1, <2>9, <3>1 DEF Nth, Min
  <2>11. B = A \cup {m + 1}
    <3>1. \A i \in C : i \in B <=> i \in A  BY <1>2, <1>6, <2>1, <2>2
    <3>2. m + 1 \in B  BY <1>2, <1>3, <1>7, <1>8, <2>2
    <3> QED  BY <1>2, <2>1, <2>2, <3>1, <3>2
  <2>12. x \in B /\ \A y \in B : x <= y
    <3>1. x <= m + 1  BY <2>1, <2>10
    <3> QED  BY <2>10, <2>11, <3>1
  <2>13. \A y \in B : (\A z \in B : y <= z) => y = x
    BY <2>3, <2>12
  <2>14. Nth(D, k) = x
    <3>1. PICK y : y = Nth(D, k)  OBVIOUS
    <3>2. y \in B /\ \A z \in B : y <= z
      BY <2>2, <2>12, <3>1 DEF Nth, Min
    <3> QED  BY <2>13, <3>1, <3>2
  <2> QED  BY <2>1, <2>8, <2>9, <2>14
<1>9. Nth(D, n + 1) = m + 1
  <2>1. PICK B : B = {i \in D : UpTo(D, i) >= n + 1}  OBVIOUS
  <2>2. ASSUME NEW i \in C  PROVE UpTo(D, i) \in 0 .. n
    <3>1. i \in Nat /\ i \in 1 .. m  OBVIOUS
    <3>2. UpTo(C, i) \in 0 .. Cardinality(C)  BY <3>1, UpToIs
    <3> QED  BY <1>1, <1>6, <3>1, <3>2
  <2>3. \A i \in C : ~(UpTo(D, i) >= n + 1)
    <3> SUFFICES ASSUME NEW i \in C  PROVE ~(UpTo(D, i) >= n + 1)
      OBVIOUS
    <3> QED  BY <1>3, <2>2
  <2>4. B = {m + 1}
    <3>1. n + 1 >= n + 1  BY <1>3
    <3>2. m + 1 \in B  BY <1>2, <1>7, <2>1, <3>1
    <3>3. \A i \in B : i = m + 1  BY <1>2, <2>1, <2>3
    <3> QED  BY <3>2, <3>3
  <2>5. PICK x : x = Nth(D, n + 1)  OBVIOUS
  <2>6. x \in B
    <3>1. m + 1 \in B /\ \A y \in B : m + 1 <= y  BY <2>4
    <3> QED  BY <2>1, <2>5, <3>1 DEF Nth, Min
  <2> QED  BY <2>4, <2>5, <2>6
<1> QED  BY <1>1, <1>2, <1>3, <1>5, <1>8, <1>9

Cuts(s, type) == {i \in DOMAIN s : s[i].type = type}

CutAt(s, type, k) ==
  IF k = 0 THEN 0
  ELSE IF k > Cardinality(Cuts(s, type)) THEN Len(s) + 1 ELSE Nth(Cuts(s, type), k)

LEMMA PiecesAre ==
  ASSUME NEW s, NEW type
  PROVE  Pieces(s, type) =
           [k \in 1 .. Cardinality(Cuts(s, type)) + 1 |->
              SubSeq(s, CutAt(s, type, k - 1) + 1, CutAt(s, type, k) - 1)]
  BY DEF Pieces, Cuts, CutAt

\* The token begins a new piece, or goes on with the last.
Grown(U, M, t, type) ==
  IF t.type = type THEN M = Append(U, << >>)
  ELSE M = [U EXCEPT ![Len(U)] = Append(U[Len(U)], t)]

LEMMA PiecesGrow ==
  ASSUME NEW T, NEW s \in Seq(T), NEW t \in T, NEW type
  PROVE  /\ Pieces(s, type) \in Seq(Seq(T)) /\ Len(Pieces(s, type)) >= 1
         /\ Pieces(Append(s, t), type) \in Seq(Seq(T))
         /\ Grown(Pieces(s, type), Pieces(Append(s, t), type), t, type)
<1>1. PICK m : m = Len(s)  OBVIOUS
<1>2. PICK C : C = Cuts(s, type)  OBVIOUS
<1>3. PICK u : u = Append(s, t)  OBVIOUS
<1>4. PICK D : D = Cuts(u, type)  OBVIOUS
<1>5. m \in Nat /\ DOMAIN s = 1 .. m /\ C \subseteq 1 .. m  BY <1>1, <1>2 DEF Cuts
<1>6. PICK n : n = Cardinality(C)  OBVIOUS
<1>7. /\ n \in Nat
      /\ \A k \in 1 .. n : Nth(C, k) \in 1 .. m
      /\ Cardinality(C \cup {m + 1}) = n + 1
      /\ \A k \in 1 .. n : Nth(C \cup {m + 1}, k) = Nth(C, k)
      /\ Nth(C \cup {m + 1}, n + 1) = m + 1
  BY <1>5, <1>6, NthAre, ZenonT(60)
<1>8. /\ u \in Seq(T) /\ Len(u) = m + 1 /\ DOMAIN u = 1 .. m + 1 /\ u[m + 1] = t
      /\ \A i \in 1 .. m : u[i] = s[i]
  BY <1>1, <1>3
<1>9. D = IF t.type = type THEN C \cup {m + 1} ELSE C
  <2>1. 1 .. m + 1 = (1 .. m) \cup {m + 1}  BY <1>5
  <2> QED  BY <1>2, <1>4, <1>5, <1>8, <2>1 DEF Cuts
<1>10. PICK a : a = [k \in 0 .. n |-> CutAt(s, type, k)]  OBVIOUS
<1>11. \A k \in 0 .. n : a[k] \in 0 .. m
  <2> SUFFICES ASSUME NEW k \in 0 .. n  PROVE a[k] \in 0 .. m
    OBVIOUS
  <2>1. a[k] = IF k = 0 THEN 0 ELSE Nth(C, k)
    BY <1>2, <1>6, <1>7, <1>10 DEF CutAt
  <2> QED  BY <1>5, <1>7, <2>1
<1>12. \A k \in 0 .. n : CutAt(s, type, k) = a[k] /\ CutAt(u, type, k) = a[k]
  <2> SUFFICES ASSUME NEW k \in 0 .. n  PROVE CutAt(u, type, k) = a[k]
    BY <1>10
  <2>1. a[k] = IF k = 0 THEN 0 ELSE Nth(C, k)
    BY <1>2, <1>6, <1>7, <1>10 DEF CutAt
  <2>2. k > 0 => Nth(D, k) = Nth(C, k)
    <3> SUFFICES ASSUME k > 0  PROVE Nth(D, k) = Nth(C, k)
      OBVIOUS
    <3>1. k \in 1 .. n  BY <1>7
    <3>2. Nth(C \cup {m + 1}, k) = Nth(C, k)  BY <1>7, <3>1
    <3> QED  BY <1>9, <3>2
  <2>3. ~(k > Cardinality(D))  BY <1>6, <1>7, <1>9
  <2> QED  BY <1>4, <2>1, <2>2, <2>3 DEF CutAt
<1>13. CutAt(s, type, n + 1) = m + 1
  BY <1>1, <1>2, <1>6, <1>7 DEF CutAt
<1>14. PICK U : U = Pieces(s, type)  OBVIOUS
<1>15. PICK M : M = Pieces(u, type)  OBVIOUS
<1>16. U = [k \in 1 .. n + 1 |-> SubSeq(s, CutAt(s, type, k - 1) + 1, CutAt(s, type, k) - 1)]
  BY <1>2, <1>6, <1>14, PiecesAre
<1>17. /\ DOMAIN U = 1 .. n + 1
       /\ \A k \in 1 .. n : U[k] = SubSeq(s, a[k - 1] + 1, a[k] - 1)
       /\ U[n + 1] = SubSeq(s, a[n] + 1, m)
  <2>1. DOMAIN U = 1 .. n + 1  BY <1>16
  <2>2. ASSUME NEW k \in 1 .. n  PROVE U[k] = SubSeq(s, a[k - 1] + 1, a[k] - 1)
    <3>1. k \in 1 .. n + 1 /\ k - 1 \in 0 .. n /\ k \in 0 .. n  BY <1>7
    <3> QED  BY <1>12, <1>16, <3>1
  <2>3. U[n + 1] = SubSeq(s, a[n] + 1, m)
    <3>1. n + 1 \in 1 .. n + 1 /\ (n + 1) - 1 = n /\ n \in 0 .. n /\ (m + 1) - 1 = m
      BY <1>5, <1>7
    <3>2. U[n + 1] = SubSeq(s, CutAt(s, type, n) + 1, CutAt(s, type, n + 1) - 1)
      BY <1>16, <3>1
    <3> QED  BY <1>12, <1>13, <3>1, <3>2
  <2> QED  BY <2>1, <2>2, <2>3
<1>18. ASSUME NEW i \in 0 .. m, NEW j \in 0 .. m + 1
       PROVE  SubSeq(s, i + 1, j - 1) \in Seq(T) /\ SubSeq(u, i + 1, j - 1) = SubSeq(s, i + 1, j - 1)
  <2>1. i + 1 \in Int /\ j - 1 \in Int /\ \A k \in i + 1 .. j - 1 : k \in 1 .. m
    BY <1>5
  <2>2. SubSeq(s, i + 1, j - 1) \in Seq(T) /\ SubSeq(u, i + 1, j - 1) \in Seq(T)
    BY <1>1, <1>5, <1>8, <2>1
  <2>3. /\ Len(SubSeq(s, i + 1, j - 1)) = Len(SubSeq(u, i + 1, j - 1))
        /\ \A k \in 1 .. Len(SubSeq(s, i + 1, j - 1)) :
             SubSeq(s, i + 1, j - 1)[k] = SubSeq(u, i + 1, j - 1)[k]
    BY <1>1, <1>5, <1>8, <2>1
  <2> QED  BY <2>2, <2>3, SeqEqual
<1>19. U \in Seq(Seq(T)) /\ Len(U) = n + 1
  <2>1. \A k \in 1 .. n + 1 : U[k] \in Seq(T)
    <3> SUFFICES ASSUME NEW k \in 1 .. n + 1  PROVE U[k] \in Seq(T)
      OBVIOUS
    <3>1. CASE k \in 1 .. n
      <4>1. a[k - 1] \in 0 .. m /\ a[k] \in 0 .. m + 1  BY <1>5, <1>7, <1>11, <3>1
      <4> QED  BY <1>17, <1>18, <3>1, <4>1
    <3>2. CASE k = n + 1
      <4>1. a[n] \in 0 .. m /\ m + 1 \in 0 .. m + 1 /\ (m + 1) - 1 = m  BY <1>5, <1>7, <1>11
      <4>2. SubSeq(s, a[n] + 1, (m + 1) - 1) \in Seq(T)  BY <1>18, <4>1
      <4> QED  BY <1>17, <3>2, <4>1, <4>2
    <3> QED  BY <1>7, <3>1, <3>2
  <2> QED  BY <1>7, <1>16, <1>17, <2>1
<1>20. CASE t.type = type
  <2>1. Cardinality(D) = n + 1 /\ n + 1 \in Nat  BY <1>7, <1>9, <1>20
  <2>2. M = [k \in 1 .. (n + 1) + 1 |-> SubSeq(u, CutAt(u, type, k - 1) + 1, CutAt(u, type, k) - 1)]
    BY <1>4, <1>15, <2>1, PiecesAre
  <2>3. CutAt(u, type, n + 1) = m + 1
    BY <1>4, <1>7, <1>9, <1>20, <2>1 DEF CutAt
  <2>4. CutAt(u, type, n + 2) = m + 2
    BY <1>4, <1>5, <1>7, <1>8, <2>1 DEF CutAt
  <2>5. PICK K : K = Append(U, << >>)  OBVIOUS
  <2>6. << >> \in Seq(T)  OBVIOUS
  <2>7. /\ K \in Seq(Seq(T)) /\ DOMAIN K = 1 .. n + 2 /\ K[n + 2] = << >>
        /\ \A k \in 1 .. n + 1 : K[k] = U[k]
        /\ K = [k \in 1 .. n + 2 |-> K[k]]
    <3>1. /\ K \in Seq(Seq(T)) /\ Len(K) = (n + 1) + 1 /\ K[(n + 1) + 1] = << >>
          /\ \A k \in 1 .. n + 1 : K[k] = U[k]
      BY <1>19, <2>5, <2>6, AppendProperties
    <3>2. (n + 1) + 1 = n + 2  BY <1>7
    <3>3. DOMAIN K = 1 .. n + 2 /\ K \in [1 .. n + 2 -> Seq(T)]
      BY <3>1, <3>2, LenProperties
    <3> QED  BY <3>1, <3>2, <3>3
  <2>8. DOMAIN M = 1 .. n + 2 /\ M = [k \in 1 .. n + 2 |-> M[k]]
    <3>1. (n + 1) + 1 = n + 2  BY <1>7
    <3> QED  BY <2>2, <3>1
  <2>9. ASSUME NEW k \in 1 .. n + 2  PROVE M[k] = K[k]
    <3>1. M[k] = SubSeq(u, CutAt(u, type, k - 1) + 1, CutAt(u, type, k) - 1)
      <4>1. (n + 1) + 1 = n + 2  BY <1>7
      <4> QED  BY <2>2, <4>1
    <3>2. CASE k \in 1 .. n
      <4>1. k - 1 \in 0 .. n /\ k \in 0 .. n /\ k \in 1 .. n + 1  BY <1>7, <3>2
      <4>2. M[k] = SubSeq(u, a[k - 1] + 1, a[k] - 1)  BY <1>12, <3>1, <4>1
      <4>3. a[k - 1] \in 0 .. m /\ a[k] \in 0 .. m + 1  BY <1>5, <1>11, <4>1
      <4> QED  BY <1>17, <1>18, <2>7, <3>2, <4>1, <4>2, <4>3
    <3>3. CASE k = n + 1
      <4>1. k - 1 \in 0 .. n /\ k - 1 = n /\ k \in 1 .. n + 1  BY <1>7, <3>3
      <4>2. M[k] = SubSeq(u, a[n] + 1, (m + 1) - 1)  BY <1>12, <2>3, <3>1, <3>3, <4>1
      <4>3. a[n] \in 0 .. m /\ m + 1 \in 0 .. m + 1 /\ (m + 1) - 1 = m  BY <1>5, <1>7, <1>11
      <4> QED  BY <1>17, <1>18, <2>7, <3>3, <4>1, <4>2, <4>3
    <3>4. CASE k = n + 2
      <4>1. k - 1 = n + 1  BY <1>7, <3>4
      <4>2. M[k] = SubSeq(u, (m + 1) + 1, (m + 2) - 1)  BY <2>3, <2>4, <3>1, <3>4, <4>1
      <4>3. M[k] = << >>
        <5>1. (m + 1) + 1 = m + 2 /\ (m + 2) - 1 = m + 1 /\ m + 2 > m + 1  BY <1>5
        <5> QED  BY <1>5, <1>8, <4>2, <5>1
      <4> QED  BY <2>7, <3>4, <4>3
    <3> QED  BY <1>7, <3>2, <3>3, <3>4
  <2>10. M = K  BY <2>7, <2>8, <2>9
  <2>11. Len(U) >= 1  BY <1>7, <1>19
  <2> QED  BY <1>3, <1>14, <1>15, <1>19, <1>20, <2>5, <2>7, <2>10, <2>11 DEF Grown
<1>21. CASE t.type # type
  <2>1. Cardinality(D) = n  BY <1>6, <1>9, <1>21
  <2>2. M = [k \in 1 .. n + 1 |-> SubSeq(u, CutAt(u, type, k - 1) + 1, CutAt(u, type, k) - 1)]
    BY <1>4, <1>15, <2>1, PiecesAre
  <2>3. CutAt(u, type, n + 1) = m + 2
    BY <1>4, <1>5, <1>7, <1>8, <2>1 DEF CutAt
  <2>4. PICK K : K = [U EXCEPT ![n + 1] = Append(@, t)]  OBVIOUS
  <2>5. U[n + 1] \in Seq(T) /\ Append(U[n + 1], t) \in Seq(T)
    BY <1>7, <1>19
  <2>6. /\ K \in Seq(Seq(T)) /\ DOMAIN K = 1 .. n + 1 /\ K[n + 1] = Append(U[n + 1], t)
        /\ \A k \in 1 .. n : K[k] = U[k]
        /\ K = [k \in 1 .. n + 1 |-> K[k]]
    <3>1. n + 1 \in 1 .. Len(U) /\ 1 .. Len(U) = 1 .. n + 1 /\ Len(U) = n + 1
      BY <1>7, <1>19
    <3>2. K = [U EXCEPT ![n + 1] = Append(U[n + 1], t)]  BY <2>4
    <3>3. /\ K \in Seq(Seq(T)) /\ Len(K) = n + 1
          /\ \A j \in 1 .. n + 1 : K[j] = IF j = n + 1 THEN Append(U[n + 1], t) ELSE U[j]
      BY <1>19, <2>5, <3>1, <3>2, ExceptSeq
    <3>4. DOMAIN K = 1 .. n + 1 /\ K \in [1 .. n + 1 -> Seq(T)]
      BY <3>3, LenProperties
    <3>5. \A k \in 1 .. n : k \in 1 .. n + 1 /\ k # n + 1  BY <1>7
    <3> QED  BY <3>1, <3>3, <3>4, <3>5
  <2>7. DOMAIN M = 1 .. n + 1 /\ M = [k \in 1 .. n + 1 |-> M[k]]  BY <2>2
  <2>8. ASSUME NEW k \in 1 .. n + 1  PROVE M[k] = K[k]
    <3>1. M[k] = SubSeq(u, CutAt(u, type, k - 1) + 1, CutAt(u, type, k) - 1)
      BY <2>2
    <3>2. CASE k \in 1 .. n
      <4>1. k - 1 \in 0 .. n /\ k \in 0 .. n  BY <1>7, <3>2
      <4>2. M[k] = SubSeq(u, a[k - 1] + 1, a[k] - 1)  BY <1>12, <3>1, <4>1
      <4>3. a[k - 1] \in 0 .. m /\ a[k] \in 0 .. m + 1  BY <1>5, <1>11, <4>1
      <4> QED  BY <1>17, <1>18, <2>6, <3>2, <4>2, <4>3
    <3>3. CASE k = n + 1
      <4>1. k - 1 \in 0 .. n /\ k - 1 = n  BY <1>7, <3>3
      <4>2. M[k] = SubSeq(u, a[n] + 1, (m + 2) - 1)  BY <1>12, <2>3, <3>1, <3>3, <4>1
      <4>3. a[n] \in 0 .. m /\ (m + 2) - 1 = m + 1  BY <1>5, <1>7, <1>11
      <4>4. PICK i : i = a[n]  OBVIOUS
      <4>5. i \in 0 .. m  BY <4>3, <4>4
      <4>6. U[n + 1] = SubSeq(s, i + 1, m)  BY <1>17, <4>4
      <4>7. /\ Len(SubSeq(s, i + 1, m)) = m - i
            /\ \A j \in 1 .. m - i : SubSeq(s, i + 1, m)[j] = s[i + j]
        BY <1>1, <1>5, <4>5
      <4>8. /\ SubSeq(u, i + 1, m + 1) \in Seq(T)
            /\ Len(SubSeq(u, i + 1, m + 1)) = (m - i) + 1
            /\ \A j \in 1 .. (m - i) + 1 : SubSeq(u, i + 1, m + 1)[j] = u[i + j]
        BY <1>5, <1>8, <4>5
      <4>9. PICK A : A = Append(U[n + 1], t)  OBVIOUS
      <4>10. /\ A \in Seq(T) /\ Len(A) = (m - i) + 1 /\ A[(m - i) + 1] = t
             /\ \A j \in 1 .. m - i : A[j] = s[i + j]
        BY <2>5, <4>6, <4>7, <4>9, <1>5, <4>5
      <4>11. \A j \in 1 .. (m - i) + 1 : SubSeq(u, i + 1, m + 1)[j] = A[j]
        <5> SUFFICES ASSUME NEW j \in 1 .. (m - i) + 1
                     PROVE  SubSeq(u, i + 1, m + 1)[j] = A[j]
          OBVIOUS
        <5>1. CASE j \in 1 .. m - i
          <6>1. i + j \in 1 .. m  BY <1>5, <4>5, <5>1
          <6> QED  BY <1>8, <4>8, <4>10, <5>1, <6>1
        <5>2. CASE j = (m - i) + 1
          <6>1. i + j = m + 1  BY <1>5, <4>5, <5>2
          <6> QED  BY <1>8, <4>8, <4>10, <5>2, <6>1
        <5> QED  BY <1>5, <4>5, <5>1, <5>2
      <4>12. SubSeq(u, i + 1, m + 1) = A  BY <4>8, <4>10, <4>11
      <4> QED  BY <2>6, <3>3, <4>2, <4>3, <4>4, <4>9, <4>12
    <3> QED  BY <1>7, <3>2, <3>3
  <2>9. M = K  BY <2>6, <2>7, <2>8
  <2>10. Len(U) >= 1  BY <1>7, <1>19
  <2>11. K = [U EXCEPT ![Len(U)] = Append(U[Len(U)], t)]  BY <1>19, <2>4
  <2> QED  BY <1>3, <1>14, <1>15, <1>19, <1>21, <2>6, <2>9, <2>10, <2>11,
              ZenonT(60)
           DEF Grown
<1> QED  BY <1>20, <1>21

LEMMA PiecesNone ==
  ASSUME NEW type
  PROVE  Pieces(<< >>, type) = << << >> >>
<1>1. PICK s : s = << >>  OBVIOUS
<1>2. Cuts(s, type) = {} /\ Len(s) = 0  BY <1>1 DEF Cuts
<1>3. Cardinality(Cuts(s, type)) = 0  BY <1>2, FS_EmptySet
<1>4. CutAt(s, type, 0) = 0 /\ CutAt(s, type, 1) = 1  BY <1>2, <1>3 DEF CutAt
<1>5. SubSeq(s, 1, 0) = << >>  BY <1>1, SubSeqEmpty
<1>6. Pieces(s, type) =
        [k \in 1 .. 0 + 1 |-> SubSeq(s, CutAt(s, type, k - 1) + 1, CutAt(s, type, k) - 1)]
  BY <1>3, PiecesAre
<1>7. PICK U : U = Pieces(s, type)  OBVIOUS
<1>8. U = [k \in 1 .. 1 |-> SubSeq(s, CutAt(s, type, k - 1) + 1, CutAt(s, type, k) - 1)]
  BY <1>6, <1>7
<1>9. U[1] = SubSeq(s, CutAt(s, type, 0) + 1, CutAt(s, type, 1) - 1)
  <2>1. 1 \in 1 .. 1 /\ 1 - 1 = 0  OBVIOUS
  <2> QED  BY <1>8, <2>1
<1>10. U[1] = << >>
  <2>1. 0 + 1 = 1 /\ 1 - 1 = 0  OBVIOUS
  <2> QED  BY <1>4, <1>5, <1>9, <2>1
<1>11. DOMAIN U = 1 .. 1 /\ U = [k \in 1 .. 1 |-> U[k]]  BY <1>8
<1>12. U \in Seq({<< >>}) /\ Len(U) = 1
  <2>1. \A k \in 1 .. 1 : U[k] \in {<< >>}  BY <1>10
  <2>2. PICK n \in Nat : n = 1  OBVIOUS
  <2>3. U \in [1 .. n -> {<< >>}]  BY <1>11, <2>1, <2>2
  <2>4. U \in Seq({<< >>}) /\ Len(U) = n  BY <2>3
  <2> QED  BY <2>2, <2>4
<1>13. << << >> >> \in Seq({<< >>}) /\ Len(<< << >> >>) = 1 /\ << << >> >>[1] = << >>
  OBVIOUS
<1>14. \A k \in 1 .. Len(U) : U[k] = << << >> >>[k]  BY <1>10, <1>12, <1>13
<1> QED  BY <1>1, <1>7, <1>12, <1>13, <1>14, SeqEqual

\* Of a list whose first n tokens are s: the pieces of s but the last are its
\* first ones, and the last goes on up to the next cut.
Goes(U, M, e, type) ==
  /\ Len(U) <= Len(M)
  /\ \A k \in 1 .. Len(U) - 1 : M[k] = U[k]
  /\ IF e = << >> \/ e[1].type = type THEN M[Len(U)] = U[Len(U)]
     ELSE /\ Len(M[Len(U)]) > Len(U[Len(U)])
          /\ \A j \in 1 .. Len(U[Len(U)]) : M[Len(U)][j] = U[Len(U)][j]
          /\ M[Len(U)][Len(U[Len(U)]) + 1] = e[1]

LEMMA PiecesGoOn ==
  ASSUME NEW T, NEW s \in Seq(T), NEW e \in Seq(T), NEW t \in T, NEW type,
         Goes(Pieces(s, type), Pieces(s \o e, type), e, type),
         e # << >> => Len(Pieces(s, type)) < Len(Pieces(s \o e, type))
                      \/ e[1].type # type
  PROVE  LET f == Append(e, t)
         IN /\ Goes(Pieces(s, type), Pieces(s \o f, type), f, type)
            /\ Len(Pieces(s, type)) < Len(Pieces(s \o f, type)) \/ f[1].type # type
<1>1. PICK f : f = Append(e, t)  OBVIOUS
<1>2. PICK u : u = s \o e  OBVIOUS
<1>3. u \in Seq(T) /\ s \o f = Append(u, t) /\ f \in Seq(T)
  <2>1. u \in Seq(T) /\ f \in Seq(T) /\ <<t>> \in Seq(T)  BY <1>1, <1>2
  <2>2. f = e \o <<t>> /\ Append(u, t) = u \o <<t>>  BY <1>1, <2>1, AppendIsConcat
  <2>3. (s \o e) \o <<t>> = s \o (e \o <<t>>)  BY <2>1, ConcatAssociative
  <2> QED  BY <1>2, <2>1, <2>2, <2>3
<1>4. PICK U : U = Pieces(s, type)  OBVIOUS
<1>5. PICK M : M = Pieces(u, type)  OBVIOUS
<1>6. PICK N : N = Pieces(Append(u, t), type)  OBVIOUS
<1>7. /\ U \in Seq(Seq(T)) /\ M \in Seq(Seq(T)) /\ N \in Seq(Seq(T))
      /\ Len(U) >= 1 /\ Len(M) >= 1
      /\ IF t.type = type THEN N = Append(M, << >>)
         ELSE N = [M EXCEPT ![Len(M)] = Append(M[Len(M)], t)]
  <2>1. /\ M \in Seq(Seq(T)) /\ N \in Seq(Seq(T)) /\ Len(M) >= 1
        /\ Grown(M, N, t, type)
    BY <1>3, <1>5, <1>6, PiecesGrow
  <2>2. U \in Seq(Seq(T)) /\ Len(U) >= 1
    BY <1>4, PiecesGrow
  <2> QED  BY <2>1, <2>2 DEF Grown
<1>8. PICK n : n = Len(U)  OBVIOUS
<1>9. PICK m : m = Len(M)  OBVIOUS
<1>10. n \in Nat /\ n >= 1 /\ m \in Nat /\ m >= n /\ n \in 1 .. n /\ n \in 1 .. m
  <2>1. n <= m  BY <1>2, <1>4, <1>5, <1>8, <1>9 DEF Goes
  <2> QED  BY <1>7, <1>8, <1>9, <2>1
<1>11. U[n] \in Seq(T) /\ M[n] \in Seq(T) /\ M[m] \in Seq(T)
  <2>1. m \in 1 .. m  BY <1>10
  <2> QED  BY <1>7, <1>8, <1>9, <1>10, <2>1, ElementOfSeq
<1>12. /\ \A k \in 1 .. n - 1 : M[k] = U[k]
       /\ IF e = << >> \/ e[1].type = type THEN M[n] = U[n]
          ELSE /\ Len(M[n]) > Len(U[n])
               /\ \A j \in 1 .. Len(U[n]) : M[n][j] = U[n][j]
               /\ M[n][Len(U[n]) + 1] = e[1]
  BY <1>2, <1>4, <1>5, <1>8 DEF Goes
<1>13. e # << >> => n < m \/ e[1].type # type
  BY <1>2, <1>4, <1>5, <1>8, <1>9
<1>14. e # << >> => f[1] = e[1]
  <2>1. e # << >> => 1 \in 1 .. Len(e)  BY EmptySeq
  <2> QED  BY <1>1, <2>1, AppendProperties
<1>15. e = << >> => f[1] = t /\ u = s
  <2>1. s \o << >> = s  BY ConcatEmptySeq
  <2>2. e = << >> => Len(e) = 0  BY EmptySeq
  <2> QED  BY <1>1, <1>2, <2>1, <2>2, AppendProperties
<1>16. f # << >>  BY <1>1, AppendProperties
<1> SUFFICES /\ n <= Len(N)
             /\ \A k \in 1 .. n - 1 : N[k] = U[k]
             /\ IF f[1].type = type THEN N[n] = U[n]
                ELSE /\ Len(N[n]) > Len(U[n])
                     /\ \A j \in 1 .. Len(U[n]) : N[n][j] = U[n][j]
                     /\ N[n][Len(U[n]) + 1] = f[1]
             /\ n < Len(N) \/ f[1].type # type
  BY <1>1, <1>3, <1>4, <1>6, <1>8, <1>16 DEF Goes
<1>17. CASE t.type = type
  <2>1. N = Append(M, << >>) /\ << >> \in Seq(T)  BY <1>7, <1>17
  <2>2. Len(N) = m + 1 /\ \A k \in 1 .. m : N[k] = M[k]
    BY <1>7, <1>9, <2>1, AppendProperties
  <2>3. N[n] = M[n] /\ \A k \in 1 .. n - 1 : N[k] = M[k]
    BY <1>10, <2>2
  <2>4. n < Len(N) /\ n <= Len(N)  BY <1>10, <2>2
  <2>5. CASE e = << >>
    BY <1>12, <1>15, <1>17, <2>3, <2>4, <2>5
  <2>6. CASE e # << >>
    BY <1>12, <1>14, <2>3, <2>4, <2>6
  <2> QED  BY <2>5, <2>6
<1>18. CASE t.type # type
  <2>1. PICK x : x = Append(M[m], t)  OBVIOUS
  <2>2. /\ x \in Seq(T) /\ Len(x) = Len(M[m]) + 1 /\ x[Len(M[m]) + 1] = t
        /\ \A j \in 1 .. Len(M[m]) : x[j] = M[m][j]
    BY <1>11, <2>1, AppendProperties
  <2>3. N = [M EXCEPT ![m] = x]  BY <1>7, <1>9, <1>18, <2>1
  <2>4. m \in 1 .. Len(M)  BY <1>9, <1>10
  <2>5. Len(N) = m /\ \A k \in 1 .. m : N[k] = IF k = m THEN x ELSE M[k]
    BY <1>7, <1>9, <2>2, <2>3, <2>4, ExceptSeq
  <2>6. \A k \in 1 .. n - 1 : N[k] = U[k]
    <3> SUFFICES ASSUME NEW k \in 1 .. n - 1  PROVE N[k] = U[k]
      OBVIOUS
    <3>1. k \in 1 .. m /\ k # m  BY <1>10
    <3> QED  BY <1>12, <2>5, <3>1
  <2>7. Len(U[n]) \in Nat /\ Len(M[n]) \in Nat  BY <1>11, LenProperties
  <2>8. CASE n < m
    <3>1. N[n] = M[n]  BY <1>10, <2>5, <2>8
    <3>2. e # << >>
      <4>1. e = << >> => U = M  BY <1>4, <1>5, <1>15
      <4> QED  BY <1>8, <1>9, <1>10, <2>8, <4>1
    <3> QED  BY <1>10, <1>12, <1>14, <2>5, <2>6, <2>8, <3>1, <3>2
  <2>9. CASE n = m
    <3>1. N[n] = x  BY <1>10, <2>5, <2>9
    <3>2. CASE e = << >>
      <4>1. M[n] = U[n] /\ f[1] = t  BY <1>12, <1>15, <3>2
      <4> QED  BY <1>10, <1>18, <2>2, <2>5, <2>6, <2>7, <2>9, <3>1, <4>1
    <3>3. CASE e # << >>
      <4>1. e[1].type # type /\ f[1] = e[1]  BY <1>10, <1>13, <1>14, <2>9, <3>3
      <4>2. /\ Len(M[n]) > Len(U[n])
            /\ \A j \in 1 .. Len(U[n]) : M[n][j] = U[n][j]
            /\ M[n][Len(U[n]) + 1] = f[1]
        BY <1>12, <3>3, <4>1
      <4>3. /\ Len(x) = Len(M[n]) + 1
            /\ \A j \in 1 .. Len(M[n]) : x[j] = M[n][j]
        BY <2>2, <2>9
      <4>4. Len(x) > Len(U[n])  BY <2>7, <4>2, <4>3
      <4>5. \A j \in 1 .. Len(U[n]) : j \in 1 .. Len(M[n])  BY <2>7, <4>2
      <4>6. Len(U[n]) + 1 \in 1 .. Len(M[n])  BY <2>7, <4>2
      <4> QED  BY <1>10, <2>5, <2>6, <2>9, <3>1, <4>1, <4>2, <4>3, <4>4, <4>5, <4>6
    <3> QED  BY <3>2, <3>3
  <2> QED  BY <1>10, <2>8, <2>9
<1> QED  BY <1>17, <1>18

LEMMA PiecesMore ==
  ASSUME NEW T, NEW s \in Seq(T), NEW e \in Seq(T), NEW type
  PROVE  Goes(Pieces(s, type), Pieces(s \o e, type), e, type)
<1> DEFINE Fine(f) ==
      /\ Goes(Pieces(s, type), Pieces(s \o f, type), f, type)
      /\ f # << >> => Len(Pieces(s, type)) < Len(Pieces(s \o f, type))
                      \/ f[1].type # type
<1>1. PICK S : S = {n \in Nat : \A f \in Seq(T) : Len(f) = n => Fine(f)}  OBVIOUS
<1>2. 0 \in S
  <2> SUFFICES ASSUME NEW f \in Seq(T), Len(f) = 0  PROVE Fine(f)
    BY <1>1
  <2>1. f = << >>  BY EmptySeq
  <2>2. s \o f = s  BY <2>1, ConcatEmptySeq
  <2>3. Pieces(s, type) \in Seq(Seq(T))
    <3>1. CASE T = {}
      <4>1. s = << >>
        <5>1. s # << >> => s[1] \in T
          <6>1. s # << >> => 1 \in 1 .. Len(s)  BY EmptySeq
          <6> QED  BY <6>1, ElementOfSeq
        <5> QED  BY <3>1, <5>1
      <4>2. PICK x \in Seq(T) : x = << >>  BY EmptySeq
      <4>3. <<x>> \in Seq(Seq(T))  OBVIOUS
      <4> QED  BY <4>1, <4>2, <4>3, PiecesNone
    <3>2. CASE T # {}
      <4>1. PICK t \in T : TRUE  BY <3>2
      <4> QED  BY PiecesGrow
    <3> QED  BY <3>1, <3>2
  <2>4. Len(Pieces(s, type)) \in Nat  BY <2>3, LenProperties
  <2> QED  BY <2>1, <2>2, <2>4 DEF Goes
<1>3. ASSUME NEW n \in Nat, n \in S  PROVE n + 1 \in S
  <2> SUFFICES ASSUME NEW f \in Seq(T), Len(f) = n + 1  PROVE Fine(f)
    BY <1>1
  <2>1. f # << >>  BY EmptySeq
  <2>2. PICK g \in Seq(T), t \in T : f = Append(g, t)  BY <2>1, SequenceEmptyOrAppend
  <2>3. Len(g) = n
    <3>1. Len(f) = Len(g) + 1 /\ Len(g) \in Nat  BY <2>2, AppendProperties, LenProperties
    <3> QED  BY <3>1
  <2>4. Fine(g)  BY <1>1, <1>3, <2>3
  <2> QED  BY <2>1, <2>2, <2>4, PiecesGoOn
<1>4. PICK n \in Nat : n = Len(e)  BY LenProperties
<1>5. n \in S
  <2> HIDE DEF Fine
  <2> QED  BY <1>2, <1>3, Induction
<1> QED  BY <1>1, <1>4, <1>5

----------------------------------------------------------------------------
(* Lists *)

Kinds(T) == {t.type : t \in T}

LEMMA TypesAre ==
  ASSUME NEW T, NEW s \in Seq(T)
  PROVE  /\ Types(s) \in Seq(Kinds(T)) /\ Len(Types(s)) = Len(s)
         /\ DOMAIN Types(s) = 1 .. Len(s)
         /\ \A i \in 1 .. Len(s) : Types(s)[i] = s[i].type
<1>1. PICK n \in Nat : n = Len(s)  BY LenProperties
<1>2. PICK f : f = Types(s)  OBVIOUS
<1>3. DOMAIN s = 1 .. n /\ \A i \in 1 .. n : s[i] \in T
  BY <1>1, LenProperties, ElementOfSeq
<1>4. f = [i \in 1 .. n |-> s[i].type]  BY <1>2, <1>3 DEF Types
<1>5. f \in [1 .. n -> Kinds(T)]  BY <1>3, <1>4 DEF Kinds
<1>6. f \in Seq(Kinds(T)) /\ Len(f) = n  BY <1>5
<1> QED  BY <1>1, <1>2, <1>4, <1>6

LEMMA TypesGrow ==
  ASSUME NEW T, NEW s \in Seq(T), NEW t \in T
  PROVE  Types(Append(s, t)) = Append(Types(s), t.type)
<1>1. PICK u : u = Append(s, t)  OBVIOUS
<1>2. PICK n \in Nat : n = Len(s)  BY LenProperties
<1>3. /\ u \in Seq(T) /\ Len(u) = n + 1 /\ u[n + 1] = t
      /\ \A i \in 1 .. n : u[i] = s[i]
  BY <1>1, <1>2, AppendProperties
<1>4. t.type \in Kinds(T)  BY DEF Kinds
<1>5. PICK a : a = Append(Types(s), t.type)  OBVIOUS
<1>6. /\ Types(s) \in Seq(Kinds(T)) /\ Len(Types(s)) = n
      /\ \A i \in 1 .. n : Types(s)[i] = s[i].type
  BY <1>2, TypesAre
<1>7. /\ a \in Seq(Kinds(T)) /\ Len(a) = n + 1 /\ a[n + 1] = t.type
      /\ \A i \in 1 .. n : a[i] = s[i].type
  BY <1>4, <1>5, <1>6, AppendProperties
<1>8. /\ Types(u) \in Seq(Kinds(T)) /\ Len(Types(u)) = n + 1
      /\ \A i \in 1 .. n + 1 : Types(u)[i] = u[i].type
  BY <1>3, TypesAre
<1>9. \A i \in 1 .. n + 1 : Types(u)[i] = a[i]
  <2> SUFFICES ASSUME NEW i \in 1 .. n + 1  PROVE Types(u)[i] = a[i]
    OBVIOUS
  <2>1. CASE i \in 1 .. n  BY <1>3, <1>7, <1>8, <2>1
  <2>2. CASE i = n + 1  BY <1>3, <1>7, <1>8, <2>2
  <2> QED  BY <2>1, <2>2
<1>10. Types(u) = a  BY <1>7, <1>8, <1>9, SeqEqual
<1> QED  BY <1>1, <1>5, <1>10

\* All pieces of s but the last have one of the shapes, and the last is open.
IsOpen(s, separator, shapes, open) ==
  LET U == Pieces(s, separator)
  IN /\ \A k \in 1 .. Len(U) - 1 : Types(U[k]) \in shapes
     /\ Types(U[Len(U)]) = open

LEMMA PiecesTyped ==
  ASSUME NEW T, NEW s \in Seq(T), NEW type
  PROVE  /\ Pieces(s, type) \in Seq(Seq(T))
         /\ Len(Pieces(s, type)) \in Nat /\ Len(Pieces(s, type)) >= 1
<1>1. CASE T = {}
  <2>1. s = << >>
    <3>1. s # << >> => s[1] \in T
      <4>1. s # << >> => 1 \in 1 .. Len(s)  BY EmptySeq
      <4> QED  BY <4>1, ElementOfSeq
    <3> QED  BY <1>1, <3>1
  <2>2. PICK x \in Seq(T) : x = << >>  BY EmptySeq
  <2>3. PICK U : U = <<x>>  OBVIOUS
  <2>4. U \in Seq(Seq(T)) /\ Len(U) = 1  BY <2>3
  <2>5. Pieces(s, type) = U  BY <2>1, <2>2, <2>3, PiecesNone
  <2>6. PICK R : R = Pieces(s, type)  OBVIOUS
  <2>7. R = U  BY <2>5, <2>6
  <2>8. R \in Seq(Seq(T)) /\ Len(R) = 1  BY <2>4, <2>7
  <2>9. Len(R) \in Nat /\ Len(R) >= 1  BY <2>8
  <2> QED  BY <2>6, <2>8, <2>9
<1>2. CASE T # {}
  <2>1. PICK t \in T : TRUE  BY <1>2
  <2>2. Pieces(s, type) \in Seq(Seq(T)) /\ Len(Pieces(s, type)) >= 1
    BY PiecesGrow
  <2> QED  BY <2>2, LenProperties
<1> QED  BY <1>1, <1>2

LEMMA OpenNone ==
  ASSUME NEW separator, NEW shapes
  PROVE  IsOpen(<< >>, separator, shapes, << >>)
<1>1. PICK x : x = << >>  OBVIOUS
<1>2. PICK U : U = <<x>>  OBVIOUS
<1>3. Pieces(<< >>, separator) = U  BY <1>1, <1>2, PiecesNone
<1>4. Len(U) = 1 /\ U[1] = x /\ 1 .. Len(U) - 1 = {}  BY <1>2
<1>5. Types(x) = << >>  BY <1>1 DEF Types
<1> QED  BY <1>3, <1>4, <1>5 DEF IsOpen

LEMMA OpenStep ==
  ASSUME NEW T, NEW s \in Seq(T), NEW t \in T, NEW separator, NEW shapes, NEW o,
         IsOpen(s, separator, shapes, o), t.type # separator
  PROVE  IsOpen(Append(s, t), separator, shapes, Append(o, t.type))
<1>1. PICK U : U = Pieces(s, separator)  OBVIOUS
<1>2. PICK M : M = Pieces(Append(s, t), separator)  OBVIOUS
<1>3. /\ U \in Seq(Seq(T)) /\ Len(U) >= 1 /\ M \in Seq(Seq(T))
      /\ Grown(U, M, t, separator)
  BY <1>1, <1>2, PiecesGrow
<1>4. PICK n \in Nat : n = Len(U)  BY <1>3, LenProperties
<1>5. n \in 1 .. Len(U) /\ U[n] \in Seq(T)  BY <1>3, <1>4, ElementOfSeq
<1>6. Append(U[n], t) \in Seq(T)  BY <1>5, AppendProperties
<1>7. M = [U EXCEPT ![n] = Append(U[n], t)]  BY <1>3, <1>4 DEF Grown
<1>8. Len(M) = n /\ \A k \in 1 .. n : M[k] = IF k = n THEN Append(U[n], t) ELSE U[k]
  BY <1>3, <1>4, <1>5, <1>6, <1>7, ExceptSeq
<1>9. Types(U[n]) = o /\ \A k \in 1 .. n - 1 : Types(U[k]) \in shapes
  BY <1>1, <1>4 DEF IsOpen
<1>10. Types(M[n]) = Append(o, t.type)
  BY <1>4, <1>5, <1>8, <1>9, TypesGrow
<1>11. \A k \in 1 .. n - 1 : M[k] = U[k]
  <2>1. \A k \in 1 .. n - 1 : k \in 1 .. n /\ k # n  OBVIOUS
  <2> QED  BY <1>8, <2>1
<1> QED  BY <1>2, <1>8, <1>9, <1>10, <1>11 DEF IsOpen

LEMMA OpenNext ==
  ASSUME NEW T, NEW s \in Seq(T), NEW t \in T, NEW separator, NEW shapes,
         NEW o \in shapes, IsOpen(s, separator, shapes, o), t.type = separator
  PROVE  IsOpen(Append(s, t), separator, shapes, << >>)
<1>1. PICK U : U = Pieces(s, separator)  OBVIOUS
<1>2. PICK M : M = Pieces(Append(s, t), separator)  OBVIOUS
<1>3. /\ U \in Seq(Seq(T)) /\ Len(U) >= 1 /\ M \in Seq(Seq(T))
      /\ Grown(U, M, t, separator)
  BY <1>1, <1>2, PiecesGrow
<1>4. PICK n \in Nat : n = Len(U)  BY <1>3, LenProperties
<1>5. PICK x \in Seq(T) : x = << >>  BY EmptySeq
<1>6. M = Append(U, x)  BY <1>3, <1>5 DEF Grown
<1>7. Len(M) = n + 1 /\ M[n + 1] = x /\ \A k \in 1 .. n : M[k] = U[k]
  BY <1>3, <1>4, <1>6, AppendProperties
<1>8. Types(U[n]) = o /\ \A k \in 1 .. n - 1 : Types(U[k]) \in shapes
  BY <1>1, <1>4 DEF IsOpen
<1>9. \A k \in 1 .. n : Types(M[k]) \in shapes
  <2>1. \A k \in 1 .. n : k = n \/ k \in 1 .. n - 1  OBVIOUS
  <2> QED  BY <1>7, <1>8, <2>1
<1>10. Types(x) = << >>  BY <1>5 DEF Types
<1>11. (n + 1) - 1 = n  OBVIOUS
<1> QED  BY <1>2, <1>7, <1>9, <1>10, <1>11 DEF IsOpen

LEMMA OpenDone ==
  ASSUME NEW T, NEW s \in Seq(T), NEW separator, NEW shapes, NEW o,
         IsOpen(s, separator, shapes, o)
  PROVE  IsList(s, separator, shapes) <=> o \in shapes
<1>1. PICK U : U = Pieces(s, separator)  OBVIOUS
<1>2. U \in Seq(Seq(T)) /\ Len(U) \in Nat /\ Len(U) >= 1  BY <1>1, PiecesTyped
<1>3. PICK n \in Nat : n = Len(U)  BY <1>2
<1>4. DOMAIN U = 1 .. n  BY <1>2, <1>3, LenProperties
<1>5. Types(U[n]) = o /\ \A k \in 1 .. n - 1 : Types(U[k]) \in shapes
  BY <1>1, <1>3 DEF IsOpen
<1>6. n \in 1 .. n /\ \A k \in 1 .. n : k = n \/ k \in 1 .. n - 1  BY <1>2, <1>3
<1>7. IsList(s, separator, shapes) <=> \A k \in 1 .. n : Types(U[k]) \in shapes
  BY <1>1, <1>4 DEF IsList, ToSet
<1> QED  BY <1>5, <1>6, <1>7

\* q begins with o, and goes on with a token of the type.
Prolongs(q, o, type) ==
  /\ Len(q) > Len(o) /\ \A j \in 1 .. Len(o) : q[j] = o[j]
  /\ q[Len(o) + 1] = type

LEMMA OpenFollow ==
  ASSUME NEW T, NEW s \in Seq(T), NEW e \in Seq(T), e # << >>,
         NEW separator, NEW shapes, NEW o,
         IsOpen(s, separator, shapes, o), IsList(s \o e, separator, shapes)
  PROVE  IF e[1].type = separator THEN o \in shapes
         ELSE \E q \in shapes : Prolongs(q, o, e[1].type)
<1>1. PICK U : U = Pieces(s, separator)  OBVIOUS
<1>2. U \in Seq(Seq(T)) /\ Len(U) \in Nat /\ Len(U) >= 1  BY <1>1, PiecesTyped
<1>3. PICK M : M = Pieces(s \o e, separator)  OBVIOUS
<1>4. M \in Seq(Seq(T)) /\ Len(M) \in Nat
  <2>1. s \o e \in Seq(T)  BY ConcatProperties
  <2> QED  BY <1>3, <2>1, PiecesTyped
<1>5. PICK n \in Nat : n = Len(U)  BY <1>2
<1>6. Goes(U, M, e, separator)  BY <1>1, <1>3, PiecesMore
<1>7. n \in 1 .. n /\ n \in 1 .. Len(M)
  <2>1. n <= Len(M)  BY <1>5, <1>6 DEF Goes
  <2> QED  BY <1>2, <1>4, <1>5, <2>1
<1>8. Types(U[n]) = o  BY <1>1, <1>5 DEF IsOpen
<1>9. Types(M[n]) \in shapes
  <2>1. n \in DOMAIN M  BY <1>4, <1>7, LenProperties
  <2> QED  BY <1>3, <2>1 DEF IsList, ToSet
<1>10. U[n] \in Seq(T) /\ M[n] \in Seq(T)  BY <1>2, <1>4, <1>5, <1>7, ElementOfSeq
<1>11. CASE e[1].type = separator
  BY <1>5, <1>6, <1>8, <1>9, <1>11 DEF Goes
<1>12. CASE e[1].type # separator
  <2>1. PICK a : a = Len(U[n])  OBVIOUS
  <2>2. PICK b : b = Len(M[n])  OBVIOUS
  <2>3. a \in Nat /\ b \in Nat  BY <1>10, <2>1, <2>2, LenProperties
  <2>4. b > a /\ (\A j \in 1 .. a : M[n][j] = U[n][j]) /\ M[n][a + 1] = e[1]
    BY <1>5, <1>6, <1>12, <2>1, <2>2 DEF Goes
  <2>5. Len(o) = a /\ \A j \in 1 .. a : o[j] = U[n][j].type
    BY <1>8, <1>10, <2>1, TypesAre
  <2>6. /\ Len(Types(M[n])) = b
        /\ \A j \in 1 .. b : Types(M[n])[j] = M[n][j].type
    BY <1>10, <2>2, TypesAre
  <2>7. a + 1 \in 1 .. b /\ \A j \in 1 .. a : j \in 1 .. b  BY <2>3, <2>4
  <2>8. Prolongs(Types(M[n]), o, e[1].type)
    <3>1. PICK q : q = Types(M[n])  OBVIOUS
    <3>2. Len(q) > Len(o)  BY <2>4, <2>5, <2>6, <3>1
    <3>3. \A j \in 1 .. Len(o) : q[j] = o[j]
      <4> SUFFICES ASSUME NEW j \in 1 .. a  PROVE q[j] = o[j]
        BY <2>5
      <4>1. q[j] = M[n][j].type  BY <2>6, <2>7, <3>1
      <4> QED  BY <2>4, <2>5, <4>1
    <3>4. q[Len(o) + 1] = e[1].type
      <4>1. q[a + 1] = M[n][a + 1].type  BY <2>6, <2>7, <3>1
      <4> QED  BY <2>4, <2>5, <4>1
    <3> QED  BY <3>1, <3>2, <3>3, <3>4 DEF Prolongs
  <2> QED  BY <1>9, <1>12, <2>8
<1> QED  BY <1>11, <1>12

----------------------------------------------------------------------------
(* What is after a place *)

LEMMA LeastIs ==
  ASSUME NEW B, B \subseteq Int, NEW m \in B, \A x \in B : m <= x
  PROVE  Min(B) = m
<1>1. \A x \in B : x \in Int  OBVIOUS
<1>2. \A y \in B : (\A x \in B : y <= x) => y = m  BY <1>1
<1> QED  BY <1>2 DEF Min

FromOn(d, s, h, n, T) ==
  /\ n \in Nat /\ h \in 1 .. n /\ d \in Seq(T) /\ Len(d) = n - h + 1
  /\ \A i \in 1 .. n - h + 1 : d[i] = s[h + i - 1]

\* c goes on as d, with the token t.
Prolonged(c, d, t, T) == \E z \in Seq(T) : z # << >> /\ z[1] = t /\ d = c \o z

LEMMA AfterIs ==
  ASSUME NEW T, NEW s \in Seq(T), NEW n \in Nat
  PROVE  /\ After(s, n) \in Seq(T)
         /\ n >= Len(s) => After(s, n) = << >>
         /\ n <= Len(s) => Len(After(s, n)) = Len(s) - n
         /\ \A i \in 1 .. Len(s) - n : After(s, n)[i] = s[n + i]
<1>1. PICK l \in Nat : l = Len(s)  BY LenProperties
<1>2. PICK a : a = After(s, n)  OBVIOUS
<1>3. a = SubSeq(s, n + 1, l)  BY <1>1, <1>2 DEF After
<1>4. PICK m \in Int : m = n + 1  OBVIOUS
<1>5. \A i \in m .. l : s[i] \in T
  <2>1. \A i \in m .. l : i \in 1 .. Len(s)  BY <1>1, <1>4
  <2> QED  BY <2>1, ElementOfSeq
<1>6. /\ a \in Seq(T) /\ Len(a) = IF m <= l THEN l - m + 1 ELSE 0
      /\ \A i \in 1 .. l - m + 1 : a[i] = s[m + i - 1]
  <2>1. l \in Int  OBVIOUS
  <2> QED  BY <1>3, <1>4, <1>5, <2>1, SubSeqProperties
<1>7. n >= l => a = << >>
  <2>1. n >= l => Len(a) = 0  BY <1>4, <1>6
  <2> QED  BY <1>6, <2>1, EmptySeq
<1>8. n <= l => Len(a) = l - n  BY <1>4, <1>6
<1>9. \A i \in 1 .. l - n : a[i] = s[n + i]
  <2>1. \A i \in 1 .. l - n : i \in 1 .. l - m + 1 /\ m + i - 1 = n + i
    BY <1>4
  <2> QED  BY <1>6, <2>1
<1> QED  BY <1>1, <1>2, <1>6, <1>7, <1>8, <1>9

LEMMA AfterGoes ==
  ASSUME NEW T, NEW s \in Seq(T), NEW z \in Seq(T), NEW n \in Nat, n <= Len(s)
  PROVE  After(s \o z, n) = After(s, n) \o z
<1>1. PICK l \in Nat : l = Len(s)  BY LenProperties
<1>2. PICK m \in Nat : m = Len(z)  BY LenProperties
<1>3. PICK u : u = s \o z  OBVIOUS
<1>4. /\ u \in Seq(T) /\ Len(u) = l + m
      /\ \A i \in 1 .. l + m : u[i] = IF i <= l THEN s[i] ELSE z[i - l]
  BY <1>1, <1>2, <1>3, ConcatProperties
<1>5. PICK a : a = After(u, n)  OBVIOUS
<1>6. /\ a \in Seq(T) /\ Len(a) = (l + m) - n
      /\ \A i \in 1 .. (l + m) - n : a[i] = u[n + i]
  <2>1. n <= Len(u)  BY <1>1, <1>4
  <2>2. /\ a \in Seq(T) /\ Len(a) = Len(u) - n
        /\ \A i \in 1 .. Len(u) - n : a[i] = u[n + i]
    BY <1>4, <1>5, <2>1, AfterIs
  <2> QED  BY <1>4, <2>2
<1>7. PICK b : b = After(s, n)  OBVIOUS
<1>8. b \in Seq(T) /\ Len(b) = l - n /\ \A i \in 1 .. l - n : b[i] = s[n + i]
  BY <1>1, <1>7, AfterIs
<1>9. PICK c : c = b \o z  OBVIOUS
<1>10. /\ c \in Seq(T) /\ Len(c) = (l - n) + m
       /\ \A i \in 1 .. (l - n) + m : c[i] = IF i <= l - n THEN b[i] ELSE z[i - (l - n)]
  <2>1. /\ c \in Seq(T) /\ Len(c) = Len(b) + m
        /\ \A i \in 1 .. Len(b) + m : c[i] = IF i <= Len(b) THEN b[i] ELSE z[i - Len(b)]
    BY <1>2, <1>8, <1>9, ConcatProperties
  <2> QED  BY <1>8, <2>1
<1>11. Len(a) = Len(c)  BY <1>6, <1>10
<1>12. \A i \in 1 .. Len(a) : a[i] = c[i]
  <2> SUFFICES ASSUME NEW i \in 1 .. (l + m) - n  PROVE a[i] = c[i]
    BY <1>6
  <2>1. n + i \in 1 .. l + m /\ i \in 1 .. (l - n) + m  BY <1>1
  <2>2. a[i] = IF n + i <= l THEN s[n + i] ELSE z[(n + i) - l]
    BY <1>4, <1>6, <2>1
  <2>3. CASE i <= l - n
    <3>1. n + i <= l /\ i \in 1 .. l - n  BY <2>3
    <3> QED  BY <1>8, <1>10, <2>1, <2>2, <2>3, <3>1
  <2>4. CASE ~(i <= l - n)
    <3>1. ~(n + i <= l) /\ (n + i) - l = i - (l - n)  BY <2>4
    <3> QED  BY <1>10, <2>1, <2>2, <2>4, <3>1
  <2> QED  BY <2>3, <2>4
<1> QED  BY <1>3, <1>5, <1>6, <1>7, <1>9, <1>10, <1>11, <1>12, SeqEqual

LEMMA AfterGrows ==
  ASSUME NEW T, NEW s \in Seq(T), NEW t \in T, NEW n \in Nat, n <= Len(s)
  PROVE  After(Append(s, t), n) = Append(After(s, n), t)
<1>1. PICK e : e = <<t>>  OBVIOUS
<1>2. e \in Seq(T) /\ Append(s, t) = s \o e  BY <1>1, AppendIsConcat
<1>3. After(s \o e, n) = After(s, n) \o e  BY <1>2, AfterGoes
<1>4. After(s, n) \in Seq(T)  BY AfterIs
<1>5. Append(After(s, n), t) = After(s, n) \o e  BY <1>1, <1>4, AppendIsConcat
<1> QED  BY <1>2, <1>3, <1>5

----------------------------------------------------------------------------
(* What may follow *)

\* s begins with tokens of these types.
Begins(s, types) == Len(s) >= Len(types) /\ \A i \in 1 .. Len(types) : s[i].type = types[i]

\* A token of the type can follow an open piece.
MayFollow(type, o, separator, shapes) ==
  IF type = separator THEN o \in shapes ELSE \E q \in shapes : Prolongs(q, o, type)

LEMMA OpenMayFollow ==
  ASSUME NEW T, NEW s \in Seq(T), NEW e \in Seq(T), e # << >>,
         NEW separator, NEW shapes, NEW o,
         IsOpen(s, separator, shapes, o), IsList(s \o e, separator, shapes)
  PROVE  MayFollow(e[1].type, o, separator, shapes)
  BY OpenFollow DEF MayFollow

\* Tokens in front of others.
LEMMA BeginsOn ==
  ASSUME NEW T, NEW s \in Seq(T), NEW e \in Seq(T), NEW types, Len(types) \in Nat,
         Begins(s, types)
  PROVE  Begins(s \o e, types)
<1>1. PICK n \in Nat : n = Len(s)  BY LenProperties
<1>2. PICK m \in Nat : m = Len(e)  BY LenProperties
<1>3. PICK u : u = s \o e  OBVIOUS
<1>4. /\ Len(u) = n + m
      /\ \A i \in 1 .. n + m : u[i] = IF i <= n THEN s[i] ELSE e[i - n]
  BY <1>1, <1>2, <1>3, ConcatProperties
<1>5. PICK l \in Nat : l = Len(types)  OBVIOUS
<1>6. l <= n /\ \A i \in 1 .. l : s[i].type = types[i]  BY <1>1, <1>5 DEF Begins
<1>7. \A i \in 1 .. l : i \in 1 .. n + m /\ i <= n  BY <1>6
<1>8. \A i \in 1 .. l : u[i].type = types[i]  BY <1>4, <1>6, <1>7
<1>9. l <= Len(u)  BY <1>4, <1>6
<1> QED  BY <1>3, <1>5, <1>8, <1>9 DEF Begins

LEMMA BeginsAppend ==
  ASSUME NEW T, NEW s \in Seq(T), NEW t \in T, NEW types, Len(types) \in Nat,
         Begins(s, types)
  PROVE  Begins(Append(s, t), types)
<1>1. PICK e : e = <<t>>  OBVIOUS
<1>2. e \in Seq(T) /\ Append(s, t) = s \o e  BY <1>1, AppendIsConcat
<1> QED  BY <1>2, BeginsOn

LEMMA BeginsTypes ==
  ASSUME NEW T, NEW s \in Seq(T), NEW types, Types(s) = types
  PROVE  Begins(s, types) /\ Len(s) = Len(types) /\ Len(types) \in Nat
<1>1. /\ Len(types) = Len(s) /\ \A i \in 1 .. Len(s) : types[i] = s[i].type
  BY TypesAre
<1>2. Len(s) \in Nat  BY LenProperties
<1> QED  BY <1>1, <1>2 DEF Begins

\* The first of the tokens behind s.
LEMMA FirstBehind ==
  ASSUME NEW T, NEW s \in Seq(T), NEW e \in Seq(T), e # << >>
  PROVE  (s \o e)[Len(s) + 1] = e[1] /\ Len(s \o e) >= Len(s) + 1
<1>1. PICK n \in Nat : n = Len(s)  BY LenProperties
<1>2. PICK m \in Nat : m = Len(e)  BY LenProperties
<1>3. PICK u : u = s \o e  OBVIOUS
<1>4. /\ Len(u) = n + m
      /\ \A i \in 1 .. n + m : u[i] = IF i <= n THEN s[i] ELSE e[i - n]
  BY <1>1, <1>2, <1>3, ConcatProperties
<1>5. m >= 1  BY <1>2, EmptySeq
<1>6. n + 1 \in 1 .. n + m /\ ~(n + 1 <= n) /\ (n + 1) - n = 1  BY <1>5
<1>7. u[n + 1] = e[1]  BY <1>4, <1>6
<1>8. Len(u) >= n + 1  BY <1>4, <1>5
<1> QED  BY <1>1, <1>3, <1>7, <1>8

----------------------------------------------------------------------------
(* Lists in brackets *)

\* p begins with the head, and the list behind it is open.
InBrackets(p, head, shapes, o) ==
  Begins(p, head) /\ IsOpen(After(p, Len(head)), "COMMA", shapes, o)

\* s is the head and a list, up to the bracket that closes it.
Closed(s, head, shapes) ==
  /\ StartsWith(s, head)
  /\ Last(s).type = "RPAREN" /\ IsList(Inside(s, Len(head)), "COMMA", shapes)

LEMMA BracketsStep ==
  ASSUME NEW T, NEW p \in Seq(T), NEW t \in T, NEW head, Len(head) \in Nat,
         NEW shapes, NEW o, InBrackets(p, head, shapes, o), t.type # "COMMA"
  PROVE  InBrackets(Append(p, t), head, shapes, Append(o, t.type))
<1>1. Begins(Append(p, t), head)  BY BeginsAppend DEF InBrackets
<1>2. PICK n \in Nat : n = Len(head)  OBVIOUS
<1>3. n <= Len(p)
  <2>1. Len(p) \in Nat /\ Len(p) >= n  BY <1>2, LenProperties DEF InBrackets, Begins
  <2> QED  BY <2>1
<1>4. After(Append(p, t), n) = Append(After(p, n), t)  BY <1>3, AfterGrows
<1>5. PICK a : a = After(p, n)  OBVIOUS
<1>6. a \in Seq(T)  BY <1>5, AfterIs
<1>7. IsOpen(a, "COMMA", shapes, o)  BY <1>2, <1>5 DEF InBrackets
<1>8. IsOpen(Append(a, t), "COMMA", shapes, Append(o, t.type))  BY <1>6, <1>7, OpenStep
<1> QED  BY <1>1, <1>2, <1>4, <1>5, <1>8 DEF InBrackets

LEMMA BracketsNext ==
  ASSUME NEW T, NEW p \in Seq(T), NEW t \in T, NEW head, Len(head) \in Nat,
         NEW shapes, NEW o \in shapes, InBrackets(p, head, shapes, o), t.type = "COMMA"
  PROVE  InBrackets(Append(p, t), head, shapes, << >>)
<1>1. Begins(Append(p, t), head)  BY BeginsAppend DEF InBrackets
<1>2. PICK n \in Nat : n = Len(head)  OBVIOUS
<1>3. n <= Len(p)
  <2>1. Len(p) \in Nat /\ Len(p) >= n  BY <1>2, LenProperties DEF InBrackets, Begins
  <2> QED  BY <2>1
<1>4. After(Append(p, t), n) = Append(After(p, n), t)  BY <1>3, AfterGrows
<1>5. PICK a : a = After(p, n)  OBVIOUS
<1>6. a \in Seq(T)  BY <1>5, AfterIs
<1>7. IsOpen(a, "COMMA", shapes, o)  BY <1>2, <1>5 DEF InBrackets
<1>8. IsOpen(Append(a, t), "COMMA", shapes, << >>)  BY <1>6, <1>7, OpenNext
<1> QED  BY <1>1, <1>2, <1>4, <1>5, <1>8 DEF InBrackets

LEMMA BracketsStart ==
  ASSUME NEW T, NEW p \in Seq(T), NEW head, NEW shapes, Types(p) = head
  PROVE  InBrackets(p, head, shapes, << >>)
<1>1. Begins(p, head) /\ Len(p) = Len(head) /\ Len(head) \in Nat  BY BeginsTypes
<1>2. PICK n \in Nat : n = Len(p)  BY <1>1
<1>3. n >= Len(p)  BY <1>2
<1>4. After(p, n) = << >>  BY <1>3, AfterIs
<1> QED  BY <1>1, <1>2, <1>4, OpenNone DEF InBrackets

LEMMA InsideAppend ==
  ASSUME NEW T, NEW p \in Seq(T), NEW t \in T, NEW n \in Nat, n <= Len(p)
  PROVE  Inside(Append(p, t), n) = After(p, n)
<1>1. PICK l \in Nat : l = Len(p)  BY LenProperties
<1>2. PICK e : e = <<t>>  OBVIOUS
<1>3. e \in Seq(T) /\ Append(p, t) = p \o e  BY <1>2, AppendIsConcat
<1>4. PICK u : u = Append(p, t)  OBVIOUS
<1>5. Len(u) = l + 1  BY <1>1, <1>4, AppendProperties
<1>6. Inside(u, n) = SubSeq(u, n + 1, l)
  <2>1. (l + 1) - 1 = l  OBVIOUS
  <2> QED  BY <1>5, <2>1 DEF Inside
<1>7. After(p, n) = SubSeq(p, n + 1, l)  BY <1>1 DEF After
<1>8. CASE n = l
  <2>1. n + 1 \in Int /\ l \in Int /\ l < n + 1  BY <1>8
  <2>2. SubSeq(u, n + 1, l) = << >> /\ SubSeq(p, n + 1, l) = << >>
    BY <2>1, SubSeqEmpty
  <2> QED  BY <1>4, <1>6, <1>7, <2>2
<1>9. CASE n # l
  <2>1. PICK i \in 1 .. Len(p) : i = n + 1
    <3>1. n + 1 \in 1 .. l  BY <1>1, <1>9
    <3> QED  BY <1>1, <3>1
  <2>2. PICK j \in 1 .. Len(p) : j = l
    <3>1. l \in 1 .. l  BY <1>1, <1>9
    <3> QED  BY <1>1, <3>1
  <2>3. SubSeq(p \o e, i, j) = SubSeq(p, i, j)  BY <1>3, SubSeqOfConcat1
  <2> QED  BY <1>3, <1>4, <1>6, <1>7, <2>1, <2>2, <2>3
<1> QED  BY <1>8, <1>9

LEMMA BracketsDone ==
  ASSUME NEW T, NEW p \in Seq(T), NEW t \in T, NEW head, DOMAIN head = 1 .. Len(head), Len(head) \in Nat,
         NEW shapes, NEW o \in shapes, InBrackets(p, head, shapes, o), t.type = "RPAREN"
  PROVE  Closed(Append(p, t), head, shapes)
<1>1. PICK n \in Nat : n = Len(head)  OBVIOUS
<1>2. PICK l \in Nat : l = Len(p)  BY LenProperties
<1>3. n <= l  BY <1>1, <1>2 DEF InBrackets, Begins
<1>4. PICK u : u = Append(p, t)  OBVIOUS
<1>5. /\ u \in Seq(T) /\ Len(u) = l + 1 /\ u[l + 1] = t
      /\ \A i \in 1 .. l : u[i] = p[i]
  BY <1>2, <1>4, AppendProperties
<1>6. Last(u).type = "RPAREN"  BY <1>5 DEF Last
<1>7. StartsWith(u, head)
  <2>1. Begins(u, head)  BY <1>1, <1>4, BeginsAppend DEF InBrackets
  <2>2. Len(u) > n  BY <1>3, <1>5
  <2>3. DOMAIN head = 1 .. n  BY <1>1
  <2> QED  BY <1>1, <2>1, <2>2, <2>3 DEF Begins, StartsWith
<1>8. PICK a : a = After(p, n)  OBVIOUS
<1>9. a \in Seq(T) /\ IsOpen(a, "COMMA", shapes, o)
  BY <1>1, <1>8, AfterIs DEF InBrackets
<1>10. IsList(a, "COMMA", shapes)  BY <1>9, OpenDone
<1>11. Inside(u, n) = a  BY <1>2, <1>3, <1>4, <1>8, InsideAppend
<1> QED  BY <1>1, <1>4, <1>6, <1>7, <1>10, <1>11 DEF Closed

LEMMA BracketsFollow ==
  ASSUME NEW T, NEW p \in Seq(T), NEW e \in Seq(T), e # << >>, NEW head, DOMAIN head = 1 .. Len(head), Len(head) \in Nat,
         NEW shapes, NEW o, InBrackets(p, head, shapes, o), Closed(p \o e, head, shapes)
  PROVE  \/ e[1].type = "RPAREN" /\ o \in shapes
         \/ MayFollow(e[1].type, o, "COMMA", shapes)
<1>1. PICK n \in Nat : n = Len(head)  OBVIOUS
<1>2. PICK l \in Nat : l = Len(p)  BY LenProperties
<1>3. n <= l  BY <1>1, <1>2 DEF InBrackets, Begins
<1>4. PICK g \in Seq(T), r \in T : e = Append(g, r)  BY SequenceEmptyOrAppend
<1>5. PICK u : u = p \o g  OBVIOUS
<1>6. u \in Seq(T) /\ p \o e = Append(u, r)
  <2>1. PICK x : x = <<r>>  OBVIOUS
  <2>2. x \in Seq(T) /\ e = g \o x  BY <1>4, <2>1, AppendIsConcat
  <2>3. u \in Seq(T)  BY <1>5, ConcatProperties
  <2>4. Append(u, r) = u \o x  BY <2>1, <2>3, AppendIsConcat
  <2>5. (p \o g) \o x = p \o (g \o x)  BY <2>2, ConcatAssociative
  <2> QED  BY <1>5, <2>2, <2>3, <2>4, <2>5
<1>7. n <= Len(u)
  <2>1. Len(u) = l + Len(g) /\ Len(g) \in Nat  BY <1>2, <1>5, ConcatProperties, LenProperties
  <2> QED  BY <1>3, <2>1
<1>8. PICK a : a = After(p, n)  OBVIOUS
<1>9. a \in Seq(T) /\ IsOpen(a, "COMMA", shapes, o)
  BY <1>1, <1>8, AfterIs DEF InBrackets
<1>10. Inside(p \o e, n) = a \o g
  <2>1. Inside(Append(u, r), n) = After(u, n)  BY <1>6, <1>7, InsideAppend
  <2>2. After(p \o g, n) = After(p, n) \o g  BY <1>2, <1>3, AfterGoes
  <2> QED  BY <1>5, <1>6, <1>8, <2>1, <2>2
<1>11. IsList(a \o g, "COMMA", shapes)  BY <1>1, <1>10 DEF Closed
<1>12. CASE g = << >>
  <2>1. a \o g = a  BY <1>9, <1>12, ConcatEmptySeq
  <2>2. o \in shapes  BY <1>9, <1>11, <2>1, OpenDone
  <2>3. Len(Append(u, r)) = Len(u) + 1 /\ Append(u, r)[Len(u) + 1] = r
    BY <1>6, AppendProperties
  <2>4. r.type = "RPAREN"  BY <1>6, <2>3 DEF Closed, Last
  <2>5. e[1] = r
    <3>1. Len(g) = 0  BY <1>12, EmptySeq
    <3>2. e[Len(g) + 1] = r  BY <1>4, AppendProperties
    <3> QED  BY <3>1, <3>2
  <2> QED  BY <2>2, <2>4, <2>5
<1>13. CASE g # << >>
  <2>1. e[1] = g[1]
    <3>1. 1 \in 1 .. Len(g)  BY <1>13, EmptySeq
    <3> QED  BY <1>4, <3>1, AppendProperties
  <2>2. MayFollow(g[1].type, o, "COMMA", shapes)
    BY <1>9, <1>11, <1>13, OpenMayFollow
  <2> QED  BY <2>1, <2>2
<1> QED  BY <1>12, <1>13

----------------------------------------------------------------------------
(* Tokens appended one after the other *)

LEMMA AppendEq ==
  ASSUME NEW T, NEW s \in Seq(T), NEW t \in T, NEW w \in Seq(T), NEW n, n = Len(s),
         Len(w) = n + 1, w[n + 1] = t, \A i \in 1 .. n : w[i] = s[i]
  PROVE  Append(s, t) = w
<1>1. n \in Nat  BY LenProperties
<1>2. PICK u : u = Append(s, t)  OBVIOUS
<1>3. /\ u \in Seq(T) /\ Len(u) = n + 1 /\ u[n + 1] = t
      /\ \A i \in 1 .. n : u[i] = s[i]
  BY <1>2, AppendProperties
<1>4. \A i \in 1 .. n + 1 : i = n + 1 \/ i \in 1 .. n  BY <1>1
<1>5. \A i \in 1 .. Len(u) : u[i] = w[i]  BY <1>3, <1>4
<1>6. u = w  BY <1>3, <1>5, SeqEqual
<1> QED  BY <1>2, <1>6

LEMMA Append2 ==
  ASSUME NEW a, NEW b
  PROVE  Append(<<a>>, b) = <<a, b>>
<1>1. PICK S : a \in S /\ b \in S
  <2>1. PICK S : S = {a, b}  OBVIOUS
  <2> QED  BY <2>1
<1>2. PICK s : s = <<a>>  OBVIOUS
<1>3. s \in Seq(S) /\ Len(s) = 1 /\ s[1] = a
  BY <1>1, <1>2
<1>4. PICK w : w = <<a, b>>  OBVIOUS
<1>5. w \in Seq(S) /\ Len(w) = 2 /\ w[1] = a /\ w[2] = b
  BY <1>1, <1>4
<1>6. PICK t \in S : t = b  BY <1>1
<1>7. PICK l : l = 1  OBVIOUS
<1>8. l = Len(s) /\ Len(w) = l + 1 /\ w[l + 1] = t /\ \A i \in 1 .. l : w[i] = s[i]
  BY <1>3, <1>5, <1>6, <1>7
<1>9. s \in Seq(S) /\ w \in Seq(S)  BY <1>3, <1>5
<1>10. Append(s, t) = w  BY <1>8, <1>9, AppendEq
<1> QED  BY <1>2, <1>4, <1>6, <1>10

LEMMA Append3 ==
  ASSUME NEW a, NEW b, NEW c
  PROVE  Append(<<a, b>>, c) = <<a, b, c>>
<1>1. PICK S : a \in S /\ b \in S /\ c \in S
  <2>1. PICK S : S = {a, b, c}  OBVIOUS
  <2> QED  BY <2>1
<1>2. PICK s : s = <<a, b>>  OBVIOUS
<1>3. s \in Seq(S) /\ Len(s) = 2 /\ s[1] = a /\ s[2] = b
  BY <1>1, <1>2
<1>4. PICK w : w = <<a, b, c>>  OBVIOUS
<1>5. w \in Seq(S) /\ Len(w) = 3 /\ w[1] = a /\ w[2] = b /\ w[3] = c
  BY <1>1, <1>4
<1>6. PICK t \in S : t = c  BY <1>1
<1>7. PICK l : l = 2  OBVIOUS
<1>8. l = Len(s) /\ Len(w) = l + 1 /\ w[l + 1] = t /\ \A i \in 1 .. l : w[i] = s[i]
  BY <1>3, <1>5, <1>6, <1>7
<1>9. s \in Seq(S) /\ w \in Seq(S)  BY <1>3, <1>5
<1>10. Append(s, t) = w  BY <1>8, <1>9, AppendEq
<1> QED  BY <1>2, <1>4, <1>6, <1>10

LEMMA Append4 ==
  ASSUME NEW a, NEW b, NEW c, NEW d
  PROVE  Append(<<a, b, c>>, d) = <<a, b, c, d>>
<1>1. PICK S : a \in S /\ b \in S /\ c \in S /\ d \in S
  <2>1. PICK S : S = {a, b, c, d}  OBVIOUS
  <2> QED  BY <2>1
<1>2. PICK s : s = <<a, b, c>>  OBVIOUS
<1>3. s \in Seq(S) /\ Len(s) = 3 /\ s[1] = a /\ s[2] = b /\ s[3] = c
  BY <1>1, <1>2
<1>4. PICK w : w = <<a, b, c, d>>  OBVIOUS
<1>5. w \in Seq(S) /\ Len(w) = 4 /\ w[1] = a /\ w[2] = b /\ w[3] = c /\ w[4] = d
  BY <1>1, <1>4
<1>6. PICK t \in S : t = d  BY <1>1
<1>7. PICK l : l = 3  OBVIOUS
<1>8. l = Len(s) /\ Len(w) = l + 1 /\ w[l + 1] = t /\ \A i \in 1 .. l : w[i] = s[i]
  BY <1>3, <1>5, <1>6, <1>7
<1>9. s \in Seq(S) /\ w \in Seq(S)  BY <1>3, <1>5
<1>10. Append(s, t) = w  BY <1>8, <1>9, AppendEq
<1> QED  BY <1>2, <1>4, <1>6, <1>10

LEMMA Append5 ==
  ASSUME NEW a, NEW b, NEW c, NEW d, NEW e
  PROVE  Append(<<a, b, c, d>>, e) = <<a, b, c, d, e>>
<1>1. PICK S : a \in S /\ b \in S /\ c \in S /\ d \in S /\ e \in S
  <2>1. PICK S : S = {a, b, c, d, e}  OBVIOUS
  <2> QED  BY <2>1
<1>2. PICK s : s = <<a, b, c, d>>  OBVIOUS
<1>3. s \in Seq(S) /\ Len(s) = 4 /\ s[1] = a /\ s[2] = b /\ s[3] = c /\ s[4] = d
  BY <1>1, <1>2
<1>4. PICK w : w = <<a, b, c, d, e>>  OBVIOUS
<1>5. w \in Seq(S) /\ Len(w) = 5 /\ w[1] = a /\ w[2] = b /\ w[3] = c /\ w[4] = d /\ w[5] = e
  BY <1>1, <1>4
<1>6. PICK t \in S : t = e  BY <1>1
<1>7. PICK l : l = 4  OBVIOUS
<1>8. l = Len(s) /\ Len(w) = l + 1 /\ w[l + 1] = t /\ \A i \in 1 .. l : w[i] = s[i]
  BY <1>3, <1>5, <1>6, <1>7
<1>9. s \in Seq(S) /\ w \in Seq(S)  BY <1>3, <1>5
<1>10. Append(s, t) = w  BY <1>8, <1>9, AppendEq
<1> QED  BY <1>2, <1>4, <1>6, <1>10

LEMMA Append6 ==
  ASSUME NEW a, NEW b, NEW c, NEW d, NEW e, NEW f
  PROVE  Append(<<a, b, c, d, e>>, f) = <<a, b, c, d, e, f>>
<1>1. PICK S : a \in S /\ b \in S /\ c \in S /\ d \in S /\ e \in S /\ f \in S
  <2>1. PICK S : S = {a, b, c, d, e, f}  OBVIOUS
  <2> QED  BY <2>1
<1>2. PICK s : s = <<a, b, c, d, e>>  OBVIOUS
<1>3. s \in Seq(S) /\ Len(s) = 5 /\ s[1] = a /\ s[2] = b /\ s[3] = c /\ s[4] = d /\ s[5] = e
  BY <1>1, <1>2
<1>4. PICK w : w = <<a, b, c, d, e, f>>  OBVIOUS
<1>5. w \in Seq(S) /\ Len(w) = 6 /\ w[1] = a /\ w[2] = b /\ w[3] = c /\ w[4] = d /\ w[5] = e /\ w[6] = f
  BY <1>1, <1>4
<1>6. PICK t \in S : t = f  BY <1>1
<1>7. PICK l : l = 5  OBVIOUS
<1>8. l = Len(s) /\ Len(w) = l + 1 /\ w[l + 1] = t /\ \A i \in 1 .. l : w[i] = s[i]
  BY <1>3, <1>5, <1>6, <1>7
<1>9. s \in Seq(S) /\ w \in Seq(S)  BY <1>3, <1>5
<1>10. Append(s, t) = w  BY <1>8, <1>9, AppendEq
<1> QED  BY <1>2, <1>4, <1>6, <1>10

\* In a head that is not complete, the next token is the next of the head.
LEMMA HeadFollow ==
  ASSUME NEW T, NEW p \in Seq(T), NEW e \in Seq(T), e # << >>, NEW head,
         DOMAIN head = 1 .. Len(head), Len(head) \in Nat, Len(p) < Len(head),
         NEW shapes, Closed(p \o e, head, shapes)
  PROVE  e[1].type = head[Len(p) + 1]
<1>1. PICK n \in Nat : n = Len(p)  BY LenProperties
<1>2. PICK l \in Nat : l = Len(head)  OBVIOUS
<1>3. n + 1 \in DOMAIN head  BY <1>1, <1>2
<1>4. (p \o e)[n + 1].type = head[n + 1]  BY <1>3 DEF Closed, StartsWith
<1>5. (p \o e)[n + 1] = e[1]  BY <1>1, FirstBehind
<1> QED  BY <1>1, <1>4, <1>5

LEMMA FirstStays ==
  ASSUME NEW T, NEW p \in Seq(T), NEW e \in Seq(T), p # << >>
  PROVE  (p \o e)[1] = p[1]
<1>1. PICK n \in Nat : n = Len(p)  BY LenProperties
<1>2. PICK m \in Nat : m = Len(e)  BY LenProperties
<1>3. n >= 1  BY <1>1, EmptySeq
<1>4. 1 \in 1 .. n + m /\ 1 <= n  BY <1>3
<1>5. \A i \in 1 .. n + m : (p \o e)[i] = IF i <= n THEN p[i] ELSE e[i - n]
  BY <1>1, <1>2, ConcatProperties
<1> QED  BY <1>4, <1>5

LEMMA ProlongsNone ==
  ASSUME NEW q, NEW x, Prolongs(q, << >>, x)
  PROVE  Len(q) > 0 /\ q[1] = x
  BY DEF Prolongs

LEMMA Prolongs1 ==
  ASSUME NEW q, NEW x, NEW a, Prolongs(q, <<a>>, x)
  PROVE  Len(q) > 1 /\ q[1] = a /\ q[2] = x
<1>1. PICK o : o = <<a>>  OBVIOUS
<1>2. Len(o) = 1 /\ o[1] = a
  BY <1>1
<1>3. Len(q) > 1 /\ (\A j \in 1 .. 1 : q[j] = o[j]) /\ q[1 + 1] = x
  BY <1>1, <1>2 DEF Prolongs
<1> QED  BY <1>2, <1>3

LEMMA Prolongs2 ==
  ASSUME NEW q, NEW x, NEW a, NEW b, Prolongs(q, <<a, b>>, x)
  PROVE  Len(q) > 2 /\ q[1] = a /\ q[2] = b /\ q[3] = x
<1>1. PICK o : o = <<a, b>>  OBVIOUS
<1>2. Len(o) = 2 /\ o[1] = a /\ o[2] = b
  BY <1>1
<1>3. Len(q) > 2 /\ (\A j \in 1 .. 2 : q[j] = o[j]) /\ q[2 + 1] = x
  BY <1>1, <1>2 DEF Prolongs
<1> QED  BY <1>2, <1>3

LEMMA Prolongs3 ==
  ASSUME NEW q, NEW x, NEW a, NEW b, NEW c, Prolongs(q, <<a, b, c>>, x)
  PROVE  Len(q) > 3 /\ q[1] = a /\ q[2] = b /\ q[3] = c /\ q[4] = x
<1>1. PICK o : o = <<a, b, c>>  OBVIOUS
<1>2. Len(o) = 3 /\ o[1] = a /\ o[2] = b /\ o[3] = c
  BY <1>1
<1>3. Len(q) > 3 /\ (\A j \in 1 .. 3 : q[j] = o[j]) /\ q[3 + 1] = x
  BY <1>1, <1>2 DEF Prolongs
<1> QED  BY <1>2, <1>3

LEMMA Prolongs4 ==
  ASSUME NEW q, NEW x, NEW a, NEW b, NEW c, NEW d, Prolongs(q, <<a, b, c, d>>, x)
  PROVE  Len(q) > 4 /\ q[1] = a /\ q[2] = b /\ q[3] = c /\ q[4] = d /\ q[5] = x
<1>1. PICK o : o = <<a, b, c, d>>  OBVIOUS
<1>2. Len(o) = 4 /\ o[1] = a /\ o[2] = b /\ o[3] = c /\ o[4] = d
  BY <1>1
<1>3. Len(q) > 4 /\ (\A j \in 1 .. 4 : q[j] = o[j]) /\ q[4 + 1] = x
  BY <1>1, <1>2 DEF Prolongs
<1> QED  BY <1>2, <1>3

LEMMA Prolongs5 ==
  ASSUME NEW q, NEW x, NEW a, NEW b, NEW c, NEW d, NEW e, Prolongs(q, <<a, b, c, d, e>>, x)
  PROVE  Len(q) > 5 /\ q[1] = a /\ q[2] = b /\ q[3] = c /\ q[4] = d /\ q[5] = e /\ q[6] = x
<1>1. PICK o : o = <<a, b, c, d, e>>  OBVIOUS
<1>2. Len(o) = 5 /\ o[1] = a /\ o[2] = b /\ o[3] = c /\ o[4] = d /\ o[5] = e
  BY <1>1
<1>3. Len(q) > 5 /\ (\A j \in 1 .. 5 : q[j] = o[j]) /\ q[5 + 1] = x
  BY <1>1, <1>2 DEF Prolongs
<1> QED  BY <1>2, <1>3

LEMMA Prolongs6 ==
  ASSUME NEW q, NEW x, NEW a, NEW b, NEW c, NEW d, NEW e, NEW f, Prolongs(q, <<a, b, c, d, e, f>>, x)
  PROVE  Len(q) > 6 /\ q[1] = a /\ q[2] = b /\ q[3] = c /\ q[4] = d /\ q[5] = e /\ q[6] = f /\ q[7] = x
<1>1. PICK o : o = <<a, b, c, d, e, f>>  OBVIOUS
<1>2. Len(o) = 6 /\ o[1] = a /\ o[2] = b /\ o[3] = c /\ o[4] = d /\ o[5] = e /\ o[6] = f
  BY <1>1
<1>3. Len(q) > 6 /\ (\A j \in 1 .. 6 : q[j] = o[j]) /\ q[6 + 1] = x
  BY <1>1, <1>2 DEF Prolongs
<1> QED  BY <1>2, <1>3

LEMMA NameFollow ==
  ASSUME NEW x, NEW o, MayFollow(x, o, "COMMA", {<<"IDENT">>})
  PROVE  /\ o = << >> => x = "IDENT"
         /\ o = <<"IDENT">> => x = "COMMA"
<1>1. ASSUME o = << >>  PROVE x = "IDENT"
  <2>1. Prolongs(<<"IDENT">>, << >>, x)
    BY <1>1 DEF MayFollow
  <2> QED  BY <2>1, ProlongsNone
<1>2. ASSUME o = <<"IDENT">>, x # "COMMA"  PROVE FALSE
  <2>1. Prolongs(<<"IDENT">>, <<"IDENT">>, x)
    BY <1>2 DEF MayFollow
  <2>2. Len(<<"IDENT">>) > 1  BY <2>1, Prolongs1
  <2> QED  BY <2>2
<1> QED  BY <1>1, <1>2

LEMMA WordHead ==
  ASSUME NEW T, NEW t \in T
  PROVE  Types(<<t>>) = <<t.type>>
<1>1. << >> \in Seq(T) /\ Append(<< >>, t) = <<t>>  BY EmptySeq
<1>2. Types(<< >>) = << >>  BY DEF Types
<1>3. Types(Append(<< >>, t)) = Append(<< >>, t.type)  BY <1>1, <1>2, TypesGrow
<1> QED  BY <1>1, <1>3

LEMMA TwoTypes ==
  ASSUME NEW T, NEW c \in Seq(T), NEW a, NEW b, Types(c) = <<a, b>>
  PROVE  c[1].type = a /\ Types(After(c, 1)) = <<b>>
<1>1. PICK n \in Nat : n = Len(c)  BY LenProperties
<1>2. PICK y : y = Types(c)  OBVIOUS
<1>3. Len(y) = 2 /\ y[1] = a /\ y[2] = b  BY <1>2
<1>4. n = 2 /\ \A i \in 1 .. n : y[i] = c[i].type  BY <1>1, <1>2, <1>3, TypesAre
<1>5. c[1].type = a /\ c[2].type = b
  <2>1. 1 \in 1 .. n /\ 2 \in 1 .. n  BY <1>4
  <2> QED  BY <1>3, <1>4, <2>1
<1>6. PICK m \in Nat : m = 1  OBVIOUS
<1>7. PICK d : d = After(c, m)  OBVIOUS
<1>8. d \in Seq(T) /\ Len(d) = n - m /\ \A i \in 1 .. n - m : d[i] = c[m + i]
  <2>1. m <= Len(c)  BY <1>1, <1>4, <1>6
  <2> QED  BY <1>1, <1>7, <2>1, AfterIs
<1>9. Len(d) = 1 /\ d[1] = c[2] /\ d[1] \in T
  <2>1. n - m = 1 /\ 1 \in 1 .. n - m /\ m + 1 = 2  BY <1>4, <1>6
  <2>2. Len(d) = 1 /\ d[1] = c[m + 1]  BY <1>8, <2>1
  <2> QED  BY <1>8, <2>1, <2>2
<1>10. d = <<d[1]>>
  <2>1. PICK t \in T : t = d[1]  BY <1>9
  <2>2. PICK s \in Seq(T) : s = << >>
    <3>1. << >> \in Seq(T)  BY EmptySeq
    <3> QED  BY <3>1
  <2>3. PICK k \in Nat : k = 0 /\ k = Len(s)  BY <2>2
  <2>4. Len(d) = k + 1 /\ d[k + 1] = t /\ \A i \in 1 .. k : d[i] = s[i]
    BY <1>9, <2>1, <2>3
  <2>5. Append(s, t) = d  BY <1>8, <2>3, <2>4, AppendEq
  <2> QED  BY <2>1, <2>2, <2>5
<1>11. PICK t \in T : t = d[1]  BY <1>9
<1>12. Types(<<t>>) = <<t.type>>  BY WordHead
<1>13. d = <<t>> /\ t.type = b  BY <1>5, <1>9, <1>10, <1>11
<1> QED  BY <1>5, <1>6, <1>7, <1>12, <1>13

LEMMA OneType ==
  ASSUME NEW T, NEW c \in Seq(T), NEW a, Types(c) = <<a>>
  PROVE  c[1].type = a /\ Len(c) = 1
<1>1. PICK n \in Nat : n = Len(c)  BY LenProperties
<1>2. PICK y : y = Types(c)  OBVIOUS
<1>3. Len(y) = 1 /\ y[1] = a  BY <1>2
<1>4. n = 1 /\ \A i \in 1 .. n : y[i] = c[i].type  BY <1>1, <1>2, <1>3, TypesAre
<1>5. 1 \in 1 .. n  BY <1>4
<1> QED  BY <1>1, <1>3, <1>4, <1>5

\* What stands behind the word of a clause that is no list.
LEMMA BehindWord ==
  ASSUME NEW T, NEW c \in Seq(T), NEW z \in Seq(T), z # << >>, Len(c) = 1
  PROVE  /\ (c \o z)[1] = c[1] /\ (c \o z)[2] = z[1]
         /\ After(c \o z, 1) = z
<1>1. c # << >>
  <2>1. PICK n \in Nat : n = Len(c) /\ n # 0  OBVIOUS
  <2> QED  BY <2>1, EmptySeq
<1>2. (c \o z)[1] = c[1]  BY <1>1, FirstStays
<1>3. (c \o z)[2] = z[1]
  <2>1. PICK n \in Nat : n = 1 /\ n = Len(c)  OBVIOUS
  <2>2. (c \o z)[n + 1] = z[1]  BY <2>1, FirstBehind
  <2>3. n + 1 = 2  BY <2>1
  <2> QED  BY <2>2, <2>3
<1>4. After(c \o z, 1) = z
  <2>1. PICK n \in Nat : n = 1 /\ n = Len(c)  OBVIOUS
  <2>2. n <= Len(c) /\ n >= Len(c)  BY <2>1
  <2>3. After(c, n) = << >>  BY <2>2, AfterIs
  <2>4. After(c \o z, n) = << >> \o z  BY <2>2, <2>3, AfterGoes
  <2>5. << >> \o z = z  OBVIOUS
  <2> QED  BY <2>1, <2>4, <2>5
<1> QED  BY <1>2, <1>3, <1>4

\* What is left of an ending from its k-th token on.
Left(e, k) == SubSeq(e, k, Len(e))

LEMMA LeftIs ==
  ASSUME NEW T, NEW e \in Seq(T), NEW n \in Nat, n = Len(e), NEW k \in 1 .. n + 1
  PROVE  /\ Left(e, k) \in Seq(T) /\ Len(Left(e, k)) = n - k + 1
         /\ \A i \in 1 .. n - k + 1 : Left(e, k)[i] = e[k + i - 1]
<1>1. \A i \in k .. n : e[i] \in T
  <2> SUFFICES ASSUME NEW i \in k .. n  PROVE e[i] \in T
    OBVIOUS
  <2>1. i \in 1 .. n  OBVIOUS
  <2> QED  BY <2>1, ElementOfSeq
<1>2. /\ SubSeq(e, k, n) \in Seq(T)
      /\ Len(SubSeq(e, k, n)) = IF k <= n THEN n - k + 1 ELSE 0
      /\ \A i \in 1 .. n - k + 1 : SubSeq(e, k, n)[i] = e[k + i - 1]
  <2>1. k \in Int /\ n \in Int  OBVIOUS
  <2> QED  BY <1>1, <2>1, SubSeqProperties
<1> QED  BY <1>2 DEF Left

LEMMA LeftStep ==
  ASSUME NEW T, NEW p \in Seq(T), NEW e \in Seq(T), NEW n \in Nat, n = Len(e),
         NEW k \in 1 .. n
  PROVE  /\ e[k] \in T
         /\ p \o Left(e, k) = Append(p, e[k]) \o Left(e, k + 1)
<1>1. PICK j \in 1 .. n + 1 : j = k + 1  OBVIOUS
<1>2. k \in 1 .. n + 1  OBVIOUS
<1>3. PICK f : f = Left(e, k)  OBVIOUS
<1>4. PICK g : g = Left(e, j)  OBVIOUS
<1>5. f \in Seq(T) /\ Len(f) = n - k + 1 /\ \A i \in 1 .. n - k + 1 : f[i] = e[k + i - 1]
  BY <1>2, <1>3, LeftIs
<1>6. g \in Seq(T) /\ Len(g) = n - j + 1 /\ \A i \in 1 .. n - j + 1 : g[i] = e[j + i - 1]
  BY <1>4, LeftIs
<1>7. e[k] \in T  BY ElementOfSeq
<1>8. PICK t \in T : t = e[k]  BY <1>7
<1>9. PICK w : w = Append(p, t)  OBVIOUS
<1>10. PICK m \in Nat : m = Len(p)  BY LenProperties
<1>11. /\ w \in Seq(T) /\ Len(w) = m + 1 /\ w[m + 1] = t
       /\ \A i \in 1 .. m : w[i] = p[i]
  BY <1>9, <1>10, AppendProperties
<1>12. PICK x : x = p \o f  OBVIOUS
<1>13. PICK y : y = w \o g  OBVIOUS
<1>14. PICK a \in Nat : a = n - k + 1  OBVIOUS
<1>15. PICK b \in 0 .. n : b = n - k  OBVIOUS
<1>16. /\ x \in Seq(T) /\ Len(x) = m + a
       /\ \A i \in 1 .. m + a : x[i] = IF i <= m THEN p[i] ELSE f[i - m]
  <2>1. Len(f) = a  BY <1>5, <1>14
  <2> QED  BY <1>5, <1>10, <1>12, <2>1, ConcatProperties, ZenonT(60)
<1>17. /\ y \in Seq(T) /\ Len(y) = m + 1 + b
       /\ \A i \in 1 .. m + 1 + b : y[i] = IF i <= m + 1 THEN w[i] ELSE g[i - (m + 1)]
  <2>1. Len(g) = b /\ g \in Seq(T)  BY <1>1, <1>6, <1>15
  <2>2. PICK c \in Nat : c = m + 1  OBVIOUS
  <2>3. Len(w) = c /\ w \in Seq(T)  BY <1>11, <2>2
  <2>4. /\ y \in Seq(T) /\ Len(y) = c + b
        /\ \A i \in 1 .. c + b : y[i] = IF i <= c THEN w[i] ELSE g[i - c]
    BY <1>13, <2>1, <2>3, ConcatProperties
  <2> QED  BY <2>2, <2>4
<1>18. m + a = m + 1 + b  BY <1>14, <1>15
<1>19. ASSUME NEW i \in 1 .. m + a  PROVE x[i] = y[i]
  <2>1. CASE i <= m
    <3>1. i \in 1 .. m /\ i <= m + 1 /\ i \in 1 .. m + 1 + b  BY <1>18, <2>1
    <3> QED  BY <1>11, <1>16, <1>17, <2>1, <3>1
  <2>2. CASE i = m + 1
    <3>1. ~(i <= m) /\ i <= m + 1 /\ i \in 1 .. m + 1 + b  BY <1>18, <2>2
    <3>2. x[i] = f[i - m] /\ y[i] = w[i]  BY <1>16, <1>17, <3>1
    <3>3. i - m = 1 /\ 1 \in 1 .. n - k + 1 /\ k + 1 - 1 = k  BY <2>2
    <3>4. f[1] = e[k]
      <4>1. f[1] = e[k + 1 - 1]  BY <1>5, <3>3
      <4> QED  BY <3>3, <4>1
    <3> QED  BY <1>8, <1>11, <2>2, <3>2, <3>3, <3>4
  <2>3. CASE i > m + 1
    <3>1. ~(i <= m) /\ ~(i <= m + 1) /\ i \in 1 .. m + 1 + b  BY <1>18, <2>3
    <3>2. x[i] = f[i - m] /\ y[i] = g[i - (m + 1)]  BY <1>16, <1>17, <3>1
    <3>3. i - m \in 1 .. n - k + 1 /\ i - (m + 1) \in 1 .. n - j + 1
      BY <1>1, <1>14, <2>3
    <3>4. f[i - m] = e[k + (i - m) - 1]  BY <1>5, <3>3
    <3>5. g[i - (m + 1)] = e[j + (i - (m + 1)) - 1]  BY <1>6, <3>3
    <3>6. k + (i - m) - 1 = j + (i - (m + 1)) - 1  BY <1>1
    <3> QED  BY <3>2, <3>4, <3>5, <3>6
  <2> QED  BY <2>1, <2>2, <2>3
<1>20. x = y  BY <1>16, <1>17, <1>18, <1>19, SeqEqual
<1> QED  BY <1>1, <1>3, <1>4, <1>7, <1>8, <1>9, <1>12, <1>13, <1>20

LEMMA AppendThen ==
  ASSUME NEW T, NEW p \in Seq(T), NEW t \in T, NEW e \in Seq(T)
  PROVE  LET f == <<t>> \o e
         IN f \in Seq(T) /\ f # << >> /\ f[1] = t /\ Append(p, t) \o e = p \o f
<1>1. PICK u : u = <<t>>  OBVIOUS
<1>2. u \in Seq(T) /\ Len(u) = 1 /\ u[1] = t  BY <1>1
<1>3. PICK f : f = u \o e  OBVIOUS
<1>4. PICK m \in Nat : m = Len(e)  BY LenProperties
<1>5. PICK n \in Nat : n = Len(p)  BY LenProperties
<1>6. PICK a \in Nat : a = 1  OBVIOUS
<1>7. /\ f \in Seq(T) /\ Len(f) = a + m
      /\ \A i \in 1 .. a + m : f[i] = IF i <= a THEN u[i] ELSE e[i - a]
  <2>1. u \in Seq(T) /\ Len(u) = a  BY <1>2, <1>6
  <2> QED  BY <1>3, <1>4, <2>1, ConcatProperties
<1>8. f # << >>
  <2>1. a + m # 0  BY <1>6
  <2> QED  BY <1>7, <2>1, EmptySeq
<1>9. f[1] = t
  <2>1. 1 \in 1 .. a + m /\ 1 <= a  BY <1>6
  <2> QED  BY <1>2, <1>7, <2>1
<1>10. PICK w : w = Append(p, t)  OBVIOUS
<1>11. /\ w \in Seq(T) /\ Len(w) = n + 1 /\ w[n + 1] = t
       /\ \A i \in 1 .. n : w[i] = p[i]
  BY <1>5, <1>10, AppendProperties
<1>12. PICK x : x = w \o e  OBVIOUS
<1>13. PICK y : y = p \o f  OBVIOUS
<1>14. PICK b \in Nat : b = n + 1  OBVIOUS
<1>15. PICK c \in Nat : c = a + m  OBVIOUS
<1>16. /\ x \in Seq(T) /\ Len(x) = b + m
       /\ \A i \in 1 .. b + m : x[i] = IF i <= b THEN w[i] ELSE e[i - b]
  <2>1. w \in Seq(T) /\ Len(w) = b  BY <1>11, <1>14
  <2> QED  BY <1>4, <1>12, <2>1, ConcatProperties
<1>17. /\ y \in Seq(T) /\ Len(y) = n + c
       /\ \A i \in 1 .. n + c : y[i] = IF i <= n THEN p[i] ELSE f[i - n]
  <2>1. f \in Seq(T) /\ Len(f) = c  BY <1>7, <1>15
  <2> QED  BY <1>5, <1>13, <2>1, ConcatProperties
<1>18. n + c = b + m  BY <1>6, <1>14, <1>15
<1>19. ASSUME NEW i \in 1 .. n + c  PROVE x[i] = y[i]
  <2>1. CASE i <= n
    <3>1. i \in 1 .. n /\ i <= b /\ i \in 1 .. b + m  BY <1>14, <1>18, <2>1
    <3> QED  BY <1>11, <1>16, <1>17, <2>1, <3>1
  <2>2. CASE i = n + 1
    <3>1. ~(i <= n) /\ i <= b /\ i \in 1 .. b + m /\ i - n = 1  BY <1>14, <1>18, <2>2
    <3>2. x[i] = w[i] /\ y[i] = f[i - n]  BY <1>16, <1>17, <3>1
    <3> QED  BY <1>9, <1>11, <2>2, <3>1, <3>2
  <2>3. CASE i > n + 1
    <3>1. ~(i <= n) /\ ~(i <= b) /\ i \in 1 .. b + m  BY <1>14, <1>18, <2>3
    <3>2. x[i] = e[i - b] /\ y[i] = f[i - n]  BY <1>16, <1>17, <3>1
    <3>3. i - n \in 1 .. a + m /\ ~(i - n <= a) /\ i - n - a = i - b
      BY <1>6, <1>14, <1>15, <2>3
    <3>4. f[i - n] = e[i - n - a]  BY <1>7, <3>3
    <3> QED  BY <3>2, <3>3, <3>4
  <2> QED  BY <2>1, <2>2, <2>3
<1>20. x = y  BY <1>16, <1>17, <1>18, <1>19, SeqEqual
<1> QED  BY <1>1, <1>3, <1>7, <1>8, <1>9, <1>10, <1>12, <1>13, <1>20

----------------------------------------------------------------------------
(* The rows that the pieces of a list make, f being what a piece says *)

Begun(ps) == {k \in DOMAIN ps : ps[k] # << >>}

RowsFrom(f, ps) == [k \in Begun(ps) |-> f[ps[k]]]

ListRows(f, s, separator) == RowsFrom(f, Pieces(s, separator))

Sayings(f, T) == {f[q] : q \in Seq(T)}

\* Of n pieces only the last may still be empty: m have begun.
Filled(ps, n, m, T) ==
  /\ ps \in Seq(Seq(T)) /\ n \in Nat /\ n = Len(ps) /\ n >= 1 /\ m \in Nat
  /\ \A k \in 1 .. n - 1 : ps[k] # << >>
  /\ ps[n] = << >> => m = n - 1
  /\ ps[n] # << >> => m = n

PieceRows(r, f, ps, m, T) ==
  /\ Begun(ps) = 1 .. m
  /\ r \in Seq(Sayings(f, T)) /\ Len(r) = m
  /\ \A k \in 1 .. m : r[k] = f[ps[k]]

LEMMA PieceRowsAre ==
  ASSUME NEW T, NEW f, NEW ps, NEW n, NEW m, Filled(ps, n, m, T)
  PROVE  PieceRows(RowsFrom(f, ps), f, ps, m, T)
<1>0. /\ ps \in Seq(Seq(T)) /\ n \in Nat /\ n = Len(ps) /\ n >= 1 /\ m \in Nat
      /\ \A k \in 1 .. n - 1 : ps[k] # << >>
  BY DEF Filled
<1>1. m \in 0 .. n /\ (ps[n] = << >> => m = n - 1) /\ (ps[n] # << >> => m = n)
  BY <1>0 DEF Filled
<1>2. DOMAIN ps = 1 .. n  BY <1>0
<1>3. Begun(ps) = 1 .. m
  <2>1. ASSUME NEW k \in 1 .. n  PROVE ps[k] # << >> <=> k <= m
    <3>1. CASE k = n  BY <1>1, <3>1
    <3>2. CASE k \in 1 .. n - 1  BY <1>0, <1>1, <3>2
    <3>3. k = n \/ k \in 1 .. n - 1  BY <1>0
    <3> QED  BY <3>1, <3>2, <3>3
  <2>2. \A k \in 1 .. m : k \in 1 .. n /\ k <= m  BY <1>0, <1>1
  <2>3. \A k \in 1 .. n : k <= m <=> k \in 1 .. m  BY <1>0
  <2> QED  BY <1>2, <2>1, <2>2, <2>3 DEF Begun
<1>4. \A k \in 1 .. m : f[ps[k]] \in Sayings(f, T)
  <2> SUFFICES ASSUME NEW k \in 1 .. m  PROVE f[ps[k]] \in Sayings(f, T)
    OBVIOUS
  <2>1. k \in 1 .. n  BY <1>0, <1>1
  <2>2. ps[k] \in Seq(T)  BY <1>0, <2>1, ElementOfSeq
  <2> QED  BY <2>2 DEF Sayings
<1>5. PICK r : r = [k \in 1 .. m |-> f[ps[k]]]  OBVIOUS
<1>6. RowsFrom(f, ps) = r  BY <1>3, <1>5 DEF RowsFrom
<1>7. r \in Seq(Sayings(f, T)) /\ Len(r) = m  BY <1>0, <1>4, <1>5
<1>8. \A k \in 1 .. m : r[k] = f[ps[k]]  BY <1>5
<1> QED  BY <1>3, <1>6, <1>7, <1>8 DEF PieceRows

\* A row more is there, or the last one is another.
Started(r, z, f, t) == z = Append(r, f[<<t>>])

Turned(r, x) == [r EXCEPT ![Len(r)] = x]

\* The last row of r says q, and becomes what q with t says.
Changed(r, z, f, q, t, T) ==
  /\ z = Turned(r, f[Append(q, t)]) /\ r \in Seq(Sayings(f, T)) /\ Len(r) >= 1
  /\ r[Len(r)] = f[q]

LEMMA PieceBegins ==
  ASSUME NEW T, NEW f, NEW ps, NEW n, Filled(ps, n, n, T)
  PROVE  RowsFrom(f, Append(ps, << >>)) = RowsFrom(f, ps)
<1>0. /\ ps \in Seq(Seq(T)) /\ n \in Nat /\ n = Len(ps) /\ n >= 1
      /\ \A k \in 1 .. n - 1 : ps[k] # << >>
      /\ ps[n] # << >>
  BY DEF Filled
<1>1. PICK e : e = << >>  OBVIOUS
<1>2. e \in Seq(T)  BY <1>1, EmptySeq
<1>3. PICK qs : qs = Append(ps, e)  OBVIOUS
<1>4. /\ qs \in Seq(Seq(T)) /\ Len(qs) = n + 1 /\ qs[n + 1] = e
      /\ \A k \in 1 .. n : qs[k] = ps[k]
  BY <1>0, <1>2, <1>3, AppendProperties
<1>5. Begun(qs) = 1 .. n
  <2>1. DOMAIN qs = 1 .. n + 1  BY <1>0, <1>4
  <2>2. \A k \in 1 .. n : qs[k] # << >>
    <3>1. \A k \in 1 .. n : k = n \/ k \in 1 .. n - 1  BY <1>0
    <3> QED  BY <1>0, <1>4, <3>1
  <2>3. \A k \in 1 .. n + 1 : k \in 1 .. n \/ k = n + 1  BY <1>0
  <2>4. \A k \in 1 .. n : k \in 1 .. n + 1 /\ n + 1 \notin 1 .. n  BY <1>0
  <2> QED  BY <1>1, <1>4, <2>1, <2>2, <2>3, <2>4 DEF Begun
<1>6. Begun(ps) = 1 .. n
  <2>1. PieceRows(RowsFrom(f, ps), f, ps, n, T)  BY PieceRowsAre
  <2> QED  BY <2>1 DEF PieceRows
<1> QED  BY <1>1, <1>3, <1>4, <1>5, <1>6 DEF RowsFrom

LEMMA PieceGrows ==
  ASSUME NEW T, NEW f, NEW ps, NEW n, NEW m, Filled(ps, n, m, T), NEW t \in T,
         NEW qs, qs = [ps EXCEPT ![n] = Append(ps[n], t)]
  PROVE  /\ ps[n] = << >> => Started(RowsFrom(f, ps), RowsFrom(f, qs), f, t)
         /\ ps[n] # << >> => Changed(RowsFrom(f, ps), RowsFrom(f, qs), f, ps[n], t, T)
<1>0. /\ ps \in Seq(Seq(T)) /\ n \in Nat /\ n = Len(ps) /\ n >= 1 /\ m \in Nat
      /\ \A k \in 1 .. n - 1 : ps[k] # << >>
  BY DEF Filled
<1>1. n \in 1 .. n /\ ps[n] \in Seq(T)
  <2>1. n \in 1 .. n  BY <1>0
  <2> QED  BY <1>0, <2>1, ElementOfSeq
<1>2. PICK q : q = Append(ps[n], t)  OBVIOUS
<1>3. q \in Seq(T) /\ q # << >>  BY <1>1, <1>2, AppendProperties
<1>4. qs \in Seq(Seq(T)) /\ Len(qs) = n /\ qs[n] = q
  BY <1>0, <1>1, <1>2, <1>3
<1>5. \A k \in 1 .. n - 1 : qs[k] = ps[k]
  <2>1. DOMAIN ps = 1 .. n  BY <1>0
  <2>2. \A k \in 1 .. n - 1 : k \in 1 .. n /\ k # n  BY <1>0
  <2> QED  BY <2>1, <2>2
<1>6. \A k \in 1 .. n - 1 : qs[k] # << >>  BY <1>0, <1>5
<1>7. PICK r : r = RowsFrom(f, ps)  OBVIOUS
<1>8. PICK z : z = RowsFrom(f, qs)  OBVIOUS
<1>9. PICK X : X = Sayings(f, T)  OBVIOUS
<1>10. /\ z \in Seq(X) /\ Len(z) = n /\ \A k \in 1 .. n : z[k] = f[qs[k]]
  <2>1. Filled(qs, n, n, T)  BY <1>0, <1>3, <1>4, <1>6 DEF Filled
  <2>2. PieceRows(z, f, qs, n, T)  BY <1>8, <2>1, PieceRowsAre
  <2> QED  BY <1>9, <2>2 DEF PieceRows
<1>11. f[q] \in X  BY <1>3, <1>9 DEF Sayings
<1>12. CASE ps[n] = << >>
  <2>1. m \in Nat /\ m = n - 1  BY <1>12 DEF Filled
  <2>2. /\ r \in Seq(X) /\ Len(r) = m /\ \A k \in 1 .. m : r[k] = f[ps[k]]
    <3>1. PieceRows(r, f, ps, m, T)  BY <1>7, PieceRowsAre
    <3> QED  BY <1>9, <3>1 DEF PieceRows
  <2>3. q = <<t>>  BY <1>2, <1>12
  <2>4. PICK x \in X : x = f[q]  BY <1>11
  <2>5. z[m + 1] = x
    <3>1. m + 1 = n  BY <1>0, <2>1
    <3> QED  BY <1>1, <1>4, <1>10, <2>4, <3>1
  <2>6. ASSUME NEW k \in 1 .. m  PROVE z[k] = r[k]
    <3>1. k \in 1 .. n /\ k \in 1 .. n - 1  BY <1>0, <2>1
    <3>2. z[k] = f[qs[k]]  BY <1>10, <3>1
    <3>3. qs[k] = ps[k]  BY <1>5, <3>1
    <3>4. r[k] = f[ps[k]]  BY <2>2
    <3> QED  BY <3>2, <3>3, <3>4
  <2>7. Len(z) = m + 1  BY <1>0, <1>10, <2>1
  <2>8. Append(r, x) = z  BY <1>10, <2>2, <2>5, <2>6, <2>7, AppendEq
  <2>9. Started(r, z, f, t)  BY <2>3, <2>4, <2>8 DEF Started
  <2> QED  BY <1>7, <1>8, <1>12, <2>9
<1>13. CASE ps[n] # << >>
  <2>1. /\ r \in Seq(X) /\ Len(r) = n /\ \A k \in 1 .. n : r[k] = f[ps[k]]
    <3>1. Filled(ps, n, n, T)  BY <1>0, <1>13 DEF Filled
    <3>2. PieceRows(r, f, ps, n, T)  BY <1>7, <3>1, PieceRowsAre
    <3> QED  BY <1>9, <3>2 DEF PieceRows
  <2>2. PICK u : u = [r EXCEPT ![n] = f[q]]  OBVIOUS
  <2>3. u \in Seq(X) /\ Len(u) = n /\ u[n] = f[q]  BY <1>0, <1>1, <1>11, <2>1, <2>2
  <2>4. \A k \in 1 .. n - 1 : u[k] = r[k]
    <3>1. DOMAIN r = 1 .. n  BY <1>0, <2>1
    <3>2. \A k \in 1 .. n - 1 : k \in 1 .. n /\ k # n  BY <1>0
    <3> QED  BY <2>2, <3>1, <3>2
  <2>5. ASSUME NEW k \in 1 .. n  PROVE u[k] = z[k]
    <3>1. CASE k = n  BY <1>1, <1>4, <1>10, <2>3, <3>1
    <3>2. CASE k \in 1 .. n - 1  BY <1>5, <1>10, <2>1, <2>4, <3>2
    <3>3. k = n \/ k \in 1 .. n - 1  BY <1>0
    <3> QED  BY <3>1, <3>2, <3>3
  <2>6. u = z  BY <1>10, <2>3, <2>5, SeqEqual
  <2>7. z = Turned(r, f[q])  BY <2>1, <2>2, <2>6 DEF Turned
  <2>8. r[n] = f[ps[n]]  BY <1>1, <2>1
  <2>9. Changed(r, z, f, ps[n], t, T)
    BY <1>0, <1>2, <1>9, <2>1, <2>7, <2>8 DEF Changed
  <2> QED  BY <1>7, <1>8, <1>13, <2>9
<1> QED  BY <1>12, <1>13

\* Of a list with an open piece: a separator adds no row, the first token of
\* a piece adds one, and the others change the last.
OpenAre(ps, n, m, s, separator, o, T) ==
  /\ ps = Pieces(s, separator) /\ Filled(ps, n, m, T)
  /\ ps[n] \in Seq(T) /\ Types(ps[n]) = o
  /\ ps[n] = << >> <=> o = << >>

LEMMA OpenPieces ==
  ASSUME NEW T, NEW s \in Seq(T), NEW separator, NEW shapes, << >> \notin shapes,
         NEW o, IsOpen(s, separator, shapes, o)
  PROVE  \E ps, n, m : OpenAre(ps, n, m, s, separator, o, T)
<1>1. PICK ps : ps = Pieces(s, separator)  OBVIOUS
<1>2. PICK n : n = Len(ps)  OBVIOUS
<1>3. ps \in Seq(Seq(T)) /\ n \in Nat /\ n >= 1  BY <1>1, <1>2, PiecesTyped
<1>4. Types(ps[n]) = o /\ \A k \in 1 .. n - 1 : Types(ps[k]) \in shapes
  BY <1>1, <1>2 DEF IsOpen
<1>5. ps[n] \in Seq(T)
  <2>1. n \in 1 .. n  BY <1>3
  <2> QED  BY <1>2, <1>3, <2>1, ElementOfSeq
<1>6. Types(<< >>) = << >>  BY DEF Types
<1>7. \A k \in 1 .. n - 1 : ps[k] # << >>  BY <1>4, <1>6
<1>8. ps[n] = << >> <=> o = << >>
  <2>1. PICK q \in Seq(T) : q = ps[n]  BY <1>5
  <2>2. PICK m \in Nat : m = Len(q)  BY LenProperties
  <2>3. o \in Seq(Kinds(T)) /\ Len(o) = m  BY <1>4, <2>1, <2>2, TypesAre
  <2>4. o = << >> => m = 0  BY <2>3, EmptySeq
  <2>5. m = 0 => q = << >>  BY <2>2, EmptySeq
  <2> QED  BY <1>4, <1>6, <2>1, <2>4, <2>5
<1>9. PICK m : m = IF ps[n] = << >> THEN n - 1 ELSE n  OBVIOUS
<1>10. m \in Nat /\ (ps[n] = << >> => m = n - 1) /\ (ps[n] # << >> => m = n)
  BY <1>3, <1>9
<1>11. Filled(ps, n, m, T)  BY <1>2, <1>3, <1>7, <1>10 DEF Filled
<1>12. OpenAre(ps, n, m, s, separator, o, T)  BY <1>1, <1>4, <1>5, <1>8, <1>11 DEF OpenAre
<1> QED  BY <1>12

LEMMA RowsNext ==
  ASSUME NEW T, NEW f, NEW s \in Seq(T), NEW t \in T, NEW separator, NEW shapes,
         << >> \notin shapes, NEW o \in shapes, IsOpen(s, separator, shapes, o),
         t.type = separator
  PROVE  ListRows(f, Append(s, t), separator) = ListRows(f, s, separator)
<1>1. PICK ps, n, m : OpenAre(ps, n, m, s, separator, o, T)  BY OpenPieces
<1>2. ps = Pieces(s, separator) /\ ps[n] # << >>
  <2>1. o # << >>  OBVIOUS
  <2> QED  BY <1>1, <2>1 DEF OpenAre
<1>3. Filled(ps, n, m, T)  BY <1>1 DEF OpenAre
<1>4. Filled(ps, n, n, T)  BY <1>2, <1>3 DEF Filled
<1>5. Pieces(Append(s, t), separator) = Append(ps, << >>)
  <2>1. PICK qs : qs = Pieces(Append(s, t), separator)  OBVIOUS
  <2>2. Grown(ps, qs, t, separator)  BY <1>2, <2>1, PiecesGrow
  <2> QED  BY <2>1, <2>2 DEF Grown
<1>6. RowsFrom(f, Append(ps, << >>)) = RowsFrom(f, ps)  BY <1>4, PieceBegins
<1> QED  BY <1>2, <1>5, <1>6 DEF ListRows

LEMMA RowsStart ==
  ASSUME NEW T, NEW f, NEW s \in Seq(T), NEW t \in T, NEW separator, NEW shapes,
         << >> \notin shapes, IsOpen(s, separator, shapes, << >>), t.type # separator
  PROVE  Started(ListRows(f, s, separator), ListRows(f, Append(s, t), separator), f, t)
<1>0. PICK o : o = << >>  OBVIOUS
<1>1. PICK ps, n, m : OpenAre(ps, n, m, s, separator, o, T)  BY <1>0, OpenPieces
<1>2. PICK qs : qs = Pieces(Append(s, t), separator)  OBVIOUS
<1>3. qs = [ps EXCEPT ![n] = Append(ps[n], t)]
  <2>1. ps = Pieces(s, separator)  BY <1>1 DEF OpenAre
  <2>2. Grown(ps, qs, t, separator)  BY <1>2, <2>1, PiecesGrow
  <2>3. n = Len(ps)  BY <1>1 DEF OpenAre, Filled
  <2> QED  BY <2>2, <2>3 DEF Grown
<1>4. ps[n] = << >> /\ ps = Pieces(s, separator) /\ Filled(ps, n, m, T)
  BY <1>0, <1>1 DEF OpenAre
<1>5. Started(RowsFrom(f, ps), RowsFrom(f, qs), f, t)
  BY <1>3, <1>4, PieceGrows
<1> QED  BY <1>2, <1>4, <1>5 DEF ListRows

LEMMA RowsChange ==
  ASSUME NEW T, NEW f, NEW s \in Seq(T), NEW t \in T, NEW separator, NEW shapes,
         << >> \notin shapes, NEW o, o # << >>, IsOpen(s, separator, shapes, o),
         t.type # separator
  PROVE  \E q \in Seq(T) :
           /\ Types(q) = o
           /\ Changed(ListRows(f, s, separator), ListRows(f, Append(s, t), separator),
                      f, q, t, T)
<1>1. PICK ps, n, m : OpenAre(ps, n, m, s, separator, o, T)  BY OpenPieces
<1>2. PICK qs : qs = Pieces(Append(s, t), separator)  OBVIOUS
<1>3. qs = [ps EXCEPT ![n] = Append(ps[n], t)]
  <2>1. ps = Pieces(s, separator)  BY <1>1 DEF OpenAre
  <2>2. Grown(ps, qs, t, separator)  BY <1>2, <2>1, PiecesGrow
  <2>3. n = Len(ps)  BY <1>1 DEF OpenAre, Filled
  <2> QED  BY <2>2, <2>3 DEF Grown
<1>4. /\ ps[n] # << >> /\ ps = Pieces(s, separator) /\ Filled(ps, n, m, T)
      /\ ps[n] \in Seq(T) /\ Types(ps[n]) = o
  BY <1>1 DEF OpenAre
<1>5. Changed(RowsFrom(f, ps), RowsFrom(f, qs), f, ps[n], t, T)
  BY <1>3, <1>4, PieceGrows
<1>6. Changed(ListRows(f, s, separator), ListRows(f, Append(s, t), separator), f, ps[n], t, T)
  BY <1>2, <1>4, <1>5 DEF ListRows
<1> QED  BY <1>4, <1>6

LEMMA NoRows ==
  ASSUME NEW f, NEW separator
  PROVE  /\ ListRows(f, << >>, separator) = << >>
         /\ RowsFrom(f, << >>) = << >>
<1>1. PICK ps : ps = << << >> >>  OBVIOUS
<1>2. DOMAIN ps = {1} /\ ps[1] = << >>  BY <1>1
<1>3. Begun(ps) = {}  BY <1>2 DEF Begun
<1>4. RowsFrom(f, ps) = << >>  BY <1>3 DEF RowsFrom
<1>5. Begun(<< >>) = {}  BY DEF Begun
<1>6. RowsFrom(f, << >>) = << >>  BY <1>5 DEF RowsFrom
<1> QED  BY <1>1, <1>4, <1>6, PiecesNone DEF ListRows

RowsWithin(p, f, first, n) ==
  IF p # << >> /\ p[1].type = first THEN ListRows(f, After(p, n), "COMMA") ELSE << >>

RowsBegin(r) == IF r = << >> THEN << >> ELSE r[1]

LEMMA OneToken ==
  ASSUME NEW T, NEW t \in T
  PROVE  <<t>> \in Seq(T) /\ Len(<<t>>) = 1 /\ <<t>>[1] = t
OBVIOUS

LEMMA AppendFirst ==
  ASSUME NEW T, NEW p \in Seq(T), NEW t \in T, p # << >>
  PROVE  /\ Append(p, t) \in Seq(T) /\ Append(p, t) # << >> /\ Append(p, t)[1] = p[1]
         /\ Len(Append(p, t)) = Len(p) + 1 /\ Len(p) \in Nat /\ Len(p) >= 1
         /\ \A i \in 1 .. Len(p) : Append(p, t)[i] = p[i]
         /\ Append(p, t)[Len(p) + 1] = t
<1>1. PICK n \in Nat : n = Len(p)  BY LenProperties
<1>2. n >= 1  BY <1>1, EmptySeq
<1>3. PICK q : q = Append(p, t)  OBVIOUS
<1>4. /\ q \in Seq(T) /\ Len(q) = n + 1 /\ q[n + 1] = t
      /\ \A i \in 1 .. n : q[i] = p[i]
  BY <1>1, <1>3, AppendProperties
<1>5. q # << >>  BY <1>4
<1>6. q[1] = p[1]  BY <1>2, <1>4
<1> QED  BY <1>1, <1>2, <1>3, <1>4, <1>5, <1>6

\* What a token does to the rows r of a list: z are the rows with it.
Moves(r, z, f, o, separator, shapes, t, T) ==
  /\ o \in shapes /\ t.type = separator => z = r
  /\ o = << >> /\ t.type # separator => Started(r, z, f, t)
  /\ o # << >> /\ t.type # separator =>
       \E q \in Seq(T) : Types(q) = o /\ Changed(r, z, f, q, t, T)

LEMMA RowsMove ==
  ASSUME NEW T, NEW s \in Seq(T), NEW t \in T, NEW separator, NEW shapes,
         << >> \notin shapes, NEW o, IsOpen(s, separator, shapes, o), NEW f
  PROVE  Moves(ListRows(f, s, separator), ListRows(f, Append(s, t), separator),
               f, o, separator, shapes, t, T)
<1>1. PICK r, z : r = ListRows(f, s, separator) /\ z = ListRows(f, Append(s, t), separator)
  OBVIOUS
<1>2. o \in shapes /\ t.type = separator => z = r  BY <1>1, RowsNext
<1>3. o = << >> /\ t.type # separator => Started(r, z, f, t)  BY <1>1, RowsStart
<1>4. o # << >> /\ t.type # separator =>
        \E q \in Seq(T) : Types(q) = o /\ Changed(r, z, f, q, t, T)
  BY <1>1, RowsChange
<1> QED  BY <1>1, <1>2, <1>3, <1>4 DEF Moves

LEMMA TurnedSame ==
  ASSUME NEW X, NEW r \in Seq(X), Len(r) >= 1
  PROVE  Turned(r, r[Len(r)]) = r
<1>1. PICK n \in Nat : n = Len(r)  BY LenProperties
<1>2. PICK u : u = [r EXCEPT ![n] = r[n]]  OBVIOUS
<1>3. u = r  BY <1>1, <1>2
<1> QED  BY <1>1, <1>2, <1>3 DEF Turned

\* u is q with the token t behind its n tokens.
Longer(q, u, t, n) ==
  /\ u = Append(q, t) /\ Len(q) = n /\ Len(u) = n + 1 /\ u[n + 1] = t
  /\ \A i \in 1 .. n : u[i] = q[i]

LEMMA LongerIs ==
  ASSUME NEW T, NEW q \in Seq(T), NEW t \in T, NEW o, NEW n \in Nat, Len(o) = n,
         Types(q) = o
  PROVE  \E u \in Seq(T) : Longer(q, u, t, n)
<1>1. PICK u : u = Append(q, t)  OBVIOUS
<1>2. Len(q) = n  BY TypesAre
<1>3. /\ u \in Seq(T) /\ Len(u) = n + 1 /\ u[n + 1] = t
      /\ \A i \in 1 .. n : u[i] = q[i]
  BY <1>1, <1>2, AppendProperties
<1>4. Longer(q, u, t, n)  BY <1>1, <1>2, <1>3 DEF Longer
<1> QED  BY <1>3, <1>4

LEMMA TurnedTwice ==
  ASSUME NEW X, NEW r \in Seq(X), Len(r) >= 1, NEW a, NEW b
  PROVE  /\ Turned(r, a)[Len(Turned(r, a))] = a
         /\ Turned(Turned(r, a), b) = Turned(r, b)
<1>1. PICK n \in Nat : n = Len(r) /\ n >= 1  BY LenProperties
<1>2. DOMAIN r = 1 .. n  BY <1>1, LenProperties
<1>3. PICK y : y = Turned(r, a)  OBVIOUS
<1>4. DOMAIN y = 1 .. n /\ y = [r EXCEPT ![n] = a]  BY <1>1, <1>2, <1>3 DEF Turned
<1>5. Len(y) = n
  <2>1. PICK Y : Y = X \cup {a}  OBVIOUS
  <2>2. r \in Seq(Y) /\ a \in Y  BY <2>1
  <2>3. y \in Seq(Y)  BY <1>1, <1>4, <2>2, ExceptSeq
  <2> QED  BY <1>1, <1>4, <2>3, LenProperties
<1>6. y[n] = a  BY <1>1, <1>2, <1>4
<1>7. Turned(y, b) = [y EXCEPT ![n] = b]  BY <1>5 DEF Turned
<1>8. Turned(r, b) = [r EXCEPT ![n] = b]  BY <1>1 DEF Turned
<1>9. [y EXCEPT ![n] = b] = [r EXCEPT ![n] = b]  BY <1>1, <1>2, <1>4
<1> QED  BY <1>3, <1>5, <1>6, <1>7, <1>8, <1>9

\* The last row of r says a piece that has as many tokens as o, and the first
\* of its type.
LastSays(r, z, f, q, o, t, T) ==
  /\ q \in Seq(T) /\ Len(q) = Len(o) /\ q[1].type = o[1]
  /\ z = Turned(r, f[Append(q, t)]) /\ r[Len(r)] = f[q]
  /\ r \in Seq(Sayings(f, T)) /\ Len(r) >= 1

LEMMA MovesLast ==
  ASSUME NEW T, NEW t \in T, NEW r, NEW z, NEW f, NEW o, NEW separator, NEW shapes,
         Moves(r, z, f, o, separator, shapes, t, T), o # << >>, Len(o) >= 1,
         t.type # separator
  PROVE  \E q : LastSays(r, z, f, q, o, t, T)
<1>1. PICK q \in Seq(T) : Types(q) = o /\ Changed(r, z, f, q, t, T)  BY DEF Moves
<1>2. Begins(q, o) /\ Len(q) = Len(o) /\ Len(o) \in Nat  BY <1>1, BeginsTypes
<1>3. q[1].type = o[1]  BY <1>2 DEF Begins
<1> QED  BY <1>1, <1>2, <1>3 DEF Changed, LastSays

LEMMA NotEmpty == \A o : Len(o) >= 1 => o # << >>
<1>1. Len(<< >>) = 0  OBVIOUS
<1> QED  BY <1>1

LEMMA AppendSecond ==
  ASSUME NEW T, NEW p \in Seq(T), NEW t \in T, Len(p) = 1
  PROVE  /\ Append(p, t) \in Seq(T) /\ Len(Append(p, t)) = 2
         /\ Append(p, t)[1] = p[1] /\ Append(p, t)[2] = t
<1>1. p # << >>
  <2>1. Len(p) >= 1  OBVIOUS
  <2> QED  BY <2>1, NotEmpty
<1>2. PICK w : w = Append(p, t)  OBVIOUS
<1>3. PICK n : n = Len(p)  OBVIOUS
<1>4. w \in Seq(T) /\ Len(w) = n + 1 /\ w[1] = p[1] /\ w[n + 1] = t
  BY <1>1, <1>2, <1>3, AppendFirst, ZenonT(60)
<1>5. Len(w) = 2 /\ w[2] = t  BY <1>3, <1>4
<1> QED  BY <1>2, <1>4, <1>5

\* No rows of a list in brackets that has not begun.
LEMMA NoRowsIn ==
  ASSUME NEW T, NEW p \in Seq(T), NEW n \in Nat, Len(p) <= n, NEW f, NEW first
  PROVE  RowsWithin(p, f, first, n) = << >>
<1>1. After(p, n) = << >>  BY AfterIs, LenProperties
<1> QED  BY <1>1, NoRows DEF RowsWithin

\* What a token does to a list in brackets.
LEMMA BracketsMove ==
  ASSUME NEW T, NEW p \in Seq(T), NEW t \in T, NEW f, NEW first, NEW head, NEW n \in Nat,
         n > 2, n = Len(head), head[1] = first, NEW shapes, << >> \notin shapes, NEW o,
         InBrackets(p, head, shapes, o)
  PROVE  /\ p # << >> /\ p[1].type = first /\ Len(p) # 2
         /\ Moves(RowsWithin(p, f, first, n), RowsWithin(Append(p, t), f, first, n), f, o, "COMMA",
                  shapes, t, T)
<1>1. Len(p) >= n /\ p[1].type = first /\ IsOpen(After(p, n), "COMMA", shapes, o)
  BY DEF InBrackets, Begins
<1>2. p # << >> /\ Len(p) # 2 /\ n <= Len(p)
  <2>1. PICK m \in Nat : m = Len(p)  BY LenProperties
  <2>2. m >= 1 /\ m # 2 /\ n <= m  BY <1>1, <2>1
  <2> QED  BY <2>1, <2>2, NotEmpty
<1>3. PICK s \in Seq(T) : s = After(p, n)  BY AfterIs
<1>4. PICK w : w = Append(p, t)  OBVIOUS
<1>5. After(w, n) = Append(s, t)  BY <1>2, <1>3, <1>4, AfterGrows
<1>6. w # << >> /\ w[1] = p[1]  BY <1>2, <1>4, AppendFirst
<1>7. Moves(ListRows(f, s, "COMMA"), ListRows(f, Append(s, t), "COMMA"), f, o, "COMMA",
            shapes, t, T)
  BY <1>1, <1>3, RowsMove
<1>8. RowsWithin(p, f, first, n) = ListRows(f, s, "COMMA")  BY <1>1, <1>2, <1>3 DEF RowsWithin
<1>9. RowsWithin(w, f, first, n) = ListRows(f, Append(s, t), "COMMA")
  BY <1>1, <1>5, <1>6 DEF RowsWithin
<1> QED  BY <1>1, <1>2, <1>4, <1>7, <1>8, <1>9

\* The rows are what the whole pieces say.
Entire(r, ps, f, shapes, T) ==
  /\ r = [k \in DOMAIN ps |-> f[ps[k]]]
  /\ \A k \in DOMAIN ps : ps[k] \in Seq(T) /\ Types(ps[k]) \in shapes

LEMMA RowsDone ==
  ASSUME NEW T, NEW f, NEW s \in Seq(T), NEW separator, NEW shapes,
         << >> \notin shapes, IsList(s, separator, shapes),
         NEW ps, ps = Pieces(s, separator)
  PROVE  Entire(ListRows(f, s, separator), ps, f, shapes, T)
<1>1. ps \in Seq(Seq(T))  BY PiecesTyped
<1>2. \A k \in DOMAIN ps : ps[k] \in Seq(T)  BY <1>1
<1>3. \A k \in DOMAIN ps : Types(ps[k]) \in shapes  BY DEF IsList, ToSet
<1>4. Types(<< >>) = << >>  BY DEF Types
<1>5. Begun(ps) = DOMAIN ps  BY <1>3, <1>4 DEF Begun
<1>6. ListRows(f, s, separator) = [k \in DOMAIN ps |-> f[ps[k]]]
  BY <1>5 DEF ListRows, RowsFrom
<1> QED  BY <1>2, <1>3, <1>6 DEF Entire

\* q has n tokens, of the types in o.
Shaped(q, o, n) == Len(q) = n /\ \A i \in 1 .. n : q[i].type = o[i]

LEMMA ShapedIs ==
  ASSUME NEW T, NEW q \in Seq(T), NEW o, Types(q) = o, NEW n \in Nat, Len(o) = n
  PROVE  Shaped(q, o, n)
BY TypesAre DEF Shaped

LEMMA LastToken ==
  ASSUME NEW q, NEW n, Len(q) = n
  PROVE  Last(q) = q[n]
BY DEF Last

LEMMA LastAppended ==
  ASSUME NEW T, NEW p \in Seq(T), NEW n \in Nat, Len(p) > n
  PROVE  \E u \in Seq(T), t \in T : p = Append(u, t) /\ n <= Len(u) /\ t = Last(p)
<1>1. PICK m \in Nat : m = Len(p)  BY LenProperties
<1>2. PICK k \in Nat : k = m - 1 /\ k >= n /\ m = k + 1  BY <1>1
<1>3. PICK u : u = SubSeq(p, 1, k)  OBVIOUS
<1>4. \A i \in 1 .. m : p[i] \in T  BY <1>1, ElementOfSeq
<1>5. u \in Seq(T) /\ Len(u) = k /\ \A i \in 1 .. k : u[i] = p[i]
  <2>1. \A i \in 1 .. k : p[i] \in T  BY <1>2, <1>4
  <2>2. PICK a \in Int, b \in Int : a = 1 /\ b = k  BY <1>2
  <2>3. \A i \in a .. b : p[i] \in T  BY <2>1, <2>2
  <2>4. /\ SubSeq(p, a, b) \in Seq(T)
        /\ Len(SubSeq(p, a, b)) = IF a <= b THEN b - a + 1 ELSE 0
        /\ \A i \in 1 .. b - a + 1 : SubSeq(p, a, b)[i] = p[a + i - 1]
    BY <2>3, SubSeqProperties
  <2>5. (IF a <= b THEN b - a + 1 ELSE 0) = k /\ b - a + 1 = k  BY <1>2, <2>2
  <2>6. ASSUME NEW i \in 1 .. k  PROVE u[i] = p[i]
    <3>1. a + i - 1 = i  BY <2>2
    <3> QED  BY <1>3, <2>2, <2>4, <2>5, <3>1
  <2> QED  BY <1>3, <2>2, <2>4, <2>5, <2>6
<1>6. PICK t \in T : t = p[m]
  <2>1. m \in 1 .. m  BY <1>2
  <2> QED  BY <1>4, <2>1
<1>7. Append(u, t) = p
  <2>1. Len(p) = k + 1 /\ p[k + 1] = t /\ \A i \in 1 .. k : p[i] = u[i]
    BY <1>1, <1>2, <1>5, <1>6
  <2> QED  BY <1>5, <2>1, AppendEq
<1>8. t = Last(p)  BY <1>1, <1>6, LastToken
<1> QED  BY <1>2, <1>5, <1>7, <1>8

LEMMA ListIsOpen ==
  ASSUME NEW T, NEW s \in Seq(T), NEW separator, NEW shapes,
         IsList(s, separator, shapes)
  PROVE  \E o \in shapes : IsOpen(s, separator, shapes, o)
<1>1. PICK ps : ps = Pieces(s, separator)  OBVIOUS
<1>2. PICK n \in Nat : n = Len(ps) /\ DOMAIN ps = 1 .. n /\ n >= 1
  <2>1. ps \in Seq(Seq(T)) /\ Len(ps) >= 1  BY <1>1, PiecesTyped
  <2> QED  BY <2>1, LenProperties
<1>3. \A k \in 1 .. n : Types(ps[k]) \in shapes  BY <1>1, <1>2 DEF IsList, ToSet
<1>4. n \in 1 .. n /\ \A k \in 1 .. n - 1 : k \in 1 .. n  BY <1>2
<1>5. PICK o \in shapes : o = Types(ps[n])  BY <1>3, <1>4
<1> QED  BY <1>1, <1>2, <1>3, <1>4, <1>5 DEF IsOpen

\* The bracket that closes a list changes nothing of what its last piece says.
LEMMA ClosedRows ==
  ASSUME NEW T, NEW p \in Seq(T), NEW n \in Nat, Len(p) > n, NEW f, NEW shapes,
         << >> \notin shapes, Last(p).type # "COMMA",
         IsList(Inside(p, n), "COMMA", shapes),
         \A q \in Seq(T), t \in T : Types(q) \in shapes => f[Append(q, t)] = f[q],
         NEW ps, ps = Pieces(Inside(p, n), "COMMA")
  PROVE  Entire(ListRows(f, After(p, n), "COMMA"), ps, f, shapes, T)
<1>1. PICK u \in Seq(T), t \in T : p = Append(u, t) /\ n <= Len(u) /\ t = Last(p)
  BY LastAppended
<1>2. PICK s \in Seq(T) : s = After(u, n)  BY AfterIs
<1>3. Inside(p, n) = s  BY <1>1, <1>2, InsideAppend
<1>4. After(p, n) = Append(s, t)  BY <1>1, <1>2, AfterGrows
<1>5. PICK o \in shapes : IsOpen(s, "COMMA", shapes, o)  BY <1>3, ListIsOpen
<1>6. o # << >> /\ t.type # "COMMA"  BY <1>1
<1>7. PICK q \in Seq(T) :
        /\ Types(q) = o
        /\ Changed(ListRows(f, s, "COMMA"), ListRows(f, Append(s, t), "COMMA"), f, q, t, T)
  BY <1>5, <1>6, RowsChange
<1>8. PICK r : r = ListRows(f, s, "COMMA")  OBVIOUS
<1>9. PICK z : z = ListRows(f, Append(s, t), "COMMA")  OBVIOUS
<1>10. /\ z = Turned(r, f[Append(q, t)]) /\ r \in Seq(Sayings(f, T)) /\ Len(r) >= 1
       /\ r[Len(r)] = f[q]
  BY <1>7, <1>8, <1>9 DEF Changed
<1>11. f[Append(q, t)] = f[q]  BY <1>7
<1>12. z = r  BY <1>10, <1>11, TurnedSame
<1>13. Entire(r, ps, f, shapes, T)  BY <1>3, <1>8, RowsDone
<1> QED  BY <1>4, <1>9, <1>12, <1>13
=============================================================================
