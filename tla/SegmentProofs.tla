--------------------------- MODULE SegmentProofs ---------------------------
(***************************************************************************)
(* What Segment promises of a whole file and of a cut one, for bytes of    *)
(* any size, numbers of any width and every table.                         *)
(***************************************************************************)
EXTENDS Segment, DataLemmas

----------------------------------------------------------------------------
(* Numbers *)

\* rest is what is left of n when a byte after the other has been taken.
Divides(rest, n, width) ==
  rest = [i \in 0 .. width |-> IF i = 0 THEN n ELSE rest[i - 1] \div Base]

LEMMA Divided ==
  ASSUME NEW n \in Nat
  PROVE  n \div Base \in Nat
  BY SizesAssumption

LEMMA Remains ==
  ASSUME NEW n \in Nat
  PROVE  n % Base \in Bytes
  BY SizesAssumption DEF Bytes

LEMMA RestsAgree ==
  ASSUME NEW n \in Nat, NEW width \in Nat, NEW f, Divides(f, n, width)
  PROVE  \A i \in 0 .. width : f[i] \in Nat
<1> DEFINE S == {i \in Nat : i <= width => f[i] \in Nat}
<1>1. 0 \in S  BY DEF Divides
<1>2. ASSUME NEW i \in Nat, i \in S  PROVE i + 1 \in S
  <2> SUFFICES ASSUME i + 1 <= width  PROVE f[i + 1] \in Nat
    OBVIOUS
  <2>1. i + 1 \in 0 .. width /\ i + 1 # 0 /\ (i + 1) - 1 = i /\ i <= width
    OBVIOUS
  <2>2. f[i + 1] = f[i] \div Base  BY <2>1 DEF Divides
  <2> QED  BY <1>2, <2>1, <2>2, Divided
<1>3. \A i \in Nat : i \in S
  <2> HIDE DEF S
  <2> QED  BY <1>1, <1>2, Induction
<1> QED  BY <1>3

LEMMA RestsExist ==
  ASSUME NEW n \in Nat, NEW width \in Nat
  PROVE  \E f : Divides(f, n, width)
<1> DEFINE S == {m \in Nat : \E f : Divides(f, n, m)}
<1>1. 0 \in S
  <2>1. PICK f : f = [i \in 0 .. 0 |-> n]  OBVIOUS
  <2>2. Divides(f, n, 0)  BY <2>1 DEF Divides
  <2> QED  BY <2>2
<1>2. ASSUME NEW m \in Nat, m \in S  PROVE m + 1 \in S
  <2>1. PICK f : Divides(f, n, m)  BY <1>2
  <2>2. PICK g : g = [i \in 0 .. m + 1 |-> IF i = m + 1 THEN f[m] \div Base ELSE f[i]]
    OBVIOUS
  <2>3. ASSUME NEW i \in 0 .. m + 1
        PROVE  g[i] = IF i = 0 THEN n ELSE g[i - 1] \div Base
    <3>1. CASE i = m + 1
      <4>1. i # 0 /\ i - 1 \in 0 .. m + 1 /\ i - 1 = m /\ m # m + 1  BY <3>1
      <4> QED  BY <2>2, <3>1, <4>1
    <3>2. CASE i # m + 1
      <4>1. i \in 0 .. m /\ (i # 0 => i - 1 \in 0 .. m + 1 /\ i - 1 # m + 1)  BY <3>2
      <4>2. g[i] = f[i] /\ (i # 0 => g[i - 1] = f[i - 1])  BY <2>2, <3>2, <4>1
      <4> QED  BY <2>1, <4>1, <4>2 DEF Divides
    <3> QED  BY <3>1, <3>2
  <2>4. Divides(g, n, m + 1)  BY <2>2, <2>3 DEF Divides
  <2> QED  BY <2>4
<1>3. \A m \in Nat : m \in S
  <2> HIDE DEF S
  <2> QED  BY <1>1, <1>2, Induction
<1> QED  BY <1>3

\* Put makes bytes of every number.
LEMMA PutIs ==
  ASSUME NEW n \in Nat, NEW width \in Nat
  PROVE  /\ Put(n, width) \in [1 .. width -> Bytes]
         /\ \E f : /\ Divides(f, n, width) /\ f = Rests(n, width)
                   /\ Put(n, width) = [i \in 1 .. width |-> f[i - 1] % Base]
<1>1. PICK f : f = CHOOSE g : Divides(g, n, width)  OBVIOUS
<1>2. Divides(f, n, width)  BY <1>1, RestsExist
<1>3. f = Rests(n, width)  BY <1>1 DEF Rests, Divides
<1>4. Put(n, width) = [i \in 1 .. width |-> f[i - 1] % Base]  BY <1>3 DEF Put
<1>5. \A i \in 1 .. width : f[i - 1] \in Nat
  <2>1. \A i \in 1 .. width : i - 1 \in 0 .. width  OBVIOUS
  <2> QED  BY <1>2, <2>1, RestsAgree
<1>6. \A i \in 1 .. width : f[i - 1] % Base \in Bytes  BY <1>5, Remains
<1> QED  BY <1>2, <1>3, <1>4, <1>6

\* g has, of every set of places, the number in the bytes at these places.
Sums(g, bytes) ==
  g = [s \in SUBSET DOMAIN bytes |->
         IF s = {} THEN 0 ELSE bytes[Min(s)] + Base * g[s \ {Min(s)}]]

LEMMA LowestOf ==
  ASSUME NEW i \in Nat, NEW n \in Nat, i <= n
  PROVE  Min(i .. n) = i
<1>1. PICK s : s = i .. n  OBVIOUS
<1>2. i \in s /\ \A x \in s : x \in Nat /\ i <= x  BY <1>1
<1>3. s \subseteq Int /\ s # {} /\ i \in Int /\ \A x \in s : i <= x  BY <1>2
<1>4. PICK m : m = Min(s)  OBVIOUS
<1>5. m \in s /\ \A x \in s : m <= x  BY <1>3, <1>4, MinIs
<1>6. m <= i /\ i <= m /\ m \in Nat  BY <1>2, <1>5
<1>7. m = i  BY <1>6
<1> QED  BY <1>1, <1>4, <1>7

LEMMA Lowest ==
  ASSUME NEW s, s \subseteq Nat, s # {}
  PROVE  Min(s) \in s
<1>1. 0 \in Int /\ s \subseteq Int /\ \A x \in s : 0 <= x  OBVIOUS
<1> QED  BY <1>1, MinIs

\* The zeros that a failed read leaves are the number 0.
LEMMA NoNumber ==
  ASSUME NEW n \in Nat
  PROVE  Num([i \in 1 .. n |-> 0]) = 0
<1>1. PICK bytes : bytes = [i \in 1 .. n |-> 0]  OBVIOUS
<1>2. DOMAIN bytes = 1 .. n /\ \A i \in 1 .. n : bytes[i] = 0  BY <1>1
<1>3. PICK g : g = CHOOSE h : Sums(h, bytes)  OBVIOUS
<1>4. Sums(g, bytes)
  <2>1. PICK h : h = [s \in SUBSET DOMAIN bytes |-> 0]  OBVIOUS
  <2>2. ASSUME NEW s \in SUBSET DOMAIN bytes
        PROVE  h[s] = IF s = {} THEN 0 ELSE bytes[Min(s)] + Base * h[s \ {Min(s)}]
    <3>1. CASE s = {}  BY <2>1, <3>1
    <3>2. CASE s # {}
      <4>1. Min(s) \in s
        <5>1. s \subseteq Nat  BY <1>2
        <5> QED  BY <3>2, <5>1, Lowest
      <4>2. bytes[Min(s)] = 0 /\ h[s \ {Min(s)}] = 0 /\ h[s] = 0
        BY <1>2, <2>1, <4>1
      <4>3. 0 + Base * 0 = 0  BY SizesAssumption
      <4> QED  BY <3>2, <4>2, <4>3
    <3> QED  BY <3>1, <3>2
  <2>3. Sums(h, bytes)  BY <2>1, <2>2 DEF Sums
  <2> QED  BY <1>3, <2>3
<1>5. Num(bytes) = g[DOMAIN bytes]
  BY <1>3 DEF Num, FoldRight, MapThenFoldSet, Sums
<1>6. IsFiniteSet(1 .. n)  BY FS_Interval
<1> DEFINE S == {k \in Nat : \A s \in SUBSET (1 .. n) : Cardinality(s) = k => g[s] = 0}
<1>7. 0 \in S
  <2>1. ASSUME NEW s \in SUBSET (1 .. n), Cardinality(s) = 0  PROVE g[s] = 0
    <3>1. s = {}  BY <1>6, <2>1, FS_Subset, FS_EmptySet
    <3> QED  BY <1>2, <1>4, <3>1 DEF Sums
  <2> QED  BY <2>1
<1>8. ASSUME NEW k \in Nat, k \in S  PROVE k + 1 \in S
  <2>1. ASSUME NEW s \in SUBSET (1 .. n), Cardinality(s) = k + 1  PROVE g[s] = 0
    <3>1. IsFiniteSet(s)  BY <1>6, FS_Subset
    <3>2. s # {}
      <4>1. k + 1 # 0  OBVIOUS
      <4> QED  BY <2>1, <4>1, FS_EmptySet
    <3>3. Min(s) \in s
      <4>1. s \subseteq Nat  OBVIOUS
      <4> QED  BY <3>2, <4>1, Lowest
    <3>4. Cardinality(s \ {Min(s)}) = k
      <4>1. Cardinality(s \ {Min(s)}) = Cardinality(s) - 1
        BY <3>1, <3>3, FS_RemoveElement
      <4> QED  BY <2>1, <4>1
    <3>5. g[s \ {Min(s)}] = 0  BY <1>8, <3>4
    <3>6. g[s] = bytes[Min(s)] + Base * g[s \ {Min(s)}]
      BY <1>2, <1>4, <3>2 DEF Sums
    <3>7. bytes[Min(s)] = 0  BY <1>2, <3>3
    <3>8. 0 + Base * 0 = 0  BY SizesAssumption
    <3> QED  BY <3>5, <3>6, <3>7, <3>8
  <2> QED  BY <2>1
<1>9. \A k \in Nat : k \in S
  <2> HIDE DEF S
  <2> QED  BY <1>7, <1>8, Induction
<1>10. Cardinality(1 .. n) \in Nat  BY <1>6, FS_CardinalityType
<1>11. g[1 .. n] = 0  BY <1>9, <1>10
<1> QED  BY <1>1, <1>2, <1>5, <1>11

LEMMA NumIs ==
  ASSUME NEW n \in Nat, NEW bytes \in [1 .. n -> Int]
  PROVE  \E g \in [SUBSET (1 .. n) -> Int] : Sums(g, bytes) /\ Num(bytes) = g[1 .. n]
<1>1. PICK D : D = 1 .. n  OBVIOUS
<1>2. IsFiniteSet(D) /\ D \subseteq Nat /\ DOMAIN bytes = D
  BY <1>1, FS_Interval
<1>3. PICK pick : pick = [s \in SUBSET D |-> Min(s)]  OBVIOUS
<1>4. \A s \in SUBSET D : s # {} => pick[s] \in s
  <2> SUFFICES ASSUME NEW s \in SUBSET D, s # {}  PROVE pick[s] \in s
    OBVIOUS
  <2>1. s \subseteq Nat  BY <1>2
  <2> QED  BY <1>3, <2>1, Lowest
<1>5. PICK W : W = Int  OBVIOUS
<1>6. PICK step : step = [p \in D \X W |-> bytes[p[1]] + Base * p[2]]  OBVIOUS
<1>7. step \in [D \X W -> W]
  <2>1. ASSUME NEW p \in D \X W  PROVE bytes[p[1]] + Base * p[2] \in W
    <3>1. bytes[p[1]] \in Int /\ p[2] \in Int  BY <1>1, <1>5
    <3> QED  BY <1>5, <3>1, SizesAssumption
  <2> QED  BY <1>6, <2>1
<1>8. 0 \in W  BY <1>5
<1>9. PICK h \in [SUBSET D -> W] : Folded(h, D, pick, step, 0)
  BY <1>2, <1>4, <1>7, <1>8, FoldedExist
<1>10. Sums(h, bytes)
  <2>1. \A s \in SUBSET D :
          h[s] = IF s = {} THEN 0 ELSE step[<<pick[s], h[s \ {pick[s]}]>>]
    <3>1. h = [s \in SUBSET D |-> IF s = {} THEN 0
                                  ELSE step[<<pick[s], h[s \ {pick[s]}]>>]]
      BY <1>9 DEF Folded
    <3> QED  BY <3>1
  <2>2. ASSUME NEW s \in SUBSET D, s # {}
        PROVE  step[<<pick[s], h[s \ {pick[s]}]>>] = bytes[Min(s)] + Base * h[s \ {Min(s)}]
    <3>1. pick[s] = Min(s) /\ pick[s] \in D /\ h[s \ {pick[s]}] \in W  BY <1>3, <1>4, <2>2
    <3>2. PICK x, v : x = pick[s] /\ v = h[s \ {pick[s]}]  OBVIOUS
    <3>3. <<x, v>> \in D \X W  BY <3>1, <3>2
    <3>4. step[<<x, v>>] = bytes[x] + Base * v  BY <1>6, <3>3
    <3> QED  BY <3>1, <3>2, <3>4
  <2>3. \A s \in SUBSET D : h[s] = IF s = {} THEN 0 ELSE bytes[Min(s)] + Base * h[s \ {Min(s)}]
    BY <2>1, <2>2
  <2>4. h = [s \in SUBSET D |-> h[s]]  OBVIOUS
  <2> QED  BY <1>2, <2>3, <2>4 DEF Sums
<1>11. PICK g : g = CHOOSE f : Sums(f, bytes)  OBVIOUS
<1>12. Sums(g, bytes)  BY <1>10, <1>11
<1>13. Num(bytes) = g[D]
  BY <1>2, <1>11 DEF Num, FoldRight, MapThenFoldSet, Sums
<1>14. \A s \in SUBSET D : g[s] = h[s]
  <2> DEFINE Good == {s \in SUBSET D : g[s] = h[s]}
  <2>2. ASSUME NEW s \in SUBSET D, \A q \in SUBSET s : q # s => q \in Good
        PROVE  s \in Good
    <3>1. /\ g[s] = IF s = {} THEN 0 ELSE bytes[Min(s)] + Base * g[s \ {Min(s)}]
          /\ h[s] = IF s = {} THEN 0 ELSE bytes[Min(s)] + Base * h[s \ {Min(s)}]
      BY <1>2, <1>10, <1>12 DEF Sums
    <3>2. s # {} => s \ {Min(s)} \in Good
      <4> SUFFICES ASSUME s # {}  PROVE s \ {Min(s)} \in Good
        OBVIOUS
      <4>1. s \subseteq Nat  BY <1>2
      <4>2. Min(s) \in s  BY <4>1, Lowest
      <4> QED  BY <2>2, <4>2
    <3> QED  BY <3>1, <3>2
  <2> HIDE DEF Good
  <2>3. IsFiniteSet(D)  BY <1>2
  <2>4. \A s \in SUBSET D : s \in Good  BY <2>2, <2>3, SetInduction
  <2> QED  BY <2>4 DEF Good
<1>15. g \in [SUBSET D -> Int]
  <2>1. g = [s \in SUBSET D |-> g[s]]  BY <1>2, <1>12 DEF Sums
  <2>2. \A s \in SUBSET D : g[s] \in Int  BY <1>5, <1>14
  <2> QED  BY <2>1, <2>2
<1> QED  BY <1>1, <1>12, <1>13, <1>15

\* The number in the bytes of places from i on.
LEMMA NumFrom ==
  ASSUME NEW n \in Nat, NEW bytes \in [1 .. n -> Int],
         NEW g \in [SUBSET (1 .. n) -> Int], Sums(g, bytes), NEW i \in 1 .. n
  PROVE  g[i .. n] = bytes[i] + Base * g[i + 1 .. n]
<1>1. PICK s : s = i .. n  OBVIOUS
<1>2. i \in s /\ i \in Nat /\ i <= n  BY <1>1
<1>3. Min(s) = i  BY <1>1, <1>2, LowestOf
<1>5. s \ {i} = i + 1 .. n  BY <1>1
<1>6. g[s] = bytes[Min(s)] + Base * g[s \ {Min(s)}]
  <2>1. s \in SUBSET (1 .. n) /\ DOMAIN bytes = 1 .. n  BY <1>1
  <2> QED  BY <1>2, <2>1 DEF Sums
<1> QED  BY <1>1, <1>3, <1>5, <1>6

LEMMA NumOfOne ==
  ASSUME NEW b \in Bytes
  PROVE  Num(<<b>>) = b
<1>1. PICK bytes : bytes = <<b>>  OBVIOUS
<1>2. b \in Int  BY SizesAssumption DEF Bytes
<1>3. bytes \in [1 .. 1 -> Int] /\ bytes[1] = b  BY <1>1, <1>2
<1>4. PICK g \in [SUBSET (1 .. 1) -> Int] : Sums(g, bytes) /\ Num(bytes) = g[1 .. 1]
  BY <1>3, NumIs
<1>5. DOMAIN bytes = 1 .. 1  BY <1>3
<1>6. PICK s : s = 1 .. 1  OBVIOUS
<1>7. Min(s) = 1 /\ s \ {1} = {} /\ s # {}
  <2>1. PICK i : i = 1  OBVIOUS
  <2>2. i \in Nat /\ i <= i  BY <2>1
  <2>3. Min(i .. i) = i  BY <2>2, LowestOf
  <2> QED  BY <1>6, <2>1, <2>3
<1>8. g[{}] = 0
  <2>1. {} \in SUBSET DOMAIN bytes  OBVIOUS
  <2> QED  BY <1>4, <2>1 DEF Sums
<1>9. g[s] = bytes[Min(s)] + Base * g[s \ {Min(s)}]
  <2>1. s \in SUBSET DOMAIN bytes  BY <1>5, <1>6
  <2> QED  BY <1>4, <1>7, <2>1 DEF Sums
<1>10. b + Base * 0 = b  BY <1>2, SizesAssumption
<1> QED  BY <1>1, <1>3, <1>4, <1>6, <1>7, <1>8, <1>9, <1>10

LEMMA DivMod ==
  ASSUME NEW x \in Nat
  PROVE  (x % Base) + Base * (x \div Base) = x
<1>1. Base \in Nat /\ Base > 0  BY SizesAssumption
<1> QED  BY <1>1

\* A number that fits is read back as it was written.
LEMMA NumPut ==
  ASSUME NEW n \in Nat, NEW width \in Nat, Fits(n, width)
  PROVE  Num(Put(n, width)) = n
<1>1. PICK bytes : bytes = Put(n, width)  OBVIOUS
<1>2. PICK f : /\ Divides(f, n, width) /\ f = Rests(n, width)
               /\ bytes = [i \in 1 .. width |-> f[i - 1] % Base]
  BY <1>1, PutIs
<1>3. \A i \in 0 .. width : f[i] \in Nat  BY <1>2, RestsAgree
<1>4. f[0] = n /\ f[width] = 0 /\ \A i \in 1 .. width : f[i] = f[i - 1] \div Base
  <2>1. 0 \in 0 .. width /\ \A i \in 1 .. width : i \in 0 .. width /\ i # 0  OBVIOUS
  <2> QED  BY <1>2, <2>1 DEF Divides, Fits
<1>5. bytes \in [1 .. width -> Int]
  <2>1. bytes \in [1 .. width -> Bytes]  BY <1>1, PutIs
  <2>2. Bytes \subseteq Int  BY SizesAssumption DEF Bytes
  <2> QED  BY <2>1, <2>2
<1>6. PICK g \in [SUBSET (1 .. width) -> Int] : Sums(g, bytes) /\ Num(bytes) = g[1 .. width]
  BY <1>5, NumIs
<1> DEFINE S == {k \in Nat : k <= width => g[width - k + 1 .. width] = f[width - k]}
<1>7. 0 \in S
  <2>1. width - 0 + 1 .. width = {} /\ width - 0 = width  OBVIOUS
  <2>2. g[{}] = 0
    <3>1. {} \in SUBSET DOMAIN bytes  OBVIOUS
    <3> QED  BY <1>6, <3>1 DEF Sums
  <2> QED  BY <1>4, <2>1, <2>2
<1>8. ASSUME NEW k \in Nat, k \in S  PROVE k + 1 \in S
  <2> SUFFICES ASSUME k + 1 <= width
               PROVE  g[width - (k + 1) + 1 .. width] = f[width - (k + 1)]
    OBVIOUS
  <2>1. PICK i : i = width - k  OBVIOUS
  <2>2. /\ i \in 1 .. width /\ i - 1 \in 0 .. width /\ i = width - (k + 1) + 1
        /\ i - 1 = width - (k + 1)
    BY <2>1
  <2>3. g[i + 1 .. width] = f[i]  BY <1>8, <2>1
  <2>4. g[i .. width] = bytes[i] + Base * g[i + 1 .. width]
    <3>1. i \in 1 .. width  BY <2>2
    <3>2. bytes \in [1 .. width -> Int]  BY <1>5
    <3>3. g \in [SUBSET (1 .. width) -> Int]  BY <1>6
    <3>4. Sums(g, bytes)  BY <1>6
    <3>5. PICK w : w = width  OBVIOUS
    <3>6. g[i .. w] = bytes[i] + Base * g[i + 1 .. w]
      BY <3>1, <3>2, <3>3, <3>4, <3>5, NumFrom
    <3> QED  BY <3>5, <3>6
  <2>5. bytes[i] = f[i - 1] % Base /\ f[i] = f[i - 1] \div Base /\ f[i - 1] \in Nat
    BY <1>2, <1>3, <1>4, <2>2
  <2>6. (f[i - 1] % Base) + Base * (f[i - 1] \div Base) = f[i - 1]  BY <2>5, DivMod
  <2> QED  BY <2>2, <2>3, <2>4, <2>5, <2>6
<1>9. \A k \in Nat : k \in S
  <2> HIDE DEF S
  <2> QED  BY <1>7, <1>8, Induction
<1>10. g[1 .. width] = f[0]
  <2>1. width - width + 1 = 1 /\ width - width = 0  OBVIOUS
  <2> QED  BY <1>9, <2>1
<1> QED  BY <1>1, <1>4, <1>6, <1>10

----------------------------------------------------------------------------
(* What flush writes are bytes *)

LEMMA FunctionIsSeq ==
  ASSUME NEW V, NEW n \in Nat, NEW s \in [1 .. n -> V]
  PROVE  s \in Seq(V) /\ Len(s) = n
  OBVIOUS

LEMMA PutIsSeq ==
  ASSUME NEW n \in Nat, NEW width \in Nat
  PROVE  Put(n, width) \in Seq(Bytes) /\ Len(Put(n, width)) = width
<1>1. Put(n, width) \in [1 .. width -> Bytes]  BY PutIs
<1> QED  BY <1>1, FunctionIsSeq

LEMMA MagicIs == MAGIC \in Seq(Bytes) /\ Len(MAGIC) = Word
<1>1. MAGIC \in [1 .. Word -> Bytes] /\ Word \in Nat
  BY MagicAssumption, SizesAssumption
<1> QED  BY <1>1, FunctionIsSeq

LEMMA Single ==
  ASSUME NEW b \in Bytes
  PROVE  <<b>> \in Seq(Bytes)
  OBVIOUS

LEMMA Joined ==
  ASSUME NEW s \in Seq(Bytes), NEW t \in Seq(Bytes)
  PROVE  s \o t \in Seq(Bytes) /\ Len(s \o t) = Len(s) + Len(t)
  OBVIOUS

LEMMA SomeBytes == {0, 1, 2, 3} \subseteq Bytes
  BY SizesAssumption DEF Bytes

LEMMA ValueIs ==
  ASSUME NEW type \in 0 .. 3, NEW v \in ValueOf(type)
  PROVE  write_value(type, v) \in Seq(Bytes)
<1>1. CASE type = STRING_
  <2>0. type # BOOLEAN_  BY <1>1 DEF STRING_, BOOLEAN_
  <2>1. v \in Seq(Bytes)  BY <1>1, <2>0 DEF ValueOf
  <2>2. Put(Len(v), Word) \in Seq(Bytes)
    <3>1. Len(v) \in Nat /\ Word \in Nat  BY <2>1, SizesAssumption
    <3> QED  BY <3>1, PutIsSeq
  <2>3. write_value(type, v) = Put(Len(v), Word) \o v
    BY <1>1, <2>0 DEF write_value
  <2> QED  BY <2>1, <2>2, <2>3, Joined
<1>2. CASE type = BOOLEAN_
  <2>1. type # STRING_  BY <1>2 DEF STRING_, BOOLEAN_
  <2>2. write_value(type, v) = <<IF v THEN 1 ELSE 0>>
    BY <1>2, <2>1 DEF write_value
  <2>3. (IF v THEN 1 ELSE 0) \in Bytes  BY SomeBytes
  <2> QED  BY <2>2, <2>3, Single
<1>3. CASE type # STRING_ /\ type # BOOLEAN_
  <2>1. v \in [1 .. Long -> Bytes]  BY <1>3 DEF ValueOf
  <2>2. write_value(type, v) = v  BY <1>3 DEF write_value
  <2>3. Long \in Nat  BY SizesAssumption
  <2> QED  BY <2>1, <2>2, <2>3, FunctionIsSeq
<1> QED  BY <1>1, <1>2, <1>3

\* the parts of a table
LEMMA TableIs ==
  ASSUME NEW t \in Tables
  PROVE  /\ t.names \in Seq(Seq(Bytes)) /\ t.types \in Seq(0 .. 3)
         /\ Len(t.types) \in Nat /\ Len(t.types) # 0
         /\ DOMAIN t.cols = 1 .. Len(t.types)
         /\ DOMAIN t.names = 1 .. Len(t.types) /\ Len(t.cols) = Len(t.types)
         /\ \A c \in 1 .. Len(t.types) :
              /\ t.types[c] \in 0 .. 3 /\ t.names[c] \in Seq(Bytes)
              /\ t.cols[c] \in Seq(ValueOf(t.types[c]))
<1>1. t.names \in Seq(Seq(Bytes)) /\ t.types \in Seq(0 .. 3) /\ t.types # << >>
  BY TablesAssumption
<1>2. PICK types : types = t.types  OBVIOUS
<1>3. types \in Seq(0 .. 3) /\ types # << >>  BY <1>1, <1>2
<1>4. /\ Len(types) \in Nat /\ Len(types) # 0 /\ DOMAIN types = 1 .. Len(types)
      /\ \A c \in 1 .. Len(types) : types[c] \in 0 .. 3
  BY <1>3
<1>5. DOMAIN t.cols = 1 .. Len(types) /\ DOMAIN t.names = 1 .. Len(types)
  BY <1>2, <1>4, TablesAssumption
<1>6. \A c \in 1 .. Len(types) : t.cols[c] \in Seq(ValueOf(types[c]))
  BY <1>2, <1>5, TablesAssumption
<1>7. \A c \in 1 .. Len(types) : t.names[c] \in Seq(Bytes)  BY <1>1, <1>5
<1>8. Len(t.cols) = Len(types)  BY <1>4, <1>5
<1> QED  BY <1>1, <1>2, <1>4, <1>5, <1>6, <1>7, <1>8

LEMMA ColumnIs ==
  ASSUME NEW t \in Tables, NEW c \in 1 .. Len(t.types)
  PROVE  write_column(t, c) \in Seq(Bytes)
<1>1. PICK col : col = t.cols[c]  OBVIOUS
<1>2. PICK type : type = t.types[c]  OBVIOUS
<1>3. type \in 0 .. 3 /\ col \in Seq(ValueOf(type))  BY <1>1, <1>2, TableIs
<1>4. PICK ss : ss = [r \in DOMAIN col |-> write_value(type, col[r])]  OBVIOUS
<1>5. ss \in Seq(Seq(Bytes))
  <2>1. DOMAIN col = 1 .. Len(col) /\ Len(col) \in Nat
        /\ \A r \in 1 .. Len(col) : col[r] \in ValueOf(type)
    BY <1>3
  <2>2. \A r \in 1 .. Len(col) : write_value(type, col[r]) \in Seq(Bytes)
    BY <1>3, <2>1, ValueIs
  <2>3. ss \in [1 .. Len(col) -> Seq(Bytes)]  BY <1>4, <2>1, <2>2
  <2> QED  BY <2>1, <2>3, FunctionIsSeq
<1>6. write_column(t, c) = FlattenSeq(ss)
  BY <1>1, <1>2, <1>4 DEF write_column
<1> QED  BY <1>5, <1>6, Flattened

LEMMA DataIs ==
  ASSUME NEW t \in Tables, NEW c \in 0 .. Len(t.types)
  PROVE  Data(t, c) \in Seq(Bytes)
<1>1. PICK ss : ss = [d \in 1 .. c |-> write_column(t, d)]  OBVIOUS
<1>2. ss \in Seq(Seq(Bytes))
  <2>1. Len(t.types) \in Nat  BY TableIs
  <2>2. \A d \in 1 .. c : d \in 1 .. Len(t.types)  BY <2>1
  <2>3. ss \in [1 .. c -> Seq(Bytes)]  BY <1>1, <2>2, ColumnIs
  <2>4. c \in Nat  BY <2>1
  <2> QED  BY <2>3, <2>4, FunctionIsSeq
<1> QED  BY <1>1, <1>2, Flattened DEF Data

\* what the footer says of a column
Entry(t, c) ==
  <<name_len(t.names[c])>> \o NameBytes(t.names[c]) \o <<t.types[c]>>
  \o Put(offset(t, c), Long) \o Put(Len(write_column(t, c)), Long)

LEMMA NameIs ==
  ASSUME NEW name \in Seq(Bytes)
  PROVE  /\ name_len(name) \in Bytes /\ name_len(name) <= Len(name)
         /\ NameBytes(name) \in Seq(Bytes) /\ Len(NameBytes(name)) = name_len(name)
<1>1. PICK l : l = Len(name)  OBVIOUS
<1>2. l \in Nat  BY <1>1
<1>3. l % Base \in Bytes  BY <1>2, Remains
<1>4. l % Base <= l /\ l % Base \in Nat  BY <1>2, SizesAssumption
<1>5. PICK k : k = l % Base  OBVIOUS
<1>6. k \in Nat /\ k <= Len(name)  BY <1>1, <1>4, <1>5
<1>7. SubSeq(name, 1, k) \in Seq(Bytes) /\ Len(SubSeq(name, 1, k)) = k
  <2>1. 1 \in 1 .. Len(name) + 1 /\ k \in 0 .. Len(name)  BY <1>6
  <2>2. \A i \in 1 .. k : name[i] \in Bytes  BY <1>6
  <2>3. SubSeq(name, 1, k) = [i \in 1 .. k |-> name[i]]  BY <1>6
  <2>4. SubSeq(name, 1, k) \in [1 .. k -> Bytes]  BY <2>2, <2>3
  <2> QED  BY <1>6, <2>4, FunctionIsSeq
<1> QED  BY <1>1, <1>3, <1>4, <1>5, <1>7 DEF name_len, NameBytes

LEMMA EntryIs ==
  ASSUME NEW t \in Tables, NEW c \in 1 .. Len(t.types)
  PROVE  Entry(t, c) \in Seq(Bytes)
<1>0. Long \in Nat /\ Word \in Nat  BY SizesAssumption
<1>1. t.names[c] \in Seq(Bytes) /\ t.types[c] \in 0 .. 3  BY TableIs
<1>2. /\ <<name_len(t.names[c])>> \in Seq(Bytes)
      /\ NameBytes(t.names[c]) \in Seq(Bytes)
  BY <1>1, NameIs, Single
<1>3. <<t.types[c]>> \in Seq(Bytes)
  <2>1. t.types[c] \in {0, 1, 2, 3}  BY <1>1
  <2> QED  BY <2>1, SomeBytes, Single
<1>4. Put(offset(t, c), Long) \in Seq(Bytes)
  <2>1. c - 1 \in 0 .. Len(t.types)  BY TableIs
  <2>2. Len(Data(t, c - 1)) \in Nat  BY <2>1, DataIs
  <2>3. offset(t, c) \in Nat  BY <1>0, <2>2 DEF offset
  <2> QED  BY <1>0, <2>3, PutIsSeq
<1>5. Put(Len(write_column(t, c)), Long) \in Seq(Bytes)
  <2>1. Len(write_column(t, c)) \in Nat  BY ColumnIs
  <2> QED  BY <1>0, <2>1, PutIsSeq
<1>6. <<name_len(t.names[c])>> \o NameBytes(t.names[c]) \in Seq(Bytes)
  BY <1>2, Joined
<1>7. <<name_len(t.names[c])>> \o NameBytes(t.names[c]) \o <<t.types[c]>> \in Seq(Bytes)
  BY <1>3, <1>6, Joined
<1>8. <<name_len(t.names[c])>> \o NameBytes(t.names[c]) \o <<t.types[c]>>
      \o Put(offset(t, c), Long) \in Seq(Bytes)
  BY <1>4, <1>7, Joined
<1> QED  BY <1>5, <1>8, Joined DEF Entry

LEMMA FooterIs ==
  ASSUME NEW t \in Tables
  PROVE  Footer(t) \in Seq(Bytes)
<1>0. Long \in Nat /\ Word \in Nat /\ Len(t.types) \in Nat
  BY SizesAssumption, TableIs
<1>1. PICK ss : ss = [c \in DOMAIN t.cols |-> Entry(t, c)]  OBVIOUS
<1>2. ss \in Seq(Seq(Bytes))
  <2>1. DOMAIN t.cols = 1 .. Len(t.types)  BY TableIs
  <2>2. ss \in [1 .. Len(t.types) -> Seq(Bytes)]  BY <1>1, <2>1, EntryIs
  <2> QED  BY <1>0, <2>2, FunctionIsSeq
<1>3. FlattenSeq(ss) \in Seq(Bytes)  BY <1>2, Flattened
<1>4. Put(Len(t.cols[1]), Long) \in Seq(Bytes)
  <2>1. 1 \in 1 .. Len(t.types)  BY TableIs
  <2>2. Len(t.cols[1]) \in Nat  BY <2>1, TableIs
  <2> QED  BY <1>0, <2>2, PutIsSeq
<1>5. Put(Len(t.cols), Word) \in Seq(Bytes)
  <2>1. Len(t.cols) \in Nat  BY <1>0, TableIs
  <2> QED  BY <1>0, <2>1, PutIsSeq
<1>6. Put(Len(t.cols[1]), Long) \o Put(Len(t.cols), Word) \in Seq(Bytes)
  BY <1>4, <1>5, Joined
<1>7. Footer(t) = Put(Len(t.cols[1]), Long) \o Put(Len(t.cols), Word) \o FlattenSeq(ss)
  BY <1>1 DEF Footer, Entry
<1> QED  BY <1>3, <1>6, <1>7, Joined

\* A segment begins with MAGIC, and there is more of it.
LEMMA FlushIs ==
  ASSUME NEW t \in Tables
  PROVE  /\ flush(t) \in Seq(Bytes)
         /\ Len(flush(t)) > Word
         /\ SubSeq(flush(t), 1, Word) = MAGIC
<1>0. Word \in Nat \ {0} /\ Long \in Nat \ {0} /\ Len(t.types) \in Nat
  BY SizesAssumption, TableIs
<1>1. MAGIC \in Seq(Bytes) /\ Len(MAGIC) = Word  BY MagicIs
<1>2. PICK data : data = Data(t, Len(t.cols))  OBVIOUS
<1>3. PICK footer : footer = Footer(t)  OBVIOUS
<1>4. PICK size : size = Put(Len(Footer(t)), Word)  OBVIOUS
<1>5. data \in Seq(Bytes)
  <2>1. Len(t.cols) \in 0 .. Len(t.types)  BY <1>0, TableIs
  <2> QED  BY <1>2, <2>1, DataIs
<1>6. footer \in Seq(Bytes)  BY <1>3, FooterIs
<1>7. size \in Seq(Bytes)
  <2>1. Len(footer) \in Nat  BY <1>6
  <2> QED  BY <1>0, <1>3, <1>4, <2>1, PutIsSeq
<1>8. flush(t) = MAGIC \o data \o footer \o size \o MAGIC
  BY <1>2, <1>3, <1>4 DEF flush
<1>9. PICK s1 : s1 = MAGIC \o data  OBVIOUS
<1>10. PICK s2 : s2 = s1 \o footer  OBVIOUS
<1>11. PICK s3 : s3 = s2 \o size  OBVIOUS
<1>12. s1 \in Seq(Bytes) /\ Len(s1) = Word + Len(data)  BY <1>1, <1>5, <1>9, Joined
<1>13. s2 \in Seq(Bytes) /\ Len(s2) = Len(s1) + Len(footer)
  BY <1>6, <1>10, <1>12, Joined
<1>14. s3 \in Seq(Bytes) /\ Len(s3) = Len(s2) + Len(size)
  BY <1>7, <1>11, <1>13, Joined
<1>15. PICK s4 : s4 = s3 \o MAGIC  OBVIOUS
<1>16. s4 \in Seq(Bytes) /\ Len(s4) = Len(s3) + Word
  BY <1>1, <1>14, <1>15, Joined
<1>17. flush(t) = s4  BY <1>8, <1>9, <1>10, <1>11, <1>15
<1>18. Len(data) \in Nat /\ Len(footer) \in Nat /\ Len(size) \in Nat
  BY <1>5, <1>6, <1>7
<1>19. Len(s4) > Word /\ Word <= Len(s1) /\ Word <= Len(s2) /\ Word <= Len(s3)
  BY <1>0, <1>12, <1>13, <1>14, <1>16, <1>18
<1>20. \A i \in 1 .. Word : s4[i] = MAGIC[i]
  <2> SUFFICES ASSUME NEW i \in 1 .. Word  PROVE s4[i] = MAGIC[i]
    OBVIOUS
  <2>1. s1[i] = MAGIC[i]  BY <1>1, <1>5, <1>9, ConcatProperties
  <2>2. s2[i] = s1[i]
    <3>1. i \in 1 .. Len(s1)  BY <1>0, <1>12, <1>18
    <3> QED  BY <3>1, <1>6, <1>10, <1>12, ConcatProperties
  <2>3. s3[i] = s2[i]
    <3>1. i \in 1 .. Len(s2)  BY <1>0, <1>12, <1>13, <1>18
    <3> QED  BY <3>1, <1>7, <1>11, <1>13, ConcatProperties
  <2>4. s4[i] = s3[i]
    <3>1. i \in 1 .. Len(s3)  BY <1>0, <1>12, <1>13, <1>14, <1>18
    <3> QED  BY <3>1, <1>1, <1>15, <1>14, ConcatProperties
  <2> QED  BY <2>1, <2>2, <2>3, <2>4
<1>21. SubSeq(s4, 1, Word) = MAGIC
  <2>1. SubSeq(s4, 1, Word) = [i \in 1 .. Word |-> s4[i]]  BY <1>0, <1>16, <1>19
  <2>2. MAGIC = [i \in 1 .. Word |-> MAGIC[i]]  BY MagicAssumption
  <2> QED  BY <1>20, <2>1, <2>2
<1> QED  BY <1>16, <1>17, <1>19, <1>21

----------------------------------------------------------------------------
(* Where load_segment finds what flush has written *)

FooterAt(t) == Word + Len(Data(t, Len(t.cols)))
Entries(t) == [c \in DOMAIN t.cols |-> Entry(t, c)]
EntryAt(t, c) == FooterAt(t) + Long + Word + LengthBefore(Entries(t), c)
Written(t, c) == [r \in DOMAIN t.cols[c] |-> write_value(t.types[c], t.cols[c][r])]
ValueAt(t, c, r) == offset(t, c) + LengthBefore(Written(t, c), r)

LEMMA PartsLie ==
  ASSUME NEW t \in Tables, file = flush(t)
  PROVE  /\ file \in Seq(Bytes) /\ Len(file) \in Nat
         /\ Lies(file, Word, Data(t, Len(t.cols)))
         /\ FooterAt(t) \in Nat /\ Lies(file, FooterAt(t), Footer(t))
         /\ Len(file) - 2 * Word = FooterAt(t) + Len(Footer(t))
         /\ Lies(file, Len(file) - 2 * Word, Put(Len(Footer(t)), Word))
<1>0. Word \in Nat \ {0} /\ Len(t.types) \in Nat /\ Len(t.cols) = Len(t.types)
  BY SizesAssumption, TableIs
<1>1. MAGIC \in Seq(Bytes) /\ Len(MAGIC) = Word  BY MagicIs
<1>2. PICK data : data = Data(t, Len(t.cols))  OBVIOUS
<1>3. PICK footer : footer = Footer(t)  OBVIOUS
<1>4. PICK size : size = Put(Len(Footer(t)), Word)  OBVIOUS
<1>5. data \in Seq(Bytes) /\ Len(data) \in Nat
  <2>1. Len(t.cols) \in 0 .. Len(t.types)  BY <1>0
  <2> QED  BY <1>2, <2>1, DataIs
<1>6. footer \in Seq(Bytes) /\ Len(footer) \in Nat  BY <1>3, FooterIs
<1>7. size \in Seq(Bytes) /\ Len(size) = Word
  <2>1. Word \in Nat  BY <1>0
  <2> QED  BY <1>3, <1>4, <1>6, <2>1, PutIsSeq
<1>8. flush(t) = MAGIC \o data \o footer \o size \o MAGIC
  BY <1>2, <1>3, <1>4 DEF flush
<1>9. PICK s1 : s1 = MAGIC \o data  OBVIOUS
<1>10. PICK s2 : s2 = s1 \o footer  OBVIOUS
<1>11. PICK s3 : s3 = s2 \o size  OBVIOUS
<1>12. s1 \in Seq(Bytes) /\ Len(s1) = Word + Len(data)  BY <1>1, <1>5, <1>9, Joined
<1>13. s2 \in Seq(Bytes) /\ Len(s2) = Len(s1) + Len(footer)
  BY <1>6, <1>10, <1>12, Joined
<1>14. s3 \in Seq(Bytes) /\ Len(s3) = Len(s2) + Len(size)
  BY <1>7, <1>11, <1>13, Joined
<1>15. file = s3 \o MAGIC  BY <1>8, <1>9, <1>10, <1>11
<1>16. file \in Seq(Bytes) /\ Len(file) = Len(s3) + Word /\ Len(file) \in Nat
  BY <1>1, <1>14, <1>15, Joined
<1>17. PICK p : p = 0  OBVIOUS
<1>18. p \in Nat /\ Lies(file, p, file)  BY <1>16, <1>17, LiesItself
<1>19. Lies(file, p, s3)
  <2>1. Lies(file, p, s3 \o MAGIC)  BY <1>15, <1>18
  <2> QED  BY <1>1, <1>14, <1>16, <1>18, <2>1, LiesParted
<1>20. Lies(file, p, s2) /\ Lies(file, p + Len(s2), size)
  <2>1. Lies(file, p, s2 \o size)  BY <1>11, <1>19
  <2> QED  BY <1>7, <1>13, <1>16, <1>18, <2>1, LiesParted
<1>21. Lies(file, p, s1) /\ Lies(file, p + Len(s1), footer)
  <2>1. Lies(file, p, s1 \o footer)  BY <1>10, <1>20
  <2> QED  BY <1>6, <1>12, <1>16, <1>18, <2>1, LiesParted
<1>22. Lies(file, p + Len(MAGIC), data)
  <2>1. Lies(file, p, MAGIC \o data)  BY <1>9, <1>21
  <2> QED  BY <1>1, <1>5, <1>16, <1>18, <2>1, LiesParted
<1>23. /\ p + Len(MAGIC) = Word /\ p + Len(s1) = FooterAt(t) /\ FooterAt(t) \in Nat
       /\ p + Len(s2) = Len(file) - 2 * Word
       /\ Len(file) - 2 * Word = FooterAt(t) + Len(footer)
  <2>1. FooterAt(t) = Word + Len(data)  BY <1>2 DEF FooterAt
  <2> QED  BY <1>0, <1>1, <1>5, <1>6, <1>7, <1>12, <1>13, <1>14, <1>16, <1>17, <2>1
<1> QED
  BY <1>2, <1>3, <1>4, <1>16, <1>20, <1>21, <1>22, <1>23

LEMMA ColumnLies ==
  ASSUME NEW t \in Tables, file = flush(t), NEW c \in 1 .. Len(t.types)
  PROVE  offset(t, c) \in Nat /\ Lies(file, offset(t, c), write_column(t, c))
<1>0. Word \in Nat /\ Len(t.types) \in Nat /\ Len(t.cols) = Len(t.types)
  BY SizesAssumption, TableIs
<1>1. PICK n : n = Len(t.types)  OBVIOUS
<1>2. PICK ss : ss = [d \in 1 .. n |-> write_column(t, d)]  OBVIOUS
<1>3. ss \in Seq(Seq(Bytes)) /\ Len(ss) = n
  <2>1. ss \in [1 .. n -> Seq(Bytes)]  BY <1>1, <1>2, ColumnIs
  <2> QED  BY <1>0, <1>1, <2>1, FunctionIsSeq
<1>4. FlattenSeq(ss) = Data(t, Len(t.cols))  BY <1>0, <1>1, <1>2 DEF Data
<1>5. Lies(file, Word, FlattenSeq(ss)) /\ Len(file) \in Nat  BY <1>4, PartsLie
<1>6. Lies(file, Word + LengthBefore(ss, c), ss[c])  BY <1>0, <1>1, <1>3, <1>5, LiesFlat
<1>7. LengthBefore(ss, c) \in Nat  BY <1>1, <1>3, LengthBeforeIs
<1>8. Begin(ss, c - 1) = [d \in 1 .. c - 1 |-> write_column(t, d)]
  <2>1. \A d \in 1 .. c - 1 : d \in 1 .. n  BY <1>0, <1>1
  <2> QED  BY <1>2, <2>1 DEF Begin
<1>9. offset(t, c) = Word + LengthBefore(ss, c)  BY <1>8 DEF offset, Data, LengthBefore
<1>10. ss[c] = write_column(t, c)  BY <1>1, <1>2
<1> QED  BY <1>0, <1>6, <1>7, <1>9, <1>10

LEMMA WrittenIs ==
  ASSUME NEW t \in Tables, NEW c \in 1 .. Len(t.types)
  PROVE  /\ Written(t, c) \in Seq(Seq(Bytes)) /\ Len(Written(t, c)) = Len(t.cols[c])
         /\ write_column(t, c) = FlattenSeq(Written(t, c))
<1>1. PICK col : col = t.cols[c]  OBVIOUS
<1>2. PICK type : type = t.types[c]  OBVIOUS
<1>3. type \in 0 .. 3 /\ col \in Seq(ValueOf(type))  BY <1>1, <1>2, TableIs
<1>4. PICK ss : ss = [r \in DOMAIN col |-> write_value(type, col[r])]  OBVIOUS
<1>5. ss \in Seq(Seq(Bytes)) /\ Len(ss) = Len(col)
  <2>1. DOMAIN col = 1 .. Len(col) /\ Len(col) \in Nat
        /\ \A r \in 1 .. Len(col) : col[r] \in ValueOf(type)
    BY <1>3
  <2>2. \A r \in 1 .. Len(col) : write_value(type, col[r]) \in Seq(Bytes)
    BY <1>3, <2>1, ValueIs
  <2>3. ss \in [1 .. Len(col) -> Seq(Bytes)]  BY <1>4, <2>1, <2>2
  <2> QED  BY <2>1, <2>3, FunctionIsSeq
<1>6. write_column(t, c) = FlattenSeq(ss)
  BY <1>1, <1>2, <1>4 DEF write_column
<1>7. Written(t, c) = ss  BY <1>1, <1>2, <1>4 DEF Written
<1> QED  BY <1>1, <1>5, <1>6, <1>7

LEMMA ValueLies ==
  ASSUME NEW t \in Tables, file = flush(t), NEW c \in 1 .. Len(t.types),
         NEW r \in 1 .. Len(t.cols[c])
  PROVE  LET bytes == write_value(t.types[c], t.cols[c][r])
         IN /\ ValueAt(t, c, r) \in Nat
            /\ Lies(file, ValueAt(t, c, r), bytes)
            /\ ValueAt(t, c, r + 1) = ValueAt(t, c, r) + Len(bytes)
<1>1. PICK ss : ss = Written(t, c)  OBVIOUS
<1>2. ss \in Seq(Seq(Bytes)) /\ r \in 1 .. Len(ss) /\ write_column(t, c) = FlattenSeq(ss)
  BY <1>1, WrittenIs
<1>3. offset(t, c) \in Nat /\ Lies(file, offset(t, c), FlattenSeq(ss)) /\ Len(file) \in Nat
  BY <1>2, ColumnLies, PartsLie
<1>4. Lies(file, offset(t, c) + LengthBefore(ss, r), ss[r])  BY <1>2, <1>3, LiesFlat
<1>5. LengthBefore(ss, r) \in Nat /\ LengthBefore(ss, r + 1) = LengthBefore(ss, r) + Len(ss[r])
  BY <1>2, LengthBeforeIs
<1>6. ss[r] = write_value(t.types[c], t.cols[c][r])
  <2>1. t.cols[c] \in Seq(ValueOf(t.types[c]))  BY TableIs
  <2>2. r \in DOMAIN t.cols[c]  BY <2>1
  <2> QED  BY <1>1, <2>2 DEF Written
<1>7. Len(ss[r]) \in Nat
  <2>1. ss[r] \in Seq(Bytes)  BY <1>2
  <2> QED  BY <2>1
<1>8. ValueAt(t, c, r) = offset(t, c) + LengthBefore(ss, r)
      /\ ValueAt(t, c, r + 1) = offset(t, c) + LengthBefore(ss, r + 1)
  BY <1>1 DEF ValueAt
<1> QED  BY <1>3, <1>4, <1>5, <1>6, <1>7, <1>8

LEMMA ValuesEnd ==
  ASSUME NEW t \in Tables, file = flush(t), NEW c \in 1 .. Len(t.types)
  PROVE  /\ ValueAt(t, c, 1) = offset(t, c)
         /\ ValueAt(t, c, Len(t.cols[c]) + 1) = offset(t, c) + Len(write_column(t, c))
<1>1. PICK ss : ss = Written(t, c)  OBVIOUS
<1>2. ss \in Seq(Seq(Bytes)) /\ Len(t.cols[c]) = Len(ss) /\ write_column(t, c) = FlattenSeq(ss)
  BY <1>1, WrittenIs
<1>3. LengthBefore(ss, Len(ss) + 1) = Len(FlattenSeq(ss))  BY <1>2, LengthBeforeEnd
<1>4. LengthBefore(ss, 1) = 0  BY LengthBeforeFirst
<1>5. offset(t, c) \in Nat  BY ColumnLies
<1> QED  BY <1>1, <1>2, <1>3, <1>4, <1>5 DEF ValueAt

LEMMA EntriesLie ==
  ASSUME NEW t \in Tables, file = flush(t)
  PROVE  /\ Lies(file, FooterAt(t), Put(Len(t.cols[1]), Long))
         /\ Lies(file, FooterAt(t) + Long, Put(Len(t.cols), Word))
         /\ EntryAt(t, 1) = FooterAt(t) + Long + Word
         /\ \A c \in 1 .. Len(t.types) :
              /\ EntryAt(t, c) \in Nat /\ Lies(file, EntryAt(t, c), Entry(t, c))
              /\ EntryAt(t, c + 1) = EntryAt(t, c) + Len(Entry(t, c))
<1>0. /\ Long \in Nat /\ Word \in Nat /\ Len(t.types) \in Nat
      /\ DOMAIN t.cols = 1 .. Len(t.types) /\ Len(t.cols) = Len(t.types)
  BY SizesAssumption, TableIs
<1>1. PICK ss : ss = Entries(t)  OBVIOUS
<1>2. ss \in Seq(Seq(Bytes)) /\ Len(ss) = Len(t.types)
  <2>1. ss \in [1 .. Len(t.types) -> Seq(Bytes)]  BY <1>0, <1>1, EntryIs DEF Entries
  <2> QED  BY <1>0, <2>1, FunctionIsSeq
<1>3. FlattenSeq(ss) \in Seq(Bytes)  BY <1>2, Flattened
<1>4. PICK rows : rows = Put(Len(t.cols[1]), Long)  OBVIOUS
<1>5. PICK count : count = Put(Len(t.cols), Word)  OBVIOUS
<1>6. rows \in Seq(Bytes) /\ Len(rows) = Long
  <2>1. 1 \in 1 .. Len(t.types)  BY TableIs
  <2>2. Len(t.cols[1]) \in Nat  BY <2>1, TableIs
  <2> QED  BY <1>0, <1>4, <2>2, PutIsSeq
<1>7. count \in Seq(Bytes) /\ Len(count) = Word  BY <1>0, <1>5, PutIsSeq
<1>8. Footer(t) = rows \o count \o FlattenSeq(ss)
  BY <1>1, <1>4, <1>5 DEF Footer, Entry, Entries
<1>9. rows \o count \in Seq(Bytes) /\ Len(rows \o count) = Long + Word
  BY <1>6, <1>7, Joined
<1>10. PICK p : p = FooterAt(t)  OBVIOUS
<1>11. p \in Nat /\ Len(file) \in Nat /\ Lies(file, p, rows \o count \o FlattenSeq(ss))
  BY <1>8, <1>10, PartsLie
<1>12. Lies(file, p, rows \o count) /\ Lies(file, p + (Long + Word), FlattenSeq(ss))
  <2>1. Lies(file, p + Len(rows \o count), FlattenSeq(ss)) /\ Lies(file, p, rows \o count)
    BY <1>3, <1>9, <1>11, LiesParted
  <2> QED  BY <1>9, <2>1
<1>13. Lies(file, p, rows) /\ Lies(file, p + Long, count)
  <2>1. Lies(file, p, rows) /\ Lies(file, p + Len(rows), count)
    BY <1>6, <1>7, <1>11, <1>12, LiesParted
  <2> QED  BY <1>6, <2>1
<1>14. PICK q : q = p + (Long + Word)  OBVIOUS
<1>15. q \in Nat /\ q = p + Long + Word  BY <1>0, <1>11, <1>14
<1>16. ASSUME NEW c \in 1 .. Len(t.types)
       PROVE  /\ EntryAt(t, c) \in Nat /\ Lies(file, EntryAt(t, c), Entry(t, c))
              /\ EntryAt(t, c + 1) = EntryAt(t, c) + Len(Entry(t, c))
  <2>1. Lies(file, q + LengthBefore(ss, c), ss[c])
    <3>1. Lies(file, q, FlattenSeq(ss))  BY <1>12, <1>14
    <3> QED  BY <1>2, <1>11, <1>15, <3>1, LiesFlat
  <2>2. LengthBefore(ss, c) \in Nat /\ LengthBefore(ss, c + 1) = LengthBefore(ss, c) + Len(ss[c])
    BY <1>2, LengthBeforeIs
  <2>3. ss[c] = Entry(t, c)  BY <1>0, <1>1 DEF Entries
  <2>4. Len(ss[c]) \in Nat
    <3>1. ss[c] \in Seq(Bytes)  BY <1>2
    <3> QED  BY <3>1
  <2>5. EntryAt(t, c) = q + LengthBefore(ss, c) /\ EntryAt(t, c + 1) = q + LengthBefore(ss, c + 1)
    BY <1>1, <1>10, <1>15 DEF EntryAt
  <2> QED  BY <1>15, <2>1, <2>2, <2>3, <2>4, <2>5
<1>17. EntryAt(t, 1) = FooterAt(t) + Long + Word
  <2>1. LengthBefore(ss, 1) = 0  BY LengthBeforeFirst
  <2> QED  BY <1>1, <1>10, <1>15, <2>1 DEF EntryAt
<1> QED  BY <1>4, <1>5, <1>10, <1>13, <1>16, <1>17

LEMMA DividedLess ==
  ASSUME NEW n \in Nat, NEW m \in 0 .. n
  PROVE  m \div Base <= n \div Base
<1>1. PICK a, b : a = m \div Base /\ b = n \div Base  OBVIOUS
<1>2. PICK x, y : x = m % Base /\ y = n % Base  OBVIOUS
<1>3. m \in Nat /\ m <= n  OBVIOUS
<1>4. a \in Nat /\ b \in Nat  BY <1>1, <1>3, Divided
<1>5. x \in Nat /\ y \in Nat /\ y < Base
  BY <1>2, <1>3, Remains, SizesAssumption DEF Bytes
<1>6. x + Base * a = m /\ y + Base * b = n  BY <1>1, <1>2, <1>3, DivMod
<1>7. CASE a >= b + 1
  <2>1. PICK d \in Nat : a = b + 1 + d
    <3>1. a - (b + 1) \in Nat /\ a = b + 1 + (a - (b + 1))  BY <1>4, <1>7
    <3> QED  BY <3>1
  <2>2. Base * a = Base * b + Base + Base * d /\ Base * d >= 0 /\ Base * b \in Nat
    BY <1>4, <2>1, SizesAssumption
  <2>3. PICK u, v, w : u = Base * a /\ v = Base * b /\ w = Base * d  OBVIOUS
  <2>4. u \in Int /\ v \in Nat /\ w \in Int /\ Base \in Nat
    BY <1>4, <2>1, <2>3, SizesAssumption
  <2>5. u = v + Base + w /\ w >= 0 /\ x + u = m /\ y + v = n
    BY <1>6, <2>2, <2>3
  <2> QED  BY <1>3, <1>5, <2>4, <2>5
<1>8. CASE a <= b
  BY <1>1, <1>8
<1> QED  BY <1>4, <1>7, <1>8

\* What is smaller than a number that fits, fits too.
LEMMA FitsLess ==
  ASSUME NEW n \in Nat, NEW m \in 0 .. n, NEW width \in Nat, Fits(n, width)
  PROVE  Fits(m, width)
<1>1. PICK f : Divides(f, n, width) /\ f = Rests(n, width)  BY PutIs
<1>2. m \in Nat /\ m <= n  OBVIOUS
<1>3. PICK g : Divides(g, m, width) /\ g = Rests(m, width)  BY <1>2, PutIs
<1>4. \A i \in 0 .. width : f[i] \in Nat /\ g[i] \in Nat
  BY <1>1, <1>2, <1>3, RestsAgree
<1> DEFINE S == {i \in Nat : i <= width => g[i] <= f[i]}
<1>5. 0 \in S
  <2>1. 0 \in 0 .. width  OBVIOUS
  <2>2. f[0] = n /\ g[0] = m  BY <1>1, <1>3, <2>1 DEF Divides
  <2> QED  BY <1>2, <2>2
<1>6. ASSUME NEW i \in Nat, i \in S  PROVE i + 1 \in S
  <2> SUFFICES ASSUME i + 1 <= width  PROVE g[i + 1] <= f[i + 1]
    OBVIOUS
  <2>1. i + 1 \in 0 .. width /\ i + 1 # 0 /\ (i + 1) - 1 = i /\ i \in 0 .. width
    OBVIOUS
  <2>2. f[i + 1] = f[i] \div Base /\ g[i + 1] = g[i] \div Base
    BY <1>1, <1>3, <2>1 DEF Divides
  <2>3. g[i] \in 0 .. f[i] /\ f[i] \in Nat  BY <1>4, <1>6, <2>1
  <2> QED  BY <2>2, <2>3, DividedLess
<1>7. \A i \in Nat : i \in S
  <2> HIDE DEF S
  <2> QED  BY <1>5, <1>6, Induction
<1>8. width \in 0 .. width  OBVIOUS
<1>9. g[width] <= f[width] /\ f[width] = 0 /\ g[width] \in Nat
  BY <1>1, <1>4, <1>7, <1>8 DEF Fits
<1>10. g[width] = 0  BY <1>9
<1> QED  BY <1>3, <1>10 DEF Fits

\* What lies where the stream stands is what is read.
LEMMA ReadIs ==
  ASSUME file \in Seq(Bytes), NEW b \in Seq(Bytes), NEW p \in Int, NEW k \in Nat,
         p + k \in Nat, Lies(file, p + k, b)
  PROVE  Read(p, FALSE, k, Len(b)) = b
<1>1. p + k + Len(b) <= Len(file) /\ \A i \in 1 .. Len(b) : file[p + k + i] = b[i]
  BY DEF Lies
<1>2. \A i \in 1 .. Len(b) : p + k + i \in DOMAIN file
  <2>1. DOMAIN file = 1 .. Len(file) /\ Len(file) \in Nat /\ Len(b) \in Nat  OBVIOUS
  <2> QED  BY <1>1, <2>1
<1>3. Read(p, FALSE, k, Len(b)) = [i \in 1 .. Len(b) |-> b[i]]
  BY <1>1, <1>2 DEF Read
<1>4. b = [i \in 1 .. Len(b) |-> b[i]]  OBVIOUS
<1> QED  BY <1>3, <1>4

LEMMA FooterRead ==
  ASSUME table \in Tables, file = flush(table), ReadFooter
  PROVE  /\ num_rows' = Len(table.cols[1]) /\ num_cols' = Len(table.cols)
         /\ pos' = EntryAt(table, 1) /\ fail' = FALSE
<1>0. /\ Long \in Nat /\ Word \in Nat /\ Len(table.types) \in Nat
      /\ Len(table.cols) = Len(table.types) /\ 1 \in 1 .. Len(table.types)
      /\ Len(table.cols[1]) \in Nat
  <2>1. 1 \in 1 .. Len(table.types)  BY TableIs
  <2> QED  BY <2>1, SizesAssumption, TableIs
<1>1. PICK sizeAt : sizeAt = Len(file) - 2 * Word  OBVIOUS
<1>2. PICK p : p = FooterAt(table)  OBVIOUS
<1>3. PICK m : m = Len(Footer(table))  OBVIOUS
<1>4. m \in Nat
  <2>1. Footer(table) \in Seq(Bytes)  BY FooterIs
  <2> QED  BY <1>3, <2>1
<1>5. /\ file \in Seq(Bytes) /\ Len(file) \in Nat
      /\ p \in Nat /\ sizeAt = p + m /\ Lies(file, sizeAt, Put(m, Word))
  BY <1>1, <1>2, <1>3, PartsLie
<1>6. sizeAt \in Nat /\ ~(sizeAt < 0) /\ sizeAt - m = p  BY <1>4, <1>5
<1>7. Num(Read(sizeAt, sizeAt < 0, 0, Word)) = m
  <2>1. Put(m, Word) \in Seq(Bytes) /\ Len(Put(m, Word)) = Word  BY <1>0, <1>4, PutIsSeq
  <2>2. sizeAt \in Int /\ 0 \in Nat /\ sizeAt + 0 \in Nat /\ Lies(file, sizeAt + 0, Put(m, Word))
    BY <1>5, <1>6
  <2>3. Read(sizeAt, FALSE, 0, Len(Put(m, Word))) = Put(m, Word)
    BY <1>5, <2>1, <2>2, ReadIs
  <2>4. (sizeAt < 0) = FALSE  BY <1>6
  <2>5. Num(Put(m, Word)) = m
    <3>1. Fits(m, Word)  BY <1>3, FitsAssumption
    <3> QED  BY <1>0, <1>4, <3>1, NumPut
  <2> QED  BY <2>1, <2>3, <2>4, <2>5
<1>8. PICK failed : failed = (sizeAt < 0 \/ p < 0)  OBVIOUS
<1>9. failed = FALSE
  <2>1. (sizeAt < 0) = FALSE /\ (p < 0) = FALSE  BY <1>5, <1>6
  <2> QED  BY <1>8, <2>1
<1>10. /\ num_rows' = Num(Read(p, failed, 0, Long))
       /\ num_cols' = Num(Read(p, failed, Long, Word))
       /\ pos' = p + Long + Word
       /\ fail' = (failed \/ pos' > Len(file))
  BY <1>1, <1>6, <1>7, <1>8 DEF ReadFooter
<1>11. num_rows' = Len(table.cols[1])
  <2>1. PICK n : n = Len(table.cols[1])  OBVIOUS
  <2>2. n \in Nat /\ Fits(n, Long)  BY <1>0, <2>1, FitsAssumption
  <2>3. Put(n, Long) \in Seq(Bytes) /\ Len(Put(n, Long)) = Long  BY <1>0, <2>2, PutIsSeq
  <2>4. Lies(file, p, Put(n, Long))  BY <1>2, <2>1, EntriesLie
  <2>5. p \in Int /\ 0 \in Nat /\ p + 0 \in Nat /\ p + 0 = p  BY <1>5
  <2>6. Read(p, FALSE, 0, Len(Put(n, Long))) = Put(n, Long)
    BY <1>5, <2>3, <2>4, <2>5, ReadIs
  <2>7. Num(Put(n, Long)) = n  BY <1>0, <2>2, NumPut
  <2> QED  BY <1>9, <1>10, <2>1, <2>3, <2>6, <2>7
<1>12. num_cols' = Len(table.cols) /\ p + Long + Word <= Len(file)
  <2>1. PICK n : n = Len(table.cols)  OBVIOUS
  <2>2. n \in Nat /\ Fits(n, Word)  BY <1>0, <2>1, FitsAssumption
  <2>3. Put(n, Word) \in Seq(Bytes) /\ Len(Put(n, Word)) = Word  BY <1>0, <2>2, PutIsSeq
  <2>4. Lies(file, p + Long, Put(n, Word))  BY <1>2, <2>1, EntriesLie
  <2>5. p \in Int /\ p + Long \in Nat  BY <1>0, <1>5
  <2>6. Read(p, FALSE, Long, Len(Put(n, Word))) = Put(n, Word)
    BY <1>0, <1>5, <2>3, <2>4, <2>5, ReadIs
  <2>7. Num(Put(n, Word)) = n  BY <1>0, <2>2, NumPut
  <2>8. p + Long + Word <= Len(file)  BY <2>3, <2>4 DEF Lies
  <2> QED  BY <1>9, <1>10, <2>1, <2>3, <2>6, <2>7, <2>8
<1>13. pos' = EntryAt(table, 1)
  <2>1. EntryAt(table, 1) = FooterAt(table) + Long + Word  BY EntriesLie
  <2> QED  BY <1>2, <1>10, <2>1
<1>14. fail' = FALSE
  <2>1. (p + Long + Word > Len(file)) = FALSE  BY <1>0, <1>5, <1>12
  <2> QED  BY <1>9, <1>10, <2>1
<1> QED  BY <1>11, <1>12, <1>13, <1>14

\* what load_segment is to take of the footer for column c
Meta(t, c) ==
  [name |-> NameBytes(t.names[c]), type |-> t.types[c],
   offset |-> offset(t, c), size |-> Len(write_column(t, c))]

LEMMA MetaRead ==
  ASSUME table \in Tables, file = flush(table), ReadMeta, NEW c \in 1 .. Len(table.types),
         fail = FALSE, pos = EntryAt(table, c)
  PROVE  /\ metas' = Append(metas, Meta(table, c))
         /\ pos' = EntryAt(table, c + 1) /\ fail' = FALSE
<1>0. Long \in Nat /\ Word \in Nat  BY SizesAssumption
<1>1. file \in Seq(Bytes) /\ Len(file) \in Nat  BY PartsLie
<1>2. /\ pos \in Nat /\ Lies(file, pos, Entry(table, c))
      /\ EntryAt(table, c + 1) = pos + Len(Entry(table, c))
  BY EntriesLie
<1>3. PICK n, k : n = <<name_len(table.names[c])>> /\ k = name_len(table.names[c])
  OBVIOUS
<1>4. PICK name : name = NameBytes(table.names[c])  OBVIOUS
<1>5. PICK type : type = <<table.types[c]>>  OBVIOUS
<1>6. PICK at : at = Put(offset(table, c), Long)  OBVIOUS
<1>7. PICK size : size = Put(Len(write_column(table, c)), Long)  OBVIOUS
<1>8. /\ n \in Seq(Bytes) /\ Len(n) = 1 /\ n = <<k>> /\ k \in Bytes /\ k \in Nat
      /\ name \in Seq(Bytes) /\ Len(name) = k
  <2>1. table.names[c] \in Seq(Bytes)  BY TableIs
  <2>2. k \in Bytes /\ name \in Seq(Bytes) /\ Len(name) = k
    BY <1>3, <1>4, <2>1, NameIs
  <2>3. n \in Seq(Bytes) /\ Len(n) = 1  BY <1>3, <2>2
  <2>4. k \in Nat  BY <2>2, SizesAssumption DEF Bytes
  <2> QED  BY <1>3, <2>2, <2>3, <2>4
<1>9. type \in Seq(Bytes) /\ Len(type) = 1 /\ table.types[c] \in Bytes
  <2>1. table.types[c] \in {0, 1, 2, 3}
    <3>1. table.types[c] \in 0 .. 3  BY TableIs
    <3> QED  BY <3>1
  <2>2. table.types[c] \in Bytes  BY <2>1, SomeBytes
  <2> QED  BY <1>5, <2>2
<1>10. PICK o, w : o = offset(table, c) /\ w = Len(write_column(table, c))  OBVIOUS
<1>11. /\ o \in Nat /\ w \in Nat /\ o + w <= Len(file)
  <2>1. o \in Nat /\ Lies(file, o, write_column(table, c))  BY <1>10, ColumnLies
  <2>2. w \in Nat
    <3>1. write_column(table, c) \in Seq(Bytes)  BY ColumnIs
    <3> QED  BY <1>10, <3>1
  <2> QED  BY <1>10, <2>1, <2>2 DEF Lies
<1>12. Fits(o, Long) /\ Fits(w, Long)
  <2>1. Fits(Len(file), Long)  BY FitsAssumption
  <2>2. o \in 0 .. Len(file) /\ w \in 0 .. Len(file)  BY <1>1, <1>11
  <2> QED  BY <1>0, <1>1, <2>1, <2>2, FitsLess
<1>13. /\ at \in Seq(Bytes) /\ Len(at) = Long /\ Num(at) = o
       /\ size \in Seq(Bytes) /\ Len(size) = Long /\ Num(size) = w
  BY <1>0, <1>6, <1>7, <1>10, <1>11, <1>12, PutIsSeq, NumPut
<1>14. PICK s1 : s1 = n \o name  OBVIOUS
<1>15. PICK s2 : s2 = s1 \o type  OBVIOUS
<1>16. PICK s3 : s3 = s2 \o at  OBVIOUS
<1>17. Entry(table, c) = s3 \o size
  BY <1>3, <1>4, <1>5, <1>6, <1>7, <1>14, <1>15, <1>16 DEF Entry
<1>18. s1 \in Seq(Bytes) /\ Len(s1) = 1 + k  BY <1>8, <1>14, Joined
<1>19. s2 \in Seq(Bytes) /\ Len(s2) = 2 + k
  <2>1. s2 \in Seq(Bytes) /\ Len(s2) = Len(s1) + 1  BY <1>9, <1>15, <1>18, Joined
  <2> QED  BY <1>8, <1>18, <2>1
<1>20. s3 \in Seq(Bytes) /\ Len(s3) = 2 + k + Long
  <2>1. s3 \in Seq(Bytes) /\ Len(s3) = Len(s2) + Long  BY <1>13, <1>16, <1>19, Joined
  <2> QED  BY <1>19, <2>1
<1>21. Len(Entry(table, c)) = 2 + k + 2 * Long
  <2>1. Len(Entry(table, c)) = Len(s3) + Long  BY <1>13, <1>17, <1>20, Joined
  <2> QED  BY <1>0, <1>8, <1>20, <2>1
<1>22. Lies(file, pos, s3) /\ Lies(file, pos + (2 + k + Long), size)
  <2>1. Lies(file, pos, s3 \o size)  BY <1>2, <1>17
  <2>2. Lies(file, pos, s3) /\ Lies(file, pos + Len(s3), size)
    BY <1>1, <1>2, <1>13, <1>20, <2>1, LiesParted
  <2> QED  BY <1>20, <2>2
<1>23. Lies(file, pos, s2) /\ Lies(file, pos + (2 + k), at)
  <2>1. Lies(file, pos, s2 \o at)  BY <1>16, <1>22
  <2>2. Lies(file, pos, s2) /\ Lies(file, pos + Len(s2), at)
    BY <1>1, <1>2, <1>13, <1>19, <2>1, LiesParted
  <2> QED  BY <1>19, <2>2
<1>24. Lies(file, pos, s1) /\ Lies(file, pos + (1 + k), type)
  <2>1. Lies(file, pos, s1 \o type)  BY <1>15, <1>23
  <2>2. Lies(file, pos, s1) /\ Lies(file, pos + Len(s1), type)
    BY <1>1, <1>2, <1>9, <1>18, <2>1, LiesParted
  <2> QED  BY <1>18, <2>2
<1>25. Lies(file, pos + 0, n) /\ Lies(file, pos + 1, name)
  <2>1. Lies(file, pos, n \o name)  BY <1>14, <1>24
  <2>2. Lies(file, pos, n) /\ Lies(file, pos + Len(n), name)
    BY <1>1, <1>2, <1>8, <2>1, LiesParted
  <2>3. pos + 0 = pos  BY <1>2
  <2> QED  BY <1>8, <2>2, <2>3
<1>26. ASSUME NEW b \in Seq(Bytes), NEW j \in Nat, Lies(file, pos + j, b)
       PROVE  Got(j, Len(b)) = b
  <2>1. pos \in Int /\ pos + j \in Nat  BY <1>2
  <2>2. Read(pos, FALSE, j, Len(b)) = b  BY <1>1, <1>26, <2>1, ReadIs
  <2> QED  BY <2>2 DEF Got
<1>27. Got(0, 1) = n /\ Num(Got(0, 1)) = k
  <2>1. Got(0, Len(n)) = n  BY <1>8, <1>25, <1>26
  <2> QED  BY <1>8, <2>1, NumOfOne
<1>28. Got(1, k) = name
  <2>1. Got(1, Len(name)) = name  BY <1>8, <1>25, <1>26
  <2> QED  BY <1>8, <2>1
<1>29. Num(Got(1 + k, 1)) = table.types[c]
  <2>1. 1 + k \in Nat  BY <1>8
  <2>2. Got(1 + k, Len(type)) = type  BY <1>9, <1>24, <1>26, <2>1
  <2> QED  BY <1>5, <1>9, <2>2, NumOfOne
<1>30. Num(Got(2 + k, Long)) = o
  <2>1. 2 + k \in Nat  BY <1>8
  <2>2. Got(2 + k, Len(at)) = at  BY <1>13, <1>23, <1>26, <2>1
  <2> QED  BY <1>13, <2>2
<1>31. Num(Got(2 + k + Long, Long)) = w
  <2>1. 2 + k + Long \in Nat  BY <1>0, <1>8
  <2>2. Got(2 + k + Long, Len(size)) = size  BY <1>13, <1>22, <1>26, <2>1
  <2> QED  BY <1>13, <2>2
<1>32. metas' = Append(metas, Meta(table, c))
  <2>1. metas' = Append(metas,
             [name |-> Got(1, k), type |-> Num(Got(1 + k, 1)),
              offset |-> Num(Got(2 + k, Long)), size |-> Num(Got(2 + k + Long, Long))])
    BY <1>27 DEF ReadMeta
  <2> QED  BY <1>4, <1>10, <1>28, <1>29, <1>30, <1>31, <2>1 DEF Meta
<1>33. Skip(2 + k + 2 * Long)  BY <1>27 DEF ReadMeta
<1>34. pos' = EntryAt(table, c + 1)
  <2>1. pos' = pos + (2 + k + 2 * Long)  BY <1>33 DEF Skip
  <2> QED  BY <1>2, <1>21, <2>1
<1>35. fail' = FALSE
  <2>1. pos + Len(Entry(table, c)) <= Len(file)  BY <1>2 DEF Lies
  <2>2. (pos + (2 + k + 2 * Long) > Len(file)) = FALSE
    BY <1>0, <1>1, <1>2, <1>8, <1>21, <2>1
  <2>3. fail' = (fail \/ pos + (2 + k + 2 * Long) > Len(file))  BY <1>33 DEF Skip
  <2> QED  BY <2>2, <2>3
<1> QED  BY <1>32, <1>34, <1>35

LEMMA ValueRead ==
  ASSUME table \in Tables, file = flush(table), ReadValue, NEW c \in 1 .. Len(table.types),
         NEW r \in 1 .. Len(table.cols[c]),
         c = Len(columns), metas[c].type = table.types[c],
         fail = FALSE, pos = ValueAt(table, c, r)
  PROVE  /\ columns' = [columns EXCEPT ![c] = Append(@, table.cols[c][r])]
         /\ pos' = ValueAt(table, c, r + 1) /\ fail' = FALSE
<1>0. Long \in Nat /\ Word \in Nat  BY SizesAssumption
<1>1. file \in Seq(Bytes) /\ Len(file) \in Nat  BY PartsLie
<1>2. PICK v : v = table.cols[c][r]  OBVIOUS
<1>3. PICK type : type = table.types[c]  OBVIOUS
<1>4. type \in 0 .. 3 /\ v \in ValueOf(type)
  <2>1. table.cols[c] \in Seq(ValueOf(type)) /\ type \in 0 .. 3  BY <1>3, TableIs
  <2> QED  BY <1>2, <2>1
<1>5. PICK bytes : bytes = write_value(type, v)  OBVIOUS
<1>6. bytes \in Seq(Bytes) /\ Len(bytes) \in Nat  BY <1>4, <1>5, ValueIs
<1>7. /\ pos \in Nat /\ Lies(file, pos, bytes)
      /\ ValueAt(table, c, r + 1) = pos + Len(bytes)
  BY <1>2, <1>3, <1>5, ValueLies
<1>8. ASSUME NEW b \in Seq(Bytes), NEW j \in Nat, Lies(file, pos + j, b)
      PROVE  Got(j, Len(b)) = b
  <2>1. pos \in Int /\ pos + j \in Nat  BY <1>7
  <2>2. Read(pos, FALSE, j, Len(b)) = b  BY <1>1, <1>8, <2>1, ReadIs
  <2> QED  BY <2>2 DEF Got
<1>9. pos + 0 = pos  BY <1>7
<1>10. PICK len : len = Num(Got(0, Word))  OBVIOUS
<1>11. PICK value : value = CASE type = STRING_  -> Got(Word, len)
                              [] type = BOOLEAN_ -> Got(0, 1) # <<0>>
                              [] OTHER -> Got(0, Long)
  OBVIOUS
<1>12. PICK read : read = CASE type = STRING_  -> Word + len
                            [] type = BOOLEAN_ -> 1
                            [] OTHER -> Long
  OBVIOUS
<1>13. columns' = [columns EXCEPT ![c] = Append(@, value)] /\ Skip(read)
  BY <1>3, <1>10, <1>11, <1>12 DEF ReadValue
<1>14. value = v /\ read = Len(bytes)
  <2>1. CASE type = STRING_
    <3>1. type # BOOLEAN_  BY <2>1 DEF STRING_, BOOLEAN_
    <3>2. v \in Seq(Bytes) /\ Len(v) \in Nat  BY <1>4, <2>1, <3>1 DEF ValueOf
    <3>3. PICK count : count = Put(Len(v), Word)  OBVIOUS
    <3>4. count \in Seq(Bytes) /\ Len(count) = Word  BY <1>0, <3>2, <3>3, PutIsSeq
    <3>5. bytes = count \o v  BY <1>5, <2>1, <3>1, <3>3 DEF write_value
    <3>6. Lies(file, pos + 0, count) /\ Lies(file, pos + Word, v)
      <4>1. Lies(file, pos, count) /\ Lies(file, pos + Len(count), v)
        BY <1>1, <1>7, <3>2, <3>4, <3>5, LiesParted
      <4> QED  BY <1>9, <3>4, <4>1
    <3>7. Got(0, Len(count)) = count  BY <1>8, <3>4, <3>6
    <3>8. Fits(Len(v), Word)
      <4>1. table.cols[c] \in Seq(ValueOf(type))  BY <1>3, TableIs
      <4>2. r \in DOMAIN table.cols[c] /\ c \in DOMAIN table.cols  BY <4>1, TableIs
      <4> QED  BY <1>2, <1>3, <2>1, <4>2, FitsAssumption
    <3>9. len = Len(v)  BY <1>0, <1>10, <3>2, <3>3, <3>4, <3>7, <3>8, NumPut
    <3>10. Got(Word, Len(v)) = v  BY <1>0, <1>8, <3>2, <3>6
    <3>11. Len(bytes) = Word + Len(v)  BY <3>2, <3>4, <3>5, Joined
    <3> QED  BY <1>11, <1>12, <2>1, <3>1, <3>9, <3>10, <3>11
  <2>2. CASE type = BOOLEAN_
    <3>1. type # STRING_  BY <2>2 DEF STRING_, BOOLEAN_
    <3>2. v \in BOOLEAN  BY <1>4, <2>2, <3>1 DEF ValueOf
    <3>3. bytes = <<IF v THEN 1 ELSE 0>>  BY <1>5, <2>2, <3>1 DEF write_value
    <3>4. Len(bytes) = 1  BY <3>3
    <3>5. Got(0, Len(bytes)) = bytes  BY <1>6, <1>7, <1>8, <1>9
    <3>6. value = (bytes # <<0>>)  BY <1>11, <2>2, <3>1, <3>4, <3>5
    <3>7. CASE v = TRUE
      <4>1. bytes[1] = 1  BY <3>3, <3>7
      <4>2. bytes # <<0>>  BY <4>1
      <4> QED  BY <1>12, <2>2, <3>1, <3>4, <3>6, <3>7, <4>2
    <3>8. CASE v = FALSE
      <4>1. bytes = <<0>>  BY <3>3, <3>8
      <4> QED  BY <1>12, <2>2, <3>1, <3>4, <3>6, <3>8, <4>1
    <3> QED  BY <3>2, <3>7, <3>8
  <2>3. CASE type # STRING_ /\ type # BOOLEAN_
    <3>1. v \in [1 .. Long -> Bytes]  BY <1>4, <2>3 DEF ValueOf
    <3>2. bytes = v  BY <1>5, <2>3 DEF write_value
    <3>3. Len(bytes) = Long  BY <1>0, <3>1, <3>2, FunctionIsSeq
    <3>4. Got(0, Len(bytes)) = bytes  BY <1>6, <1>7, <1>8, <1>9
    <3> QED  BY <1>11, <1>12, <2>3, <3>2, <3>3, <3>4
  <2> QED  BY <2>1, <2>2, <2>3
<1>15. pos' = pos + Len(bytes)  BY <1>13, <1>14 DEF Skip
<1>16. fail' = FALSE
  <2>1. pos + Len(bytes) <= Len(file)  BY <1>7 DEF Lies
  <2>2. (pos + Len(bytes) > Len(file)) = FALSE  BY <1>1, <1>6, <1>7, <2>1
  <2>3. fail' = (fail \/ pos + Len(bytes) > Len(file))  BY <1>13, <1>14 DEF Skip
  <2> QED  BY <2>2, <2>3
<1> QED  BY <1>2, <1>7, <1>13, <1>14, <1>15, <1>16

----------------------------------------------------------------------------
(* A cut file *)

Places == {"flush", "magic", "threw", "footer", "metas", "columns", "loaded"}

\* What is in the file is the beginning of what flush writes; load_segment
\* has come past the check only with MAGIC at the end, and a file of MAGIC
\* alone has no columns for it.
Cut ==
  /\ table \in Tables /\ pc \in Places
  /\ pc # "flush" => \E n \in 0 .. Len(flush(table)) : file = SubSeq(flush(table), 1, n)
Empty ==
  /\ pc \in {"flush", "magic", "footer"} => metas = << >> /\ columns = << >>
  /\ pc \in {"metas", "columns", "loaded"} /\ Len(file) = Word =>
       num_cols = 0 /\ metas = << >> /\ columns = << >>
Passed == pc \in {"footer", "metas", "columns", "loaded"} => magic = MAGIC

IInv == Cut /\ Empty /\ Passed

LEMMA InitCut == Init => IInv
<1> SUFFICES ASSUME Init  PROVE IInv
  OBVIOUS
<1>1. Cut  BY DEF Init, Cut, Places
<1>2. Empty  BY DEF Init, Empty
<1>3. Passed  BY DEF Init, Passed
<1> QED  BY <1>1, <1>2, <1>3 DEF IInv

LEMMA FooterOfStub ==
  ASSUME Len(file) = Word, ReadFooter
  PROVE  num_cols' = 0
<1>0. Word \in Nat \ {0} /\ Long \in Nat \ {0}  BY SizesAssumption
<1>1. PICK sizeAt : sizeAt = Len(file) - 2 * Word  OBVIOUS
<1>2. sizeAt < 0  BY <1>0, <1>1
<1>3. Read(sizeAt, sizeAt < 0, 0, Word) = [i \in 1 .. Word |-> 0]
  BY <1>2 DEF Read
<1>4. Num(Read(sizeAt, sizeAt < 0, 0, Word)) = 0  BY <1>0, <1>3, NoNumber
<1>5. PICK start : start = sizeAt - Num(Read(sizeAt, sizeAt < 0, 0, Word))  OBVIOUS
<1>6. PICK failed : failed = (sizeAt < 0 \/ start < 0)  OBVIOUS
<1>7. num_cols' = Num(Read(start, failed, Long, Word))
  BY <1>1, <1>5, <1>6 DEF ReadFooter
<1>8. Read(start, failed, Long, Word) = [i \in 1 .. Word |-> 0]
  BY <1>2, <1>6 DEF Read
<1> QED  BY <1>0, <1>7, <1>8, NoNumber

LEMMA StepCut == IInv /\ [Next]_vars => IInv'
<1> SUFFICES ASSUME IInv, [Next]_vars  PROVE IInv'
  OBVIOUS
<1> USE DEF IInv
<1>1. CASE Flush
  <2>1. Cut'  BY <1>1 DEF Flush, Cut, Places
  <2>2. Empty'  BY <1>1 DEF Flush, Empty, footers
  <2>3. Passed'  BY <1>1 DEF Flush, Passed
  <2> QED  BY <2>1, <2>2, <2>3
<1>2. CASE CheckMagic
  <2>1. Cut'  BY <1>2 DEF CheckMagic, Cut, Places
  <2>2. Empty'  BY <1>2 DEF CheckMagic, Empty, footers
  <2>3. Passed'  BY <1>2 DEF CheckMagic, Passed, magic, Read
  <2> QED  BY <2>1, <2>2, <2>3
<1>3. CASE ReadFooter
  <2>1. Cut'  BY <1>3 DEF ReadFooter, Cut, Places
  <2>2. Empty'
    <3>1. /\ metas = << >> /\ columns = << >> /\ file' = file
          /\ metas' = metas /\ columns' = columns /\ pc' = "metas"
      BY <1>3 DEF ReadFooter, Empty
    <3>2. Len(file) = Word => num_cols' = 0  BY <1>3, FooterOfStub
    <3> QED  BY <3>1, <3>2 DEF Empty
  <2>3. Passed'  BY <1>3 DEF ReadFooter, Passed, magic, Read
  <2> QED  BY <2>1, <2>2, <2>3
<1>4. CASE ReadMeta
  <2>1. Cut'  BY <1>4 DEF ReadMeta, Cut, Places
  <2>2. Empty'
    <3>1. pc = "metas" /\ pc' = "metas" /\ file' = file  BY <1>4 DEF ReadMeta
    <3>2. Len(file) # Word
      <4> SUFFICES ASSUME Len(file) = Word  PROVE FALSE
        OBVIOUS
      <4>1. num_cols = 0 /\ metas = << >>  BY <3>1 DEF Empty
      <4>2. Len(metas) < num_cols  BY <1>4 DEF ReadMeta
      <4> QED  BY <4>1, <4>2
    <3> QED  BY <3>1, <3>2 DEF Empty
  <2>3. Passed'  BY <1>4 DEF ReadMeta, Passed, magic, Read
  <2> QED  BY <2>1, <2>2, <2>3
<1>5. CASE SeekColumn
  <2>1. Cut'  BY <1>5 DEF SeekColumn, Cut, Places
  <2>2. Empty'
    <3>1. pc \in {"metas", "columns"} /\ pc' = "columns" /\ file' = file
      BY <1>5 DEF SeekColumn
    <3>2. Len(file) # Word
      <4> SUFFICES ASSUME Len(file) = Word  PROVE FALSE
        OBVIOUS
      <4>1. num_cols = 0 /\ columns = << >>  BY <3>1 DEF Empty
      <4>2. Len(columns) < num_cols  BY <1>5 DEF SeekColumn
      <4> QED  BY <4>1, <4>2
    <3> QED  BY <3>1, <3>2 DEF Empty
  <2>3. Passed'  BY <1>5 DEF SeekColumn, Passed, magic, Read
  <2> QED  BY <2>1, <2>2, <2>3
<1>6. CASE ReadValue
  <2>1. pc = "columns" /\ pc' = "columns" /\ file' = file /\ table' = table
        /\ Len(Last(columns)) < num_rows
    BY <1>6 DEF ReadValue
  <2>2. Cut'  BY <2>1 DEF Cut, Places
  <2>3. Empty'
    <3>1. /\ num_cols' = num_cols /\ metas' = metas
          /\ \E value : columns' = [columns EXCEPT ![Len(columns)] = Append(@, value)]
      BY <1>6 DEF ReadValue, footers
    <3>2. columns = << >> => columns' = << >>  BY <3>1
    <3> QED  BY <2>1, <3>1, <3>2 DEF Empty
  <2>4. Passed'  BY <2>1 DEF Passed, magic, Read
  <2> QED  BY <2>2, <2>3, <2>4
<1>7. CASE Return
  <2>1. Cut'  BY <1>7 DEF Return, Cut, Places
  <2>2. Empty'  BY <1>7 DEF Return, Empty, footers
  <2>3. Passed'  BY <1>7 DEF Return, Passed, magic, Read
  <2> QED  BY <2>1, <2>2, <2>3
<1>8. CASE UNCHANGED vars
  <2>1. Cut'  BY <1>8 DEF vars, Cut
  <2>2. Empty'  BY <1>8 DEF vars, footers, Empty
  <2>3. Passed'  BY <1>8 DEF vars, Passed, magic, Read
  <2> QED  BY <2>1, <2>2, <2>3
<1> QED
  BY <1>1, <1>2, <1>3, <1>4, <1>5, <1>6, <1>7, <1>8 DEF Next, Load

\* The last bytes of a file that is cut at n are MAGIC only where the segment
\* has MAGIC: at its beginning, at its end, or where it has got there by chance.
LEMMA MagicAtEnd ==
  ASSUME NEW t \in Tables, NEW n \in 0 .. Len(flush(t)),
         file = SubSeq(flush(t), 1, n), magic = MAGIC
  PROVE  n = Len(flush(t)) \/ n = Word \/ Stray(flush(t))
<1>1. PICK whole : whole = flush(t)  OBVIOUS
<1>2. whole \in Seq(Bytes) /\ Len(whole) \in Nat /\ Word \in Nat \ {0}
  BY <1>1, FlushIs, SizesAssumption
<1>3. n \in Nat /\ n <= Len(whole)  BY <1>1, <1>2
<1>4. Len(file) = n /\ DOMAIN file = 1 .. n /\ \A i \in 1 .. n : file[i] = whole[i]
  BY <1>1, <1>2, <1>3
<1>5. CASE n < Word
  <2>1. magic = [i \in 1 .. Word |-> 0]
    BY <1>4, <1>5 DEF magic, Read
  <2>2. 1 \in 1 .. Word  BY <1>2
  <2>3. magic[1] = 0  BY <2>1, <2>2
  <2>4. MAGIC[1] # 0  BY <2>2, MagicAssumption
  <2> QED  BY <2>3, <2>4
<1>6. CASE Word < n /\ n < Len(whole)
  <2>1. PICK i : i = n - Word  OBVIOUS
  <2>2. /\ i \in 1 .. Len(whole) - Word - 1
        /\ i + Word = n /\ i + 1 \in Nat /\ i \in Nat
    BY <1>2, <1>3, <1>6, <2>1
  <2>3. \A k \in 1 .. Word : MAGIC[k] = whole[i + k]
    <3> SUFFICES ASSUME NEW k \in 1 .. Word  PROVE MAGIC[k] = whole[i + k]
      OBVIOUS
    <3>1. ~(Len(file) < Word) /\ i + 0 + k = i + k /\ i + k \in 1 .. n
      BY <1>2, <1>3, <1>4, <1>6, <2>2
    <3>2. magic[k] = IF ~(Len(file) < Word) /\ i + 0 + k \in DOMAIN file
                     THEN file[i + 0 + k] ELSE 0
      BY <1>4, <2>1 DEF magic, Read
    <3> QED  BY <1>4, <3>1, <3>2
  <2>4. SubSeq(whole, i + 1, i + Word) = MAGIC
    <3>1. PICK s : s = SubSeq(whole, i + 1, i + Word)  OBVIOUS
    <3>2. s = [k \in 1 .. Word |-> whole[i + k]]
      <4>1. PICK a, b : a = i + 1 /\ b = i + Word  OBVIOUS
      <4>2. /\ a \in 1 .. Len(whole) + 1 /\ b \in a - 1 .. Len(whole)
            /\ a <= b /\ b - a + 1 = Word /\ \A k \in 1 .. Word : a + k - 1 = i + k
        BY <1>2, <1>3, <2>2, <4>1
      <4>3. /\ s \in Seq(Bytes) /\ Len(s) = b - a + 1
            /\ \A k \in 1 .. b - a + 1 : s[k] = whole[a + k - 1]
        <5>1. a \in Int /\ b \in Int /\ a <= b /\ \A k \in a .. b : whole[k] \in Bytes
          BY <1>2, <4>2
        <5> QED  BY <3>1, <4>1, <5>1, SubSeqProperties
      <4> QED  BY <4>2, <4>3
    <3>3. MAGIC = [k \in 1 .. Word |-> MAGIC[k]]  BY MagicAssumption
    <3> QED  BY <2>3, <3>1, <3>2, <3>3
  <2> QED  BY <1>1, <2>2, <2>4 DEF Stray
<1> QED  BY <1>1, <1>2, <1>3, <1>5, <1>6

LEMMA CutIsSafe == IInv => LoadsOnlyWhole
<1> SUFFICES ASSUME IInv, Loaded
             PROVE  \/ Whole
                    \/ file = MAGIC /\ metas = << >> /\ columns = << >>
                    \/ Stray(flush(table))
  BY DEF LoadsOnlyWhole
<1>1. pc = "loaded" /\ table \in Tables /\ magic = MAGIC
  BY DEF IInv, Loaded, Cut, Passed
<1>2. PICK n \in 0 .. Len(flush(table)) : file = SubSeq(flush(table), 1, n)
  BY <1>1 DEF IInv, Cut
<1>3. PICK whole : whole = flush(table)  OBVIOUS
<1>4. whole \in Seq(Bytes) /\ Len(whole) \in Nat /\ Word \in Nat
      /\ Len(whole) > Word /\ SubSeq(whole, 1, Word) = MAGIC
  BY <1>1, <1>3, FlushIs, SizesAssumption
<1>5. CASE n = Len(whole)
  <2>1. file = whole  BY <1>2, <1>3, <1>4, <1>5
  <2> QED  BY <1>1, <1>3, <2>1 DEF Whole
<1>6. CASE n = Word
  <2>1. file = MAGIC  BY <1>2, <1>3, <1>4, <1>6
  <2>2. Len(file) = Word  BY <2>1, MagicIs
  <2> QED  BY <1>1, <2>1, <2>2 DEF IInv, Empty
<1> QED  BY <1>1, <1>2, <1>3, <1>5, <1>6, MagicAtEnd

LEMMA Invariance == Spec => []IInv
  BY InitCut, StepCut, PTL DEF Spec

\* load_segment takes no file that flush has not written to its end, except
\* the stub of MAGIC alone, as a table without columns, unless the table has the
\* bytes of MAGIC in a value or in its footer.
THEOREM OnlyWholeIsLoaded == Spec => []LoadsOnlyWhole
  BY Invariance, CutIsSafe, PTL

----------------------------------------------------------------------------
(* A whole file *)

Listed(s) == Len(s) \in Nat /\ s = [i \in 1 .. Len(s) |-> s[i]]

\* No column before column c is short: only then is it known where the stream
\* stands when column c is read.
Unbroken(c) == \A d \in 1 .. c - 1 : ~Short(d)
Alike(c) ==
  \A r \in 1 .. Len(columns[c]) :
    r <= Len(table.cols[c]) => columns[c][r] = table.cols[c][r]

Unread == pc \in {"flush", "magic", "threw", "footer"} => metas = << >> /\ columns = << >>

\* the footer, as far as it has been read
FooterKnown ==
  pc \in {"metas", "columns", "loaded"} =>
    /\ num_rows = Len(table.cols[1]) /\ num_cols = Len(table.cols)
    /\ Listed(metas) /\ Len(metas) <= num_cols
    /\ \A c \in 1 .. Len(metas) : metas[c] = Meta(table, c)

AtEntry ==
  pc = "metas" =>
    columns = << >> /\ fail = FALSE /\ pos = EntryAt(table, Len(metas) + 1)

\* the columns, as far as they have been read
ColumnsKnown ==
  pc \in {"columns", "loaded"} =>
    /\ Len(metas) = num_cols
    /\ Listed(columns) /\ Len(columns) \in 1 .. num_cols
    /\ \A c \in 1 .. Len(columns) : Listed(columns[c]) /\ Len(columns[c]) <= num_rows
    /\ \A c \in 1 .. Len(columns) - 1 : Len(columns[c]) = num_rows
    /\ \A c \in 1 .. Len(columns) : Unbroken(c) => Alike(c)
    /\ pc = "loaded" => Len(columns) = num_cols /\ Len(columns[num_cols]) = num_rows

AtValue ==
  pc \in {"columns", "loaded"} =>
    LET c == Len(columns)
    IN Unbroken(c) /\ Len(columns[c]) <= Len(table.cols[c]) =>
         fail = FALSE /\ pos = ValueAt(table, c, Len(columns[c]) + 1)

Known ==
  /\ Unread
  /\ Whole => FooterKnown /\ AtEntry /\ ColumnsKnown /\ AtValue

LEMMA ListedIsSeq ==
  ASSUME NEW s, Listed(s)
  PROVE  \E V : s \in Seq(V)
<1>1. PICK n : n = Len(s)  OBVIOUS
<1>2. n \in Nat /\ s = [i \in 1 .. n |-> s[i]]  BY <1>1 DEF Listed
<1>3. PICK V : V = {s[i] : i \in 1 .. n}  OBVIOUS
<1>4. s \in [1 .. n -> V]  BY <1>2, <1>3
<1> QED  BY <1>2, <1>4, FunctionIsSeq

LEMMA NoneListed == Listed(<< >>) /\ Len(<< >>) = 0
  BY DEF Listed

LEMMA AppendListed ==
  ASSUME NEW s, Listed(s), NEW v
  PROVE  /\ Listed(Append(s, v)) /\ Len(Append(s, v)) = Len(s) + 1
         /\ Append(s, v)[Len(s) + 1] = v
         /\ \A i \in 1 .. Len(s) : Append(s, v)[i] = s[i]
<1>1. PICK V : s \in Seq(V)  BY ListedIsSeq
<1>2. PICK W : W = V \cup {v}  OBVIOUS
<1>3. v \in W /\ s \in Seq(W)
  <2>1. Len(s) \in Nat /\ s \in [1 .. Len(s) -> V]  BY <1>1
  <2>2. s \in [1 .. Len(s) -> W]  BY <1>2, <2>1
  <2> QED  BY <1>2, <2>1, <2>2, FunctionIsSeq
<1>4. PICK t : t = Append(s, v)  OBVIOUS
<1>5. t \in Seq(W) /\ Len(t) = Len(s) + 1 /\ t[Len(s) + 1] = v
      /\ \A i \in 1 .. Len(s) : t[i] = s[i]
  BY <1>3, <1>4, AppendProperties
<1>6. t = [i \in 1 .. Len(t) |-> t[i]] /\ Len(t) \in Nat  BY <1>5
<1> QED  BY <1>4, <1>5, <1>6 DEF Listed

LEMMA InitKnown == Init => Known
<1> SUFFICES ASSUME Init  PROVE Known
  OBVIOUS
<1>1. Unread  BY DEF Init, Unread
<1>2. ~Whole  BY DEF Init, Whole
<1> QED  BY <1>1, <1>2 DEF Known

LEMMA KnownFooter ==
  ASSUME table \in Tables, Known, ReadFooter
  PROVE  Known'
<1>1. /\ pc = "footer" /\ pc' = "metas" /\ table' = table /\ file' = file
      /\ metas' = metas /\ columns' = columns
  BY DEF ReadFooter
<1>2. metas = << >> /\ columns = << >>  BY <1>1 DEF Known, Unread
<1>3. Unread'  BY <1>1 DEF Unread
<1>4. ASSUME Whole'  PROVE (FooterKnown /\ AtEntry /\ ColumnsKnown /\ AtValue)'
  <2>1. file = flush(table)  BY <1>1, <1>4 DEF Whole
  <2>2. /\ num_rows' = Len(table.cols[1]) /\ num_cols' = Len(table.cols)
        /\ pos' = EntryAt(table, 1) /\ fail' = FALSE
    BY <2>1, FooterRead
  <2>4. Len(table.cols) \in Nat  BY TableIs
  <2>5. FooterKnown'
    <3>1. Listed(metas) /\ Len(metas) = 0  BY <1>2, NoneListed
    <3>2. Len(metas) <= Len(table.cols) /\ 1 .. Len(metas) = {}  BY <2>4, <3>1
    <3> QED  BY <1>1, <2>2, <3>1, <3>2 DEF FooterKnown, Listed
  <2>6. AtEntry'
    <3>1. Len(metas) + 1 = 1  BY <1>2, NoneListed
    <3> QED  BY <1>1, <1>2, <2>2, <3>1 DEF AtEntry
  <2>7. ColumnsKnown' /\ AtValue'  BY <1>1 DEF ColumnsKnown, AtValue
  <2> QED  BY <2>5, <2>6, <2>7
<1> QED  BY <1>3, <1>4 DEF Known

LEMMA KnownMeta ==
  ASSUME table \in Tables, Known, ReadMeta
  PROVE  Known'
<1>1. /\ pc = "metas" /\ pc' = "metas" /\ table' = table /\ file' = file
      /\ num_rows' = num_rows /\ num_cols' = num_cols /\ columns' = columns
      /\ Len(metas) < num_cols
  BY DEF ReadMeta
<1>2. Unread'  BY <1>1 DEF Unread
<1>3. ASSUME Whole'  PROVE (FooterKnown /\ AtEntry /\ ColumnsKnown /\ AtValue)'
  <2>1. file = flush(table) /\ Whole  BY <1>1, <1>3 DEF Whole
  <2>2. FooterKnown /\ AtEntry  BY <2>1 DEF Known
  <2>3. /\ num_rows = Len(table.cols[1]) /\ num_cols = Len(table.cols)
        /\ Listed(metas) /\ \A c \in 1 .. Len(metas) : metas[c] = Meta(table, c)
        /\ columns = << >> /\ fail = FALSE /\ pos = EntryAt(table, Len(metas) + 1)
    BY <1>1, <2>2 DEF FooterKnown, AtEntry
  <2>4. PICK n : n = Len(metas)  OBVIOUS
  <2>5. n \in Nat /\ n + 1 \in 1 .. Len(table.types) /\ n + 1 <= num_cols
        /\ num_cols \in Nat
    <3>1. n \in Nat  BY <2>3, <2>4 DEF Listed
    <3>2. num_cols = Len(table.types) /\ Len(table.types) \in Nat  BY <2>3, TableIs
    <3> QED  BY <1>1, <2>4, <3>1, <3>2
  <2>6. PICK c : c = n + 1  OBVIOUS
  <2>7. /\ metas' = Append(metas, Meta(table, c))
        /\ pos' = EntryAt(table, c + 1) /\ fail' = FALSE
    BY <2>1, <2>3, <2>4, <2>5, <2>6, MetaRead
  <2>9. /\ Listed(metas') /\ Len(metas') = c /\ metas'[c] = Meta(table, c)
        /\ \A i \in 1 .. n : metas'[i] = metas[i]
    BY <2>3, <2>4, <2>6, <2>7, AppendListed
  <2>10. \A i \in 1 .. c : metas'[i] = Meta(table, i)
    <3> SUFFICES ASSUME NEW i \in 1 .. c  PROVE metas'[i] = Meta(table, i)
      OBVIOUS
    <3>1. i = c \/ i \in 1 .. n  BY <2>5, <2>6
    <3> QED  BY <2>3, <2>4, <2>9, <3>1
  <2>11. FooterKnown'
    BY <1>1, <2>3, <2>5, <2>6, <2>9, <2>10 DEF FooterKnown, Listed
  <2>12. AtEntry'  BY <1>1, <2>3, <2>7, <2>9 DEF AtEntry
  <2>13. ColumnsKnown' /\ AtValue'  BY <1>1 DEF ColumnsKnown, AtValue
  <2> QED  BY <2>11, <2>12, <2>13
<1> QED  BY <1>2, <1>3 DEF Known
\* Before column c is read, with no short one before it, all is well with the
\* stream: columns are read to their end.
LEMMA ReadToTheEnd ==
  ASSUME table \in Tables, FooterKnown, ColumnsKnown, AtValue, pc = "columns",
         Len(columns) < num_cols, Len(columns[Len(columns)]) = num_rows,
         Unbroken(Len(columns) + 1)
  PROVE  fail = FALSE
<1>1. PICK c : c = Len(columns)  OBVIOUS
<1>2. /\ c \in 1 .. num_cols /\ num_cols = Len(table.types) /\ num_cols \in Nat
      /\ num_rows = Len(table.cols[1])
  BY <1>1, TableIs DEF FooterKnown, ColumnsKnown
<1>3. Unbroken(c) /\ ~Short(c)
  <2>1. \A d \in 1 .. c + 1 - 1 : ~Short(d)  BY <1>1 DEF Unbroken
  <2>2. c \in 1 .. c + 1 - 1 /\ \A d \in 1 .. c - 1 : d \in 1 .. c + 1 - 1  BY <1>2
  <2> QED  BY <2>1, <2>2 DEF Unbroken
<1>4. Len(table.cols[c]) \in Nat /\ Len(table.cols[1]) \in Nat
  <2>1. c \in 1 .. Len(table.types) /\ 1 \in 1 .. Len(table.types)  BY <1>2, TableIs
  <2>2. /\ table.cols[c] \in Seq(ValueOf(table.types[c]))
        /\ table.cols[1] \in Seq(ValueOf(table.types[1]))
    BY <2>1, TableIs
  <2> QED  BY <2>2
<1>5. Len(columns[c]) <= Len(table.cols[c])
  <2>1. Len(table.cols[c]) >= Len(table.cols[1])  BY <1>3, <1>4 DEF Short
  <2>2. Len(columns[c]) = Len(table.cols[1])  BY <1>1, <1>2
  <2> QED  BY <1>4, <2>1, <2>2
<1> QED  BY <1>1, <1>3, <1>5 DEF AtValue

LEMMA KnownColumn ==
  ASSUME table \in Tables, Known, SeekColumn
  PROVE  Known'
<1>1. /\ pc \in {"metas", "columns"} /\ pc' = "columns" /\ table' = table /\ file' = file
      /\ num_rows' = num_rows /\ num_cols' = num_cols /\ metas' = metas
      /\ Len(metas) = num_cols /\ Len(columns) < num_cols
      /\ columns # << >> => Len(columns[Len(columns)]) = num_rows
      /\ Seek(metas[Len(columns) + 1].offset)
      /\ columns' = Append(columns, << >>)
  BY DEF SeekColumn, footers, Last
<1>2. Unread'  BY <1>1 DEF Unread
<1>3. ASSUME Whole'  PROVE (FooterKnown /\ AtEntry /\ ColumnsKnown /\ AtValue)'
  <2>1. file = flush(table) /\ Whole  BY <1>1, <1>3 DEF Whole
  <2>2. FooterKnown /\ AtEntry /\ ColumnsKnown /\ AtValue  BY <2>1 DEF Known
  <2>3. /\ num_rows = Len(table.cols[1]) /\ num_cols = Len(table.cols)
        /\ Listed(metas) /\ Len(metas) <= num_cols
        /\ \A c \in 1 .. Len(metas) : metas[c] = Meta(table, c)
    BY <1>1, <2>2 DEF FooterKnown
  <2>4. num_cols = Len(table.types) /\ num_cols \in Nat /\ num_cols # 0
    BY <2>3, TableIs
  <2>5. num_rows \in Nat
    <3>1. 1 \in 1 .. Len(table.types)  BY TableIs
    <3>2. table.cols[1] \in Seq(ValueOf(table.types[1]))  BY <3>1, TableIs
    <3> QED  BY <2>3, <3>2
  <2>6. PICK n : n = Len(columns)  OBVIOUS
  <2>7. /\ Listed(columns) /\ n \in Nat
        /\ \A c \in 1 .. n : /\ Listed(columns[c]) /\ Len(columns[c]) = num_rows
                             /\ Unbroken(c) => Alike(c)
    <3>1. CASE pc = "metas"
      <4>1. columns = << >>  BY <2>2, <3>1 DEF AtEntry
      <4>2. n = 0 /\ Listed(columns)  BY <2>6, <4>1, NoneListed
      <4> QED  BY <4>2
    <3>2. CASE pc = "columns"
      <4>1. /\ Listed(columns) /\ Len(columns) \in 1 .. num_cols
            /\ \A c \in 1 .. Len(columns) : Listed(columns[c])
            /\ \A c \in 1 .. Len(columns) - 1 : Len(columns[c]) = num_rows
            /\ \A c \in 1 .. Len(columns) : Unbroken(c) => Alike(c)
        BY <2>2, <3>2 DEF ColumnsKnown
      <4>2. n \in 1 .. num_cols /\ n \in Nat  BY <2>4, <2>6, <4>1
      <4>3. columns # << >>  BY <2>6, <4>2, NoneListed
      <4>4. Len(columns[n]) = num_rows  BY <1>1, <2>6, <4>3
      <4>5. \A c \in 1 .. n : c = n \/ c \in 1 .. n - 1  BY <4>2
      <4> QED  BY <2>6, <4>1, <4>2, <4>4, <4>5
    <3> QED  BY <1>1, <3>1, <3>2
  <2>8. PICK c : c = n + 1  OBVIOUS
  <2>9. c \in 1 .. num_cols /\ c - 1 = n /\ c \in Nat  BY <1>1, <2>4, <2>6, <2>7, <2>8
  <2>10. /\ Listed(columns') /\ Len(columns') = c /\ columns'[c] = << >>
         /\ \A i \in 1 .. n : columns'[i] = columns[i]
    BY <1>1, <2>6, <2>7, <2>8, AppendListed
  <2>11. \A i \in 1 .. c : i = c \/ i \in 1 .. n  BY <2>7, <2>8
  <2>12. FooterKnown'  BY <1>1, <2>3 DEF FooterKnown, Listed
  <2>13. AtEntry'  BY <1>1 DEF AtEntry
  <2>14. ColumnsKnown'
    <3>1. \A i \in 1 .. c : Listed(columns'[i]) /\ Len(columns'[i]) <= num_rows
      <4> SUFFICES ASSUME NEW i \in 1 .. c
                   PROVE  Listed(columns'[i]) /\ Len(columns'[i]) <= num_rows
        OBVIOUS
      <4>1. CASE i = c  BY <2>5, <2>10, <4>1, NoneListed
      <4>2. CASE i \in 1 .. n  BY <2>5, <2>7, <2>10, <4>2
      <4> QED  BY <2>11, <4>1, <4>2
    <3>2. \A i \in 1 .. c - 1 : Len(columns'[i]) = num_rows
      BY <2>7, <2>9, <2>10
    <3>3. \A i \in 1 .. c : Unbroken(i)' => Alike(i)'
      <4> SUFFICES ASSUME NEW i \in 1 .. c, Unbroken(i)'  PROVE Alike(i)'
        OBVIOUS
      <4>1. CASE i = c
        <5>1. Len(columns'[i]) = 0  BY <2>10, <4>1, NoneListed
        <5>2. 1 .. Len(columns'[i]) = {}  BY <5>1
        <5> QED  BY <5>2 DEF Alike
      <4>2. CASE i \in 1 .. n
        <5>1. Unbroken(i)  BY <1>1 DEF Unbroken, Short
        <5>2. Alike(i)  BY <2>7, <4>2, <5>1
        <5> QED  BY <1>1, <2>10, <4>2, <5>2 DEF Alike
      <4> QED  BY <2>11, <4>1, <4>2
    <3>4. Listed(columns)' /\ Len(columns') \in 1 .. num_cols /\ Len(metas') = num_cols'
      BY <1>1, <2>9, <2>10 DEF Listed
    <3>5. \A i \in 1 .. c : Listed(columns[i])'  BY <3>1 DEF Listed
    <3> QED  BY <1>1, <2>10, <3>1, <3>2, <3>3, <3>4, <3>5 DEF ColumnsKnown
  <2>15. AtValue'
    <3> SUFFICES ASSUME Unbroken(c)'
                 PROVE  fail' = FALSE /\ pos' = ValueAt(table, c, Len(columns'[c]) + 1)
      BY <1>1, <2>10 DEF AtValue
    <3>1. Unbroken(c)  BY <1>1 DEF Unbroken, Short
    <3>2. fail = FALSE
      <4>1. CASE pc = "metas"  BY <2>2, <4>1 DEF AtEntry
      <4>2. CASE pc = "columns"
        <5>1. Len(columns[n]) = num_rows
          <6>1. n \in 1 .. n
            <7>1. Len(columns) \in 1 .. num_cols  BY <2>2, <4>2 DEF ColumnsKnown
            <7> QED  BY <2>4, <2>6, <7>1
          <6> QED  BY <2>7, <6>1
        <5> QED  BY <1>1, <2>2, <2>6, <2>8, <3>1, <4>2, <5>1, ReadToTheEnd
      <4> QED  BY <1>1, <4>1, <4>2
    <3>3. metas[c].offset = offset(table, c)
      <4>1. c \in 1 .. Len(metas)  BY <1>1, <2>9
      <4>2. metas[c] = Meta(table, c)  BY <2>3, <4>1
      <4> QED  BY <4>2 DEF Meta
    <3>4. offset(table, c) \in Nat /\ ValueAt(table, c, 1) = offset(table, c)
      BY <2>1, <2>4, <2>9, ColumnLies, ValuesEnd
    <3>5. pos' = offset(table, c) /\ fail' = (offset(table, c) < 0)
      BY <1>1, <2>6, <2>8, <3>2, <3>3 DEF Seek
    <3>6. (offset(table, c) < 0) = FALSE  BY <3>4
    <3>7. Len(columns'[c]) + 1 = 1  BY <2>10, NoneListed
    <3> QED  BY <3>4, <3>5, <3>6, <3>7
  <2> QED  BY <2>12, <2>13, <2>14, <2>15
<1> QED  BY <1>2, <1>3 DEF Known
LEMMA KnownValue ==
  ASSUME table \in Tables, Known, ReadValue
  PROVE  Known'
<1>1. /\ pc = "columns" /\ pc' = "columns" /\ table' = table /\ file' = file
      /\ num_rows' = num_rows /\ num_cols' = num_cols /\ metas' = metas
      /\ Len(columns[Len(columns)]) < num_rows
  BY DEF ReadValue, footers, Last
<1>2. PICK v : columns' = [columns EXCEPT ![Len(columns)] = Append(@, v)]
  BY DEF ReadValue
<1>3. Unread'  BY <1>1 DEF Unread
<1>4. ASSUME Whole'  PROVE (FooterKnown /\ AtEntry /\ ColumnsKnown /\ AtValue)'
  <2>1. file = flush(table) /\ Whole  BY <1>1, <1>4 DEF Whole
  <2>2. FooterKnown /\ AtEntry /\ ColumnsKnown /\ AtValue  BY <2>1 DEF Known
  <2>3. /\ num_rows = Len(table.cols[1]) /\ num_cols = Len(table.cols)
        /\ Listed(metas) /\ Len(metas) <= num_cols
        /\ \A i \in 1 .. Len(metas) : metas[i] = Meta(table, i)
    BY <1>1, <2>2 DEF FooterKnown
  <2>4. num_cols = Len(table.types) /\ num_cols \in Nat  BY <2>3, TableIs
  <2>5. num_rows \in Nat
    <3>1. 1 \in 1 .. Len(table.types)  BY TableIs
    <3>2. table.cols[1] \in Seq(ValueOf(table.types[1]))  BY <3>1, TableIs
    <3> QED  BY <2>3, <3>2
  <2>6. PICK c : c = Len(columns)  OBVIOUS
  <2>7. /\ Len(metas) = num_cols /\ Listed(columns) /\ c \in 1 .. num_cols
        /\ \A i \in 1 .. c : Listed(columns[i]) /\ Len(columns[i]) <= num_rows
        /\ \A i \in 1 .. c - 1 : Len(columns[i]) = num_rows
        /\ \A i \in 1 .. c : Unbroken(i) => Alike(i)
    BY <1>1, <2>2, <2>6 DEF ColumnsKnown
  <2>8. c \in Nat /\ c \in 1 .. c /\ \A i \in 1 .. c : i = c \/ i \in 1 .. c - 1
    BY <2>4, <2>7
  <2>9. PICK k : k = Len(columns[c])  OBVIOUS
  <2>10. k \in Nat /\ k < num_rows /\ k + 1 <= num_rows /\ k + 1 \in Nat
    <3>1. k \in Nat  BY <2>7, <2>8, <2>9 DEF Listed
    <3> QED  BY <1>1, <2>5, <2>6, <2>9, <3>1
  <2>11. /\ Listed(columns') /\ Len(columns') = c
         /\ columns'[c] = Append(columns[c], v)
         /\ \A i \in 1 .. c - 1 : columns'[i] = columns[i]
    <3>1. columns = [i \in 1 .. c |-> columns[i]]  BY <2>6, <2>7 DEF Listed
    <3>2. DOMAIN columns = 1 .. c  BY <3>1
    <3>3. columns' = [i \in 1 .. c |-> IF i = c THEN Append(columns[c], v) ELSE columns[i]]
      BY <1>2, <2>6, <3>2
    <3>4. PICK new : new = columns'  OBVIOUS
    <3>5. DOMAIN new = 1 .. c /\ new = [i \in 1 .. c |-> new[i]]  BY <3>3, <3>4
    <3>6. Len(new) = c
      <4>1. PICK V : V = {new[i] : i \in 1 .. c}  OBVIOUS
      <4>2. new \in [1 .. c -> V]  BY <3>5, <4>1
      <4> QED  BY <2>8, <4>2, FunctionIsSeq
    <3>7. Listed(new)  BY <2>8, <3>5, <3>6 DEF Listed
    <3>8. columns'[c] = Append(columns[c], v)
          /\ \A i \in 1 .. c - 1 : columns'[i] = columns[i]
      <4>1. \A i \in 1 .. c - 1 : i \in 1 .. c /\ i # c  BY <2>8
      <4> QED  BY <2>8, <3>3, <4>1
    <3> QED  BY <3>4, <3>6, <3>7, <3>8
  <2>12. /\ Listed(columns'[c]) /\ Len(columns'[c]) = k + 1 /\ columns'[c][k + 1] = v
         /\ \A r \in 1 .. k : columns'[c][r] = columns[c][r]
    BY <2>7, <2>8, <2>9, <2>11, AppendListed
  <2>13. Len(table.cols[c]) \in Nat
    <3>1. table.cols[c] \in Seq(ValueOf(table.types[c]))  BY <2>4, <2>7, TableIs
    <3> QED  BY <3>1
  <2>14. ASSUME Unbroken(c), k + 1 <= Len(table.cols[c])
         PROVE  /\ columns'[c][k + 1] = table.cols[c][k + 1]
                /\ fail' = FALSE /\ pos' = ValueAt(table, c, k + 2)
    <3>1. k <= Len(table.cols[c]) /\ k + 1 \in 1 .. Len(table.cols[c]) /\ k + 1 + 1 = k + 2
      BY <2>10, <2>13, <2>14
    <3>2. fail = FALSE /\ pos = ValueAt(table, c, k + 1)
      BY <1>1, <2>2, <2>6, <2>9, <2>14, <3>1 DEF AtValue
    <3>3. metas[c].type = table.types[c]
      <4>1. metas[c] = Meta(table, c)  BY <2>3, <2>7
      <4> QED  BY <4>1 DEF Meta
    <3>4. PICK r : r = k + 1  OBVIOUS
    <3>5. /\ columns' = [columns EXCEPT ![c] = Append(@, table.cols[c][r])]
          /\ pos' = ValueAt(table, c, r + 1) /\ fail' = FALSE
      <4>1. c \in 1 .. Len(table.types) /\ r \in 1 .. Len(table.cols[c])
        BY <2>4, <2>7, <3>1, <3>4
      <4> QED  BY <2>1, <2>6, <3>2, <3>3, <3>4, <4>1, ValueRead
    <3>6. columns'[c] = Append(columns[c], table.cols[c][r])
      <4>1. c \in DOMAIN columns
        <5>1. columns = [i \in 1 .. c |-> columns[i]]  BY <2>6, <2>7 DEF Listed
        <5> QED  BY <2>8, <5>1
      <4> QED  BY <3>5, <4>1
    <3>7. Append(columns[c], table.cols[c][r])[r] = table.cols[c][r]
      BY <2>7, <2>8, <2>9, <3>4, AppendListed
    <3> QED  BY <3>1, <3>4, <3>5, <3>6, <3>7
  <2>15. FooterKnown'  BY <1>1, <2>3 DEF FooterKnown, Listed
  <2>16. AtEntry'  BY <1>1 DEF AtEntry
  <2>17. ColumnsKnown'
    <3>1. \A i \in 1 .. c : Listed(columns'[i]) /\ Len(columns'[i]) <= num_rows
      <4> SUFFICES ASSUME NEW i \in 1 .. c
                   PROVE  Listed(columns'[i]) /\ Len(columns'[i]) <= num_rows
        OBVIOUS
      <4>1. CASE i = c  BY <2>10, <2>12, <4>1
      <4>2. CASE i \in 1 .. c - 1  BY <2>7, <2>11, <4>2
      <4> QED  BY <2>8, <4>1, <4>2
    <3>2. \A i \in 1 .. c - 1 : Len(columns'[i]) = num_rows  BY <2>7, <2>11
    <3>3. \A i \in 1 .. c : Unbroken(i)' => Alike(i)'
      <4> SUFFICES ASSUME NEW i \in 1 .. c, Unbroken(i)'  PROVE Alike(i)'
        OBVIOUS
      <4>1. Unbroken(i)  BY <1>1 DEF Unbroken, Short
      <4>2. Alike(i)  BY <2>7, <4>1
      <4>3. CASE i = c
        <5> SUFFICES ASSUME NEW r \in 1 .. k + 1, r <= Len(table.cols[c])
                     PROVE  columns'[c][r] = table.cols[c][r]
          BY <1>1, <2>12, <4>3 DEF Alike
        <5>1. CASE r = k + 1  BY <2>14, <4>1, <4>3, <5>1
        <5>2. CASE r \in 1 .. k  BY <2>9, <2>12, <4>2, <4>3, <5>2 DEF Alike
        <5> QED  BY <2>10, <5>1, <5>2
      <4>4. CASE i \in 1 .. c - 1  BY <1>1, <2>11, <4>2, <4>4 DEF Alike
      <4> QED  BY <2>8, <4>3, <4>4
    <3>4. Listed(columns)' /\ Len(columns') \in 1 .. num_cols /\ Len(metas') = num_cols'
      BY <1>1, <2>7, <2>11 DEF Listed
    <3>5. \A i \in 1 .. c : Listed(columns[i])'  BY <3>1 DEF Listed
    <3> QED  BY <1>1, <2>11, <3>1, <3>2, <3>3, <3>4, <3>5 DEF ColumnsKnown
  <2>18. AtValue'
    <3> SUFFICES ASSUME Unbroken(c)', k + 1 <= Len(table.cols[c])
                 PROVE  fail' = FALSE /\ pos' = ValueAt(table, c, k + 1 + 1)
      BY <1>1, <2>11, <2>12 DEF AtValue
    <3>1. Unbroken(c)  BY <1>1 DEF Unbroken, Short
    <3>2. k + 1 + 1 = k + 2  BY <2>10
    <3> QED  BY <2>14, <3>1, <3>2
  <2> QED  BY <2>15, <2>16, <2>17, <2>18
<1> QED  BY <1>3, <1>4 DEF Known

LEMMA KnownReturn ==
  ASSUME table \in Tables, Known, Return
  PROVE  Known'
<1>1. /\ pc \in {"metas", "columns"} /\ pc' = "loaded" /\ table' = table /\ file' = file
      /\ num_rows' = num_rows /\ num_cols' = num_cols /\ metas' = metas
      /\ columns' = columns /\ pos' = pos /\ fail' = fail
      /\ Len(metas) = num_cols /\ Len(columns) = num_cols
      /\ columns # << >> => Len(columns[Len(columns)]) = num_rows
  BY DEF Return, footers, stream, Last
<1>2. Unread'  BY <1>1 DEF Unread
<1>3. ASSUME Whole'  PROVE (FooterKnown /\ AtEntry /\ ColumnsKnown /\ AtValue)'
  <2>1. Whole  BY <1>1, <1>3 DEF Whole
  <2>2. FooterKnown /\ AtEntry /\ ColumnsKnown /\ AtValue  BY <2>1 DEF Known
  <2>3. num_cols \in Nat /\ num_cols # 0  BY <1>1, <2>2, TableIs DEF FooterKnown
  <2>4. columns # << >>  BY <1>1, <2>3, NoneListed
  <2>5. pc = "columns"
    <3>1. pc # "metas"  BY <2>2, <2>4 DEF AtEntry
    <3> QED  BY <1>1, <3>1
  <2>6. FooterKnown'  BY <1>1, <2>2, <2>5 DEF FooterKnown, Listed
  <2>7. AtEntry'  BY <1>1 DEF AtEntry
  <2>8. ColumnsKnown'
    BY <1>1, <2>2, <2>4, <2>5 DEF ColumnsKnown, Listed, Unbroken, Alike, Short
  <2>9. AtValue'
    BY <1>1, <2>2, <2>5 DEF AtValue, Unbroken, Short
  <2> QED  BY <2>6, <2>7, <2>8, <2>9
<1> QED  BY <1>2, <1>3 DEF Known

LEMMA StepKnown == IInv /\ Known /\ [Next]_vars => Known'
<1> SUFFICES ASSUME IInv, Known, [Next]_vars  PROVE Known'
  OBVIOUS
<1>1. table \in Tables  BY DEF IInv, Cut
<1>2. CASE Flush
  <2>1. /\ pc = "flush" /\ pc' = "magic" /\ metas' = metas /\ columns' = columns
    BY <1>2 DEF Flush, footers
  <2>2. metas = << >> /\ columns = << >>  BY <2>1 DEF Known, Unread
  <2>3. Unread'  BY <2>1, <2>2 DEF Unread
  <2>4. (FooterKnown /\ AtEntry /\ ColumnsKnown /\ AtValue)'
    BY <2>1 DEF FooterKnown, AtEntry, ColumnsKnown, AtValue
  <2> QED  BY <2>3, <2>4 DEF Known
<1>3. CASE CheckMagic
  <2>1. /\ pc = "magic" /\ pc' \in {"footer", "threw"} /\ metas' = metas
        /\ columns' = columns
    BY <1>3 DEF CheckMagic, footers
  <2>2. metas = << >> /\ columns = << >>  BY <2>1 DEF Known, Unread
  <2>3. Unread'  BY <2>1, <2>2 DEF Unread
  <2>4. (FooterKnown /\ AtEntry /\ ColumnsKnown /\ AtValue)'
    BY <2>1 DEF FooterKnown, AtEntry, ColumnsKnown, AtValue
  <2> QED  BY <2>3, <2>4 DEF Known
<1>4. CASE UNCHANGED vars
  <2>1. /\ table' = table /\ file' = file /\ pos' = pos /\ fail' = fail /\ pc' = pc
        /\ num_rows' = num_rows /\ num_cols' = num_cols /\ metas' = metas
        /\ columns' = columns
    BY <1>4 DEF vars, stream, footers
  <2>2. Whole' = Whole  BY <2>1 DEF Whole
  <2>3. Unread' = Unread  BY <2>1 DEF Unread
  <2>4. FooterKnown => FooterKnown'  BY <2>1 DEF FooterKnown, Listed
  <2>5. AtEntry => AtEntry'  BY <2>1 DEF AtEntry
  <2>6. ColumnsKnown => ColumnsKnown'
    BY <2>1 DEF ColumnsKnown, Listed, Unbroken, Alike, Short
  <2>7. AtValue => AtValue'  BY <2>1 DEF AtValue, Unbroken, Short
  <2> QED  BY <2>2, <2>3, <2>4, <2>5, <2>6, <2>7 DEF Known
<1> QED
  BY <1>1, <1>2, <1>3, <1>4, KnownFooter, KnownMeta, KnownColumn, KnownValue, KnownReturn
  DEF Next, Load

LEMMA KnownAlways == Spec => [](IInv /\ Known)
<1>1. Init => IInv /\ Known  BY InitCut, InitKnown
<1>2. IInv /\ Known /\ [Next]_vars => (IInv /\ Known)'  BY StepCut, StepKnown
<1> QED  BY <1>1, <1>2, PTL DEF Spec
LEMMA LengthsAre ==
  ASSUME NEW t \in Tables, NEW c \in 1 .. Len(t.types)
  PROVE  /\ t.cols[c] \in Seq(ValueOf(t.types[c])) /\ Len(t.cols[c]) \in Nat
         /\ Len(t.cols[1]) \in Nat /\ Len(t.cols[c]) <= Len(t.cols[1])
<1>1. /\ t.cols[c] \in Seq(ValueOf(t.types[c]))
      /\ t.cols[1] \in Seq(ValueOf(t.types[1]))
      /\ c \in DOMAIN t.cols
  BY TableIs
<1>2. Len(t.cols[c]) <= Len(t.cols[1])  BY <1>1, FitsAssumption
<1> QED  BY <1>1, <1>2

LEMMA KnownInExtent == IInv /\ Known => InExtent
<1> SUFFICES ASSUME IInv, Known, Whole, columns # << >>, \A c \in DOMAIN table.cols : ~Short(c)
             PROVE  /\ ~fail
                    /\ Len(Last(columns)) = num_rows =>
                         pos = metas[Len(columns)].offset + metas[Len(columns)].size
  BY DEF InExtent
<1>1. table \in Tables /\ file = flush(table) /\ pc \in Places
  BY DEF IInv, Cut, Whole
<1>2. FooterKnown /\ AtEntry /\ ColumnsKnown /\ AtValue /\ Unread  BY DEF Known
<1>3. pc \in {"columns", "loaded"}  BY <1>1, <1>2 DEF Places, Unread, AtEntry
<1>4. PICK c : c = Len(columns)  OBVIOUS
<1>5. /\ num_rows = Len(table.cols[1]) /\ num_cols = Len(table.types)
      /\ c \in 1 .. num_cols /\ Len(columns[c]) <= num_rows /\ num_cols \in Nat
      /\ metas[c] = Meta(table, c)
  <2>1. num_cols = Len(table.types) /\ num_cols \in Nat /\ num_rows = Len(table.cols[1])
    BY <1>1, <1>2, <1>3, TableIs DEF FooterKnown
  <2>2. Len(metas) = num_cols /\ c \in 1 .. num_cols
    BY <1>2, <1>3, <1>4 DEF ColumnsKnown
  <2>3. c \in 1 .. c  BY <2>1, <2>2
  <2>4. Len(columns[c]) <= num_rows  BY <1>2, <1>3, <1>4, <2>3 DEF ColumnsKnown
  <2>5. metas[c] = Meta(table, c)  BY <1>2, <1>3, <2>2 DEF FooterKnown
  <2> QED  BY <2>1, <2>2, <2>4, <2>5
<1>6. \A d \in 1 .. c : d \in DOMAIN table.cols /\ ~Short(d)
  <2>1. DOMAIN table.cols = 1 .. num_cols  BY <1>1, <1>5, TableIs
  <2>2. \A d \in 1 .. c : d \in 1 .. num_cols  BY <1>5
  <2> QED  BY <2>1, <2>2
<1>7. Unbroken(c)
  <2>1. \A d \in 1 .. c - 1 : d \in 1 .. c  BY <1>5
  <2> QED  BY <1>6, <2>1 DEF Unbroken
<1>8. Len(table.cols[c]) = num_rows
  <2>1. Len(table.cols[c]) \in Nat /\ Len(table.cols[1]) \in Nat
        /\ Len(table.cols[c]) <= Len(table.cols[1])
    BY <1>1, <1>5, LengthsAre
  <2>2. ~Short(c)
    <3>1. c \in 1 .. c  BY <1>5
    <3> QED  BY <1>6, <3>1
  <2>3. ~(Len(table.cols[c]) < Len(table.cols[1]))  BY <2>2 DEF Short
  <2> QED  BY <1>5, <2>1, <2>3
<1>9. fail = FALSE /\ pos = ValueAt(table, c, Len(columns[c]) + 1)
  BY <1>2, <1>3, <1>4, <1>5, <1>7, <1>8 DEF AtValue
<1>10. ASSUME Len(columns[c]) = num_rows
       PROVE  pos = metas[c].offset + metas[c].size
  <2>1. pos = ValueAt(table, c, Len(table.cols[c]) + 1)  BY <1>8, <1>9, <1>10
  <2>2. pos = offset(table, c) + Len(write_column(table, c))
    BY <1>1, <1>5, <2>1, ValuesEnd
  <2>3. metas[c].offset = offset(table, c) /\ metas[c].size = Len(write_column(table, c))
    BY <1>5 DEF Meta
  <2> QED  BY <2>2, <2>3
<1> QED  BY <1>4, <1>9, <1>10 DEF Last

\* Sequences that are alike as far as the shorter one goes.
LEMMA PrefixIs ==
  ASSUME NEW V, NEW s \in Seq(V), NEW W, NEW t \in Seq(W), Len(s) <= Len(t),
         \A i \in 1 .. Len(s) : t[i] = s[i]
  PROVE  IsPrefix(s, t)
<1>1. PICK n : n = Len(s)  OBVIOUS
<1>2. n \in Nat /\ \A i \in 1 .. n : i \in 1 .. Len(s) /\ i \in 1 .. Len(t)  BY <1>1
<1>3. SubSeq(s, 1, n) = [i \in 1 .. n |-> s[i]]  BY <1>1, <1>2
<1>4. SubSeq(t, 1, n) = [i \in 1 .. n |-> t[i]]  BY <1>1, <1>2
<1>5. SubSeq(s, 1, n) = SubSeq(t, 1, n)  BY <1>1, <1>3, <1>4
<1> QED  BY <1>1, <1>5 DEF IsPrefix

LEMMA NameComesBack ==
  ASSUME NEW name \in Seq(Bytes)
  PROVE  /\ IsPrefix(NameBytes(name), name)
         /\ Len(name) < Base => NameBytes(name) = name
<1>1. PICK k : k = name_len(name)  OBVIOUS
<1>2. k \in Nat /\ k <= Len(name) /\ NameBytes(name) = SubSeq(name, 1, k)
      /\ NameBytes(name) \in Seq(Bytes) /\ Len(NameBytes(name)) = k
  <2>1. Bytes \subseteq Nat  BY SizesAssumption DEF Bytes
  <2> QED  BY <1>1, <2>1, NameIs DEF NameBytes
<1>3. SubSeq(name, 1, k) = [i \in 1 .. k |-> name[i]]
  <2>1. Len(name) \in Nat /\ \A i \in 1 .. k : i \in 1 .. Len(name)  BY <1>2
  <2> QED  BY <1>2, <2>1
<1>4. \A i \in 1 .. k : name[i] = NameBytes(name)[i]  BY <1>2, <1>3
<1>5. IsPrefix(NameBytes(name), name)  BY <1>2, <1>4, PrefixIs
<1>6. ASSUME Len(name) < Base  PROVE NameBytes(name) = name
  <2>1. k = Len(name)
    <3>1. Len(name) \in Nat  OBVIOUS
    <3> QED  BY <1>1, <1>6, <3>1, SizesAssumption DEF name_len
  <2> QED  BY <1>2, <1>3, <2>1
<1> QED  BY <1>5, <1>6

LEMMA KnownComesBack == IInv /\ Known => ComesBack
<1> SUFFICES ASSUME IInv, Known, Loaded, Whole
             PROVE  /\ [c \in DOMAIN metas |-> metas[c].type] = table.types
                    /\ \A c \in DOMAIN metas :
                         /\ IsPrefix(metas[c].name, table.names[c])
                         /\ Len(table.names[c]) < Base => metas[c].name = table.names[c]
                    /\ \A c \in DOMAIN table.cols :
                         /\ Len(columns[c]) = Len(table.cols[1])
                         /\ ~(\E d \in 1 .. c - 1 : Short(d)) =>
                              IsPrefix(table.cols[c], columns[c])
  BY DEF ComesBack
<1>1. table \in Tables /\ file = flush(table) /\ pc = "loaded"
  BY DEF IInv, Cut, Whole, Loaded
<1>2. FooterKnown /\ ColumnsKnown  BY DEF Known
<1>3. PICK n : n = Len(table.types)  OBVIOUS
<1>4. /\ n \in Nat /\ num_cols = n /\ num_rows = Len(table.cols[1])
      /\ Listed(metas) /\ Len(metas) = n
      /\ \A c \in 1 .. n : metas[c] = Meta(table, c)
      /\ DOMAIN table.cols = 1 .. n
  BY <1>1, <1>2, <1>3, TableIs DEF FooterKnown, ColumnsKnown
<1>5. DOMAIN metas = 1 .. n
  <2>1. metas = [c \in 1 .. n |-> metas[c]]  BY <1>4 DEF Listed
  <2> QED  BY <2>1
<1>6. [c \in DOMAIN metas |-> metas[c].type] = table.types
  <2>1. \A c \in 1 .. n : metas[c].type = table.types[c]  BY <1>4 DEF Meta
  <2>2. table.types = [c \in 1 .. n |-> table.types[c]]
    <3>1. PICK types : types = table.types  OBVIOUS
    <3>2. types \in Seq(0 .. 3) /\ Len(types) = n  BY <1>1, <1>3, <3>1, TableIs
    <3>3. types = [c \in 1 .. n |-> types[c]]  BY <3>2
    <3> QED  BY <3>1, <3>3
  <2> QED  BY <1>5, <2>1, <2>2
<1>7. ASSUME NEW c \in DOMAIN metas
      PROVE  /\ IsPrefix(metas[c].name, table.names[c])
             /\ Len(table.names[c]) < Base => metas[c].name = table.names[c]
  <2>1. c \in 1 .. n /\ metas[c].name = NameBytes(table.names[c])
    BY <1>4, <1>5 DEF Meta
  <2>2. table.names[c] \in Seq(Bytes)  BY <1>1, <1>3, <2>1, TableIs
  <2> QED  BY <2>1, <2>2, NameComesBack
<1>8. /\ Len(columns) = n /\ Len(columns[n]) = num_rows
      /\ \A c \in 1 .. n : Listed(columns[c]) /\ (Unbroken(c) => Alike(c))
      /\ \A c \in 1 .. n - 1 : Len(columns[c]) = num_rows
  BY <1>1, <1>2, <1>4 DEF ColumnsKnown
<1>9. ASSUME NEW c \in DOMAIN table.cols
      PROVE  /\ Len(columns[c]) = Len(table.cols[1])
             /\ ~(\E d \in 1 .. c - 1 : Short(d)) => IsPrefix(table.cols[c], columns[c])
  <2>1. c \in 1 .. n  BY <1>4
  <2>2. Len(columns[c]) = Len(table.cols[1])
    <3>1. c = n \/ c \in 1 .. n - 1  BY <1>4, <2>1
    <3> QED  BY <1>4, <1>8, <3>1
  <2>3. ASSUME ~(\E d \in 1 .. c - 1 : Short(d))
        PROVE  IsPrefix(table.cols[c], columns[c])
    <3>1. Alike(c)
      <4>1. Unbroken(c)  BY <2>3 DEF Unbroken
      <4> QED  BY <1>8, <2>1, <4>1
    <3>2. PICK V : columns[c] \in Seq(V)
      <4>1. Listed(columns[c])  BY <1>8, <2>1
      <4> QED  BY <4>1, ListedIsSeq
    <3>3. /\ table.cols[c] \in Seq(ValueOf(table.types[c]))
          /\ Len(table.cols[c]) \in Nat /\ Len(table.cols[1]) \in Nat
          /\ Len(table.cols[c]) <= Len(columns[c])
      BY <1>1, <1>3, <2>1, <2>2, LengthsAre
    <3>4. \A r \in 1 .. Len(table.cols[c]) : columns[c][r] = table.cols[c][r]
      <4>1. \A r \in 1 .. Len(table.cols[c]) :
              r \in 1 .. Len(columns[c]) /\ r <= Len(table.cols[c])
        BY <2>2, <3>3
      <4> QED  BY <3>1, <4>1 DEF Alike
    <3> QED  BY <3>2, <3>3, <3>4, PrefixIs
  <2> QED  BY <2>2, <2>3
<1> QED  BY <1>6, <1>7, <1>9

\* A segment that was written to its end comes back as the table it was written
\* from, column by column up to the first short one.
THEOREM WholeComesBack == Spec => []ComesBack
  BY KnownAlways, KnownComesBack, PTL

\* load_segment reads of a column without short ones what its offset and size
\* say, and the stream does not fail.
THEOREM ReadsItsExtent == Spec => []InExtent
  BY KnownAlways, KnownInExtent, PTL
=============================================================================
