----------------------------- MODULE RelayProofs -----------------------------
(***************************************************************************)
(* Theorems about Relay, for any statements, clients and options.          *)
(***************************************************************************)
EXTENDS Relay, WellFoundedInduction, SequenceTheorems, TLAPS

-----------------------------------------------------------------------------
(***************************************************************************)
(* FlattenSeq.  A function by recursion is what its definition says because *)
(* partial solutions exist up to every length.                             *)
(***************************************************************************)
\* A set of numbers that is not empty has a least one.
LEMMA LeastNumber ==
  ASSUME NEW T \in SUBSET Nat, T # {}
  PROVE  \E m \in T : \A k \in T : m <= k
<1>1. PICK m \in T : \A k \in T : <<k, m>> \notin OpToRel(<, Nat)
  BY WFMin, NatLessThanWellFounded, Zenon
<1>2. \A k \in T : ~(k < m)
  BY <1>1, Zenon DEF OpToRel
<1>3. QED
  BY <1>2

\* f[i] joins the first i members of seqs.
Joins(f, seqs, m) ==
    f = [i \in 1..m |-> IF i = 1 THEN seqs[i] ELSE f[i - 1] \o seqs[i]]

\* A joining function meets the definition of FlattenSeq up to the next element.
LEMMA JoinsStep ==
  ASSUME NEW seqs, NEW m, NEW f, Joins(f, seqs, m)
  PROVE  \A i \in 1..m : f[i] = IF i = 1 THEN seqs[i] ELSE f[i - 1] \o seqs[i]
<1> DEFINE e(h, i) == IF i = 1 THEN seqs[i] ELSE h[i - 1] \o seqs[i]
<1>1. f = [i \in 1..m |-> e(f, i)]
  BY Zenon DEF Joins
<1> HIDE DEF e
<1>2. \A i \in 1..m : f[i] = e(f, i)
  BY <1>1
<1>3. QED
  BY <1>2 DEF e

\* There is such a function for every sequence of sequences: else one that is
\* shortest without it.
LEMMA JoinsExist ==
  ASSUME NEW seqs, NEW m \in Nat
  PROVE  \E f : Joins(f, seqs, m)
<1> DEFINE T == {k \in Nat : ~ \E f : Joins(f, seqs, k)}
<1>1. SUFFICES ASSUME T # {} PROVE FALSE
  OBVIOUS
<1>2. PICK k \in T : \A j \in T : k <= j
  <2>1. T \in SUBSET Nat
    OBVIOUS
  <2>2. QED
    BY <1>1, <2>1, LeastNumber
<1>3. k # 0
  <2>1. Joins([i \in 1..0 |-> <<>>], seqs, 0)
    BY DEF Joins
  <2>2. QED
    BY <2>1
<1>4. PICK f : Joins(f, seqs, k - 1)
  <2>1. k - 1 \in Nat /\ ~(k <= k - 1)
    BY <1>3
  <2>2. QED
    BY <1>2, <2>1
<1> DEFINE e == IF k = 1 THEN seqs[k] ELSE f[k - 1] \o seqs[k]
           g == [i \in 1..k |-> IF i = k THEN e ELSE f[i]]
<1>5. \A i \in 1..k : g[i] = (IF i = 1 THEN seqs[i] ELSE g[i - 1] \o seqs[i])
  <2> TAKE i \in 1..k
  <2>1. CASE i = k
    BY <2>1, <1>3
  <2>2. CASE i # k
    <3>1. i \in 1..(k - 1) /\ g[i] = f[i] /\ (i # 1 => i - 1 \in 1..k /\ i - 1 # k)
      BY <2>2
    <3>2. f[i] = IF i = 1 THEN seqs[i] ELSE f[i - 1] \o seqs[i]
      BY <3>1, <1>4 DEF Joins
    <3>3. i # 1 => g[i - 1] = f[i - 1]
      BY <3>1
    <3>4. QED
      BY <3>1, <3>2, <3>3
  <2>3. QED
    BY <2>1, <2>2
<1>6. Joins(g, seqs, k)
  <2> HIDE DEF e
  <2>1. g = [i \in 1..k |-> g[i]]
    OBVIOUS
  <2> HIDE DEF g
  <2>2. QED
    BY <1>5, <2>1 DEF Joins
<1>7. QED
  BY <1>6

\* Joining up to a position depends on the members up to it only.
LEMMA JoinsAgree ==
  ASSUME NEW seqs, NEW more, NEW m \in Nat, NEW n \in Nat, m <= n, NEW f, NEW g,
         Joins(f, seqs, m), Joins(g, more, n), \A i \in 1..m : seqs[i] = more[i]
  PROVE  \A i \in 1..m : f[i] = g[i]
<1> DEFINE T == {k \in 1..m : f[k] # g[k]}
<1>1. SUFFICES ASSUME T # {} PROVE FALSE
  OBVIOUS
<1>2. PICK k \in T : \A j \in T : k <= j
  <2>1. T \in SUBSET Nat
    OBVIOUS
  <2>2. QED
    BY <1>1, <2>1, LeastNumber
<1>3. /\ f[k] = IF k = 1 THEN seqs[k] ELSE f[k - 1] \o seqs[k]
      /\ g[k] = IF k = 1 THEN more[k] ELSE g[k - 1] \o more[k]
  <2>1. \A i \in 1..m : f[i] = IF i = 1 THEN seqs[i] ELSE f[i - 1] \o seqs[i]
    BY JoinsStep
  <2>2. \A i \in 1..n : g[i] = IF i = 1 THEN more[i] ELSE g[i - 1] \o more[i]
    BY JoinsStep
  <2>3. k \in 1..m /\ k \in 1..n
    OBVIOUS
  <2>4. QED
    BY <2>1, <2>2, <2>3
<1>4. k # 1 => f[k - 1] = g[k - 1]
  <2>1. k # 1 => k - 1 \in 1..m /\ ~(k <= k - 1)
    OBVIOUS
  <2>2. QED
    BY <1>2, <2>1
<1>5. QED
  BY <1>3, <1>4

\* FlattenSeq is the last value of any such function.
LEMMA FlattenJoins ==
  ASSUME NEW seqs, NEW n \in Nat, Len(seqs) = n, n # 0
  PROVE  \E f : Joins(f, seqs, n) /\ FlattenSeq(seqs) = f[n]
<1> DEFINE f == CHOOSE h : Joins(h, seqs, n)
<1>1. Joins(f, seqs, n)
  BY JoinsExist, Zenon
<1>2. FlattenSeq(seqs) = f[n]
  BY Zenon DEF FlattenSeq, Joins
<1>3. QED
  BY <1>1, <1>2, Zenon

\* Nothing joined is nothing.
LEMMA FlattenEmpty == FlattenSeq(<<>>) = <<>>
BY DEF FlattenSeq

\* One more sequence is joined at the end.
LEMMA FlattenAppend ==
  ASSUME NEW S, NEW seqs \in Seq(Seq(S)), NEW s \in Seq(S), FlattenSeq(seqs) \in Seq(S)
  PROVE  FlattenSeq(Append(seqs, s)) = FlattenSeq(seqs) \o s
<1> DEFINE n == Len(seqs)
           more == Append(seqs, s)
<1>1. /\ n \in Nat /\ more \in Seq(Seq(S)) /\ Len(more) = n + 1 /\ more[n + 1] = s
      /\ \A i \in 1..n : seqs[i] = more[i]
  OBVIOUS
<1> HIDE DEF more
<1>2. PICK g : Joins(g, more, n + 1) /\ FlattenSeq(more) = g[n + 1]
  BY <1>1, FlattenJoins
<1>3. g[n + 1] = IF n = 0 THEN s ELSE g[n] \o s
  <2>1. \A i \in 1..(n + 1) : g[i] = IF i = 1 THEN more[i] ELSE g[i - 1] \o more[i]
    BY <1>2, JoinsStep
  <2>2. n + 1 \in 1..(n + 1) /\ (n + 1) - 1 = n /\ (n + 1 = 1 <=> n = 0)
    BY <1>1
  <2> HIDE DEF n
  <2>3. QED
    BY <1>1, <2>1, <2>2
<1>4. CASE n = 0
  <2>1. FlattenSeq(seqs) = <<>>
    BY <1>4, FlattenEmpty
  <2>2. QED
    BY <1>2, <1>3, <1>4, <2>1 DEF more
<1>5. CASE n # 0
  <2>1. PICK f : Joins(f, seqs, n) /\ FlattenSeq(seqs) = f[n]
    BY <1>1, <1>5, FlattenJoins
  <2>2. f[n] = g[n]
    <3>1. n \in Nat /\ n + 1 \in Nat /\ n <= n + 1 /\ n \in 1..n
      BY <1>1, <1>5
    <3>2. \A i \in 1..n : seqs[i] = more[i]
      BY <1>1
    <3> HIDE DEF n
    <3>3. \A i \in 1..n : f[i] = g[i]
      BY ONLY <1>2, <2>1, <3>1, <3>2, JoinsAgree
    <3>4. QED
      BY <3>1, <3>3
  <2>3. FlattenSeq(more) = FlattenSeq(seqs) \o s
    BY <1>2, <1>3, <1>5, <2>1, <2>2
  <2>4. QED
    BY <2>3 DEF more
<1>6. QED
  BY <1>4, <1>5

\* Concatenation is associative.
LEMMA ConcatAssoc ==
  ASSUME NEW S, NEW a \in Seq(S), NEW b \in Seq(S), NEW c \in Seq(S)
  PROVE  (a \o b) \o c = a \o (b \o c)
OBVIOUS

\* The laws of concatenation, for the sequences over one set.
LEMMA Concat ==
  ASSUME NEW S
  PROVE  /\ <<>> \in Seq(S)
         /\ \A a \in Seq(S) : a \o <<>> = a /\ <<>> \o a = a
         /\ \A a, b \in Seq(S) : a \o b \in Seq(S)
         /\ \A a, b, c \in Seq(S) : (a \o b) \o c = a \o (b \o c)
BY ConcatAssoc, ConcatEmptySeq

\* A sequence that is not empty has a last element.
LEMMA SplitLast ==
  ASSUME NEW S, NEW q \in Seq(S), q # <<>>
  PROVE  \E p \in Seq(S), s \in S : Len(p) = Len(q) - 1 /\ q = Append(p, s)
<1> DEFINE p == SubSeq(q, 1, Len(q) - 1)
<1>1. p \in Seq(S) /\ Len(p) = Len(q) - 1 /\ q[Len(q)] \in S
  <2>1. Len(q) \in Nat \ {0}
    BY EmptySeq
  <2>2. \A i \in 1 .. Len(q) : q[i] \in S
    OBVIOUS
  <2>3. Len(q) - 1 \in Nat /\ \A i \in 1 .. Len(q) - 1 : q[i] \in S
    BY <2>1, <2>2
  <2>4. p \in Seq(S)
    BY <2>3
  <2>5. Len(p) = Len(q) - 1
    <3>1. \A n \in Nat : n <= Len(q) => Len(SubSeq(q, 1, n)) = n
      OBVIOUS
    <3>2. Len(q) - 1 \in Nat /\ Len(q) - 1 <= Len(q)
      BY <2>1
    <3>3. QED
      BY <3>1, <3>2
  <2>6. QED
    BY <2>1, <2>2, <2>4, <2>5
<1>2. q = Append(p, q[Len(q)])
  <2>1. Append(p, q[Len(q)]) \in Seq(S) /\ Len(Append(p, q[Len(q)])) = Len(q)
    BY <1>1
  <2>2. \A i \in 1 .. Len(q) : Append(p, q[Len(q)])[i] = q[i]
    OBVIOUS
  <2> HIDE DEF p
  <2>3. QED
    BY <2>1, <2>2, SeqEqual
<1>3. QED
  BY <1>1, <1>2

\* Sequences over a set join to a sequence over it.
LEMMA FlattenType ==
  ASSUME NEW S, NEW seqs \in Seq(Seq(S))
  PROVE  FlattenSeq(seqs) \in Seq(S)
<1> DEFINE Bad == {k \in Nat : \E q \in Seq(Seq(S)) : Len(q) = k /\ FlattenSeq(q) \notin Seq(S)}
<1>1. SUFFICES ASSUME Bad # {} PROVE FALSE
  OBVIOUS
<1>2. PICK k \in Bad : \A j \in Bad : k <= j
  <2>1. Bad \in SUBSET Nat
    OBVIOUS
  <2>2. QED
    BY <1>1, <2>1, LeastNumber
<1>3. PICK q \in Seq(Seq(S)) : Len(q) = k /\ FlattenSeq(q) \notin Seq(S)
  OBVIOUS
<1>4. q # <<>>
  BY <1>3, FlattenEmpty
<1>5. PICK p \in Seq(Seq(S)), s \in Seq(S) : Len(p) = Len(q) - 1 /\ q = Append(p, s)
  BY <1>4, SplitLast
<1>6. FlattenSeq(p) \in Seq(S)
  <2>1. Len(p) \in Nat /\ ~(k <= Len(p))
    BY <1>3, <1>5
  <2>2. QED
    BY <1>2, <2>1
<1>7. FlattenSeq(q) = FlattenSeq(p) \o s
  BY <1>5, <1>6, FlattenAppend
<1>8. QED
  BY <1>3, <1>5, <1>6, <1>7

\* Joining distributes over concatenation.
LEMMA FlattenConcat ==
  ASSUME NEW S, NEW left \in Seq(Seq(S)), NEW right \in Seq(Seq(S))
  PROVE  FlattenSeq(left \o right) = FlattenSeq(left) \o FlattenSeq(right)
<1> DEFINE Fits(q) == FlattenSeq(left \o q) = FlattenSeq(left) \o FlattenSeq(q)
           Bad == {k \in Nat : \E q \in Seq(Seq(S)) : Len(q) = k /\ ~Fits(q)}
<1>1. SUFFICES ASSUME Bad # {} PROVE FALSE
  <2>1. ASSUME Bad = {} PROVE Fits(right)
    <3>1. Len(right) \in Nat
      OBVIOUS
    <3>2. QED
      BY <2>1, <3>1
  <2>2. QED
    BY <2>1
<1>2. PICK k \in Bad : \A j \in Bad : k <= j
  <2>1. Bad \in SUBSET Nat
    OBVIOUS
  <2>2. QED
    BY <1>1, <2>1, LeastNumber
<1>3. PICK q \in Seq(Seq(S)) : Len(q) = k /\ ~Fits(q)
  OBVIOUS
<1>4. q # <<>>
  <2>1. FlattenSeq(left) \in Seq(S)
    BY FlattenType
  <2>2. FlattenSeq(left) \o <<>> = FlattenSeq(left) /\ left \o <<>> = left
    BY <2>1, ConcatEmptySeq
  <2>3. QED
    BY <1>3, <2>2, FlattenEmpty
<1>5. PICK p \in Seq(Seq(S)), s \in Seq(S) : Len(p) = Len(q) - 1 /\ q = Append(p, s)
  BY <1>4, SplitLast
<1>6. Fits(p)
  <2>1. Len(p) \in Nat /\ ~(k <= Len(p))
    BY <1>3, <1>5
  <2>2. QED
    BY <1>2, <2>1
<1> HIDE DEF Bad, Fits
<1>7. left \o q = Append(left \o p, s) /\ left \o p \in Seq(Seq(S))
  <2>1. q = p \o <<s>> /\ <<s>> \in Seq(Seq(S))
    BY <1>5
  <2>2. (left \o p) \o <<s>> = left \o (p \o <<s>>)
    BY <2>1, ConcatAssoc, SMTT(30)
  <2>3. left \o p \in Seq(Seq(S))
    BY <2>1
  <2>4. \A a \in Seq(Seq(S)) : Append(a, s) = a \o <<s>>
    OBVIOUS
  <2>5. QED
    BY <2>1, <2>2, <2>3, <2>4
<1>8. /\ FlattenSeq(left) \in Seq(S) /\ FlattenSeq(p) \in Seq(S) /\ FlattenSeq(left \o p) \in Seq(S)
  BY <1>5, <1>7, FlattenType
<1>9. FlattenSeq(Append(left \o p, s)) = FlattenSeq(left \o p) \o s
  BY <1>5, <1>7, <1>8, FlattenAppend
<1>10. FlattenSeq(Append(p, s)) = FlattenSeq(p) \o s
  BY <1>5, <1>8, FlattenAppend
<1>11. FlattenSeq(left \o q) = (FlattenSeq(left) \o FlattenSeq(p)) \o s
  BY <1>6, <1>7, <1>9 DEF Fits
<1>12. FlattenSeq(q) = FlattenSeq(p) \o s
  BY <1>5, <1>10
<1>13. (FlattenSeq(left) \o FlattenSeq(p)) \o s = FlattenSeq(left) \o (FlattenSeq(p) \o s)
  <2>1. \A a, b, c \in Seq(S) : (a \o b) \o c = a \o (b \o c)
    BY Concat
  <2>2. PICK a \in Seq(S), b \in Seq(S) : a = FlattenSeq(left) /\ b = FlattenSeq(p)
    BY <1>8
  <2>3. (a \o b) \o s = a \o (b \o s)
    BY <2>1, ZenonT(40)
  <2>4. QED
    BY <2>2, <2>3, ZenonT(40)
<1>14. QED
  BY <1>3, <1>11, <1>12, <1>13 DEF Fits

\* The same with an operator that the provers do not look into.
Cat(a, b) == a \o b

Monoid(Q) ==
    /\ <<>> \in Q
    /\ \A a \in Q : Cat(a, <<>>) = a /\ Cat(<<>>, a) = a
    /\ \A a, b \in Q : Cat(a, b) \in Q
    /\ \A a, b, c \in Q : Cat(Cat(a, b), c) = Cat(a, Cat(b, c))

\* The sequences over a set obey the laws.
LEMMA SeqMonoid ==
  ASSUME NEW S
  PROVE  Monoid(Seq(S))
<1>1. \A a \in Seq(S) : Cat(a, <<>>) = a /\ Cat(<<>>, a) = a
  BY DEF Cat
<1>2. \A a, b \in Seq(S) : Cat(a, b) \in Seq(S)
  BY DEF Cat
<1>3. \A a, b, c \in Seq(S) : Cat(Cat(a, b), c) = Cat(a, Cat(b, c))
  BY DEF Cat
<1>4. <<>> \in Seq(S)
  OBVIOUS
<1>5. QED
  BY <1>1, <1>2, <1>3, <1>4, Zenon DEF Monoid

\* The first of one part becomes the last of the part before it; and what is
\* joined to the last part is joined to the whole.
LEMMA Regroup ==
  ASSUME NEW Q, Monoid(Q), NEW a \in Q, NEW b \in Q, NEW c \in Q, NEW d \in Q, NEW e \in Q
  PROVE  /\ Cat(Cat(a, b), Cat(c, Cat(d, e))) = Cat(a, Cat(Cat(b, c), Cat(d, e)))
         /\ Cat(a, Cat(b, Cat(c, Cat(d, e)))) = Cat(Cat(a, Cat(b, Cat(c, d))), e)
<1> USE DEF Monoid
<1>1. Cat(d, e) \in Q /\ Cat(c, Cat(d, e)) \in Q /\ Cat(c, d) \in Q /\ Cat(b, Cat(c, d)) \in Q
  OBVIOUS
<1>2. Cat(Cat(a, b), Cat(c, Cat(d, e))) = Cat(a, Cat(b, Cat(c, Cat(d, e))))
  BY <1>1
<1>3. Cat(Cat(b, c), Cat(d, e)) = Cat(b, Cat(c, Cat(d, e)))
  BY <1>1
<1>4. Cat(c, Cat(d, e)) = Cat(Cat(c, d), e)
  BY <1>1
<1>5. Cat(b, Cat(Cat(c, d), e)) = Cat(Cat(b, Cat(c, d)), e)
  BY <1>1
<1>6. Cat(a, Cat(Cat(b, Cat(c, d)), e)) = Cat(Cat(a, Cat(b, Cat(c, d))), e)
  BY <1>1
<1>7. QED
  BY <1>2, <1>3, <1>4, <1>5, <1>6

-----------------------------------------------------------------------------
(***************************************************************************)
(* Only: the members of a sequence that are in a set, in their order.      *)
(***************************************************************************)
LEMMA OnlyConcat ==
  ASSUME NEW S, NEW w, NEW a \in Seq(S), NEW b \in Seq(S)
  PROVE  /\ Only(a, w) \in Seq(S)
         /\ Only(a \o b, w) = Only(a, w) \o Only(b, w)
<1> DEFINE One(m) == IF m \in w THEN <<m>> ELSE <<>>
           Ones(seq) == [i \in DOMAIN seq |-> One(seq[i])]
<1>1. \A m \in S : One(m) \in Seq(S)
  OBVIOUS
<1>2. \A seq : Only(seq, w) = FlattenSeq(Ones(seq))
  BY DEF Only
<1> HIDE DEF One
<1>3. ASSUME NEW seq \in Seq(S)
      PROVE  /\ Ones(seq) \in Seq(Seq(S)) /\ Len(Ones(seq)) = Len(seq)
             /\ \A i \in 1 .. Len(seq) : Ones(seq)[i] = One(seq[i])
  <2>1. Len(seq) \in Nat /\ DOMAIN seq = 1 .. Len(seq) /\ \A i \in 1 .. Len(seq) : seq[i] \in S
    OBVIOUS
  <2>2. Ones(seq) = [i \in 1 .. Len(seq) |-> One(seq[i])]
    BY <2>1
  <2>3. \A i \in 1 .. Len(seq) : One(seq[i]) \in Seq(S)
    BY <1>1, <2>1
  <2>4. QED
    BY <2>1, <2>2, <2>3
<1> HIDE DEF Ones
<1> a \o b \in Seq(S) /\ Len(a \o b) = Len(a) + Len(b)
  OBVIOUS
<1>4. PICK A \in Seq(Seq(S)), B \in Seq(Seq(S)), AB \in Seq(Seq(S)) :
        A = Ones(a) /\ B = Ones(b) /\ AB = Ones(a \o b)
  BY <1>3
<1>5. AB = A \o B
  <2>1. Len(A) = Len(a) /\ Len(B) = Len(b) /\ Len(AB) = Len(a) + Len(b)
    BY <1>3, <1>4
  <2>2. A \o B \in Seq(Seq(S)) /\ Len(A \o B) = Len(a) + Len(b)
    <3>1. A \o B \in Seq(Seq(S)) /\ Len(A \o B) = Len(A) + Len(B)
      OBVIOUS
    <3>2. QED
      BY <2>1, <3>1
  <2>3. ASSUME NEW i \in 1 .. Len(a) + Len(b) PROVE AB[i] = (A \o B)[i]
    <3>1. AB[i] = One((a \o b)[i])
      BY <1>3, <1>4
    <3>2. CASE i <= Len(a)
      <4>1. (a \o b)[i] = a[i] /\ (A \o B)[i] = A[i] /\ i \in 1 .. Len(a)
        BY <3>2, <2>1
      <4>2. A[i] = One(a[i])
        BY <1>3, <1>4, <4>1
      <4>3. QED
        BY <3>1, <4>1, <4>2
    <3>3. CASE ~(i <= Len(a))
      <4>1. i - Len(a) \in 1 .. Len(b) /\ (a \o b)[i] = b[i - Len(a)]
        BY <3>3
      <4>2. (A \o B)[i] = B[i - Len(a)]
        <5>1. \A j \in 1 .. Len(A) + Len(B) : (A \o B)[j] = IF j <= Len(A) THEN A[j] ELSE B[j - Len(A)]
          OBVIOUS
        <5>2. QED
          BY <3>3, <2>1, <5>1
      <4>3. B[i - Len(a)] = One(b[i - Len(a)])
        BY <1>3, <1>4, <4>1
      <4>4. QED
        BY <3>1, <4>1, <4>2, <4>3
    <3>4. QED
      BY <3>2, <3>3
  <2>4. QED
    BY <2>1, <2>2, <2>3, SeqEqual
<1>6. /\ FlattenSeq(A) \in Seq(S)
      /\ FlattenSeq(A \o B) = FlattenSeq(A) \o FlattenSeq(B)
  BY FlattenType, FlattenConcat
<1>7. Only(a, w) = FlattenSeq(A) /\ Only(b, w) = FlattenSeq(B) /\ Only(a \o b, w) = FlattenSeq(AB)
  BY <1>2, <1>4
<1>8. QED
  BY <1>5, <1>6, <1>7

\* Of nothing, nothing is kept.
LEMMA OnlyEmpty == \A w : Only(<<>>, w) = <<>>
<1> TAKE w
<1>1. [i \in DOMAIN <<>> |-> IF <<>>[i] \in w THEN <<<<>>[i]>> ELSE <<>>] = <<>>
  OBVIOUS
<1>2. QED
  BY <1>1, FlattenEmpty DEF Only

\* One message is kept or not.
LEMMA OnlyOne ==
  ASSUME NEW S, NEW w, NEW m \in S
  PROVE  Only(<<m>>, w) = IF m \in w THEN <<m>> ELSE <<>>
<1> DEFINE one == IF m \in w THEN <<m>> ELSE <<>>
<1>1. one \in Seq(S)
  OBVIOUS
<1>2. Only(<<m>>, w) = FlattenSeq(<<one>>)
  <2>1. [i \in DOMAIN <<m>> |-> IF <<m>>[i] \in w THEN <<<<m>>[i]>> ELSE <<>>] = <<one>>
    OBVIOUS
  <2>2. QED
    BY <2>1 DEF Only
<1> HIDE DEF one
<1>3. FlattenSeq(Append(<<>>, one)) = FlattenSeq(<<>>) \o one
  <2>1. <<>> \in Seq(Seq(S)) /\ FlattenSeq(<<>>) \in Seq(S)
    BY FlattenEmpty, Concat
  <2>2. QED
    BY <1>1, <2>1, FlattenAppend
<1>4. Append(<<>>, one) = <<one>> /\ FlattenSeq(<<>>) \o one = one
  BY <1>1, FlattenEmpty
<1>5. QED
  BY <1>2, <1>3, <1>4 DEF one

-----------------------------------------------------------------------------
(***************************************************************************)
(* The shape of the state.                                                 *)
(***************************************************************************)
CPcs == {"read", "rewrite", "rewritten", "pushed", "write", "Q", "P", "B", "D"}
SPcs == {"read", "t", "T", "D", "C", "E", "pop", "forward"}

Served == [stmt : Stmts, ok : BOOLEAN, rows : BOOLEAN]

WiresShape ==
    /\ to_proxy \in Seq(ToServer) /\ to_server \in Seq(ToServer)
    /\ from_server \in Seq(FromServer) /\ client_buf \in Seq(FromServer)
    /\ to_client \in Seq(FromServer) /\ received \in Seq(FromServer)
    /\ replied \in Seq(FromServer) /\ served \in Seq(Served)

TasksShape ==
    /\ c2s \in [pc : CPcs, msg : ToServer \cup {None}]
    /\ c2s.pc # "read" => c2s.msg \in ToServer
    /\ s2c \in [pc : SPcs, msg : FromServer \cup {None}]
    /\ s2c.pc # "read" => s2c.msg \in FromServer

SharedShape ==
    /\ returning_queue \in Seq(BOOLEAN)
    /\ pending_columns \in Stmts \cup {None}
    /\ pending_rows \in Seq(Stmts) /\ Len(pending_rows) <= MaxRows
    /\ suppress_response \in BOOLEAN /\ no_capture \in BOOLEAN /\ skipping \in BOOLEAN
    /\ stmt_cache \in [Names -> Stmts \cup {None}]
    /\ stmt_oids \in [Names -> Stmts \cup {None}]
    /\ pending_describe \in Names \cup {None}

SetupShape == setup \in Setups /\ script \in Seq(Seq(ToServer))

Shape == SetupShape /\ WiresShape /\ TasksShape /\ SharedShape

\* What ScriptAssumption says of the setup chosen.
LEMMA SetupFacts ==
  ASSUME setup \in Setups
  PROVE  /\ setup.script \in Seq(Seq(ToServer))
         /\ \A i \in DOMAIN setup.script : Request(setup.script[i])
         /\ setup.window \in Nat /\ setup.toggles \in Nat
         /\ setup.errors \in BOOLEAN /\ setup.correlate \in BOOLEAN
         /\ setup.implicit \in BOOLEAN /\ setup.stealth \in BOOLEAN
BY ScriptAssumption

\* The state has its shape at first.
LEMMA InitShape == Init => Shape
<1> SUFFICES ASSUME Init PROVE Shape
  OBVIOUS
<1>1. SetupShape
  BY SetupFacts DEF Init, SetupShape
<1>2. WiresShape
  BY DEF Init, WiresShape
<1>3. TasksShape
  BY DEF Init, TasksShape, Idle, CPcs, SPcs
<1>4. SharedShape
  <2>1. <<>> \in Seq(BOOLEAN) /\ <<>> \in Seq(Stmts) /\ Len(<<>>) = 0
    OBVIOUS
  <2>2. stmt_oids \in [Names -> Stmts \cup {None}] /\ stmt_cache \in [Names -> Stmts \cup {None}]
    BY DEF Init
  <2>3. 0 <= MaxRows
    BY RelayAssumption
  <2>4. QED
    BY <2>1, <2>2, <2>3 DEF Init, SharedShape
<1>5. QED
  BY <1>1, <1>2, <1>3, <1>4 DEF Shape

\* What the server may say to a message.
LEMMA SuccessTypes ==
  ASSUME NEW m \in ToServer
  PROVE  Success(m) \in Seq(ServerTypes) /\ Failures(m) \subseteq Seq(ServerTypes)
<1>1. m.type \in {"Q", "c", "P", "B", "D", "Ex", "S"}
  BY DEF ToServer, ClientTypes
<1>2. Success(m) \in {<<"G">>, <<"T", "D", "D", "C", "Z">>, <<"C", "Z">>, <<"1">>, <<"2">>,
                     <<"t", "T">>, <<"t", "n">>, <<"D", "D", "C">>, <<"C">>, <<"Z">>,
                     <<"I">>, <<"I", "Z">>, <<"T", "D", "C", "C", "Z">>}
  BY <1>1 DEF Success
<1>3. Failures(m) \subseteq {<<"E", "Z">>, <<"T", "D", "C", "E", "Z">>, <<"E">>}
  BY DEF Failures
<1>4. {<<"I">>, <<"I", "Z">>, <<"T", "D", "C", "C", "Z">>, <<"T", "D", "C", "E", "Z">>, <<"G">>, <<"T", "D", "D", "C", "Z">>, <<"C", "Z">>, <<"1">>, <<"2">>, <<"t", "T">>,
       <<"t", "n">>, <<"D", "D", "C">>, <<"C">>, <<"Z">>, <<"E", "Z">>, <<"E">>} \subseteq Seq(ServerTypes)
  BY DEF ServerTypes
<1>5. QED
  BY <1>2, <1>3, <1>4

\* An answer is a sequence of messages of the server.
LEMMA AnswerShape ==
  ASSUME NEW m \in ToServer, NEW types \in Seq(ServerTypes)
  PROVE  [i \in 1 .. Len(types) |-> Msg(types[i], m.stmt)] \in Seq(FromServer)
<1>1. \A i \in 1 .. Len(types) : Msg(types[i], m.stmt) \in FromServer
  BY DEF Msg, FromServer, ToServer
<1>2. QED
  BY <1>1

\* A sequence is its head before its tail.
LEMMA HeadTail ==
  ASSUME NEW S, NEW q \in Seq(S), q # <<>>
  PROVE  /\ Head(q) \in S /\ Tail(q) \in Seq(S)
         /\ q = <<Head(q)>> \o Tail(q)
<1>1. Head(q) \in S /\ Tail(q) \in Seq(S) /\ Len(Tail(q)) = Len(q) - 1
  OBVIOUS
<1>2. <<Head(q)>> \o Tail(q) \in Seq(S) /\ Len(<<Head(q)>> \o Tail(q)) = Len(q)
  BY <1>1
<1>3. \A i \in 1 .. Len(q) : q[i] = (<<Head(q)>> \o Tail(q))[i]
  OBVIOUS
<1>4. QED
  BY <1>2, <1>3, SeqEqual

Said(m, types) == [i \in 1 .. Len(types) |-> Msg(types[i], m.stmt)]

\* The three ways in which the server treats a message.
Skipped(m, types) == types = <<>> /\ skipping /\ m.type # "S" /\ skipping'
Succeeded(m, types, ok, rows) ==
    /\ types = Success(m) /\ ok /\ rows = Contains(types, "D")
    /\ ~skipping' /\ (skipping => m.type = "S")
Failed(m, types, ok, rows) ==
    /\ types \in Failures(m) /\ ~ok /\ rows = Contains(types, "D") /\ Success(m) # <<"G">>
    /\ ~skipping /\ m.type # "S" /\ skipping' = (m.type \notin {"Q", "c"})

\* What the server says to the message it takes, in one of these ways.
LEMMA ServerStep ==
  ASSUME Shape, Server
  PROVE  \E m \in ToServer, types \in Seq(ServerTypes), ok \in BOOLEAN, rows \in BOOLEAN :
            /\ m = Head(to_server) /\ to_server = <<m>> \o to_server' /\ to_server' = Tail(to_server)
            /\ to_server' \in Seq(ToServer) /\ Said(m, types) \in Seq(FromServer)
            /\ from_server' = from_server \o Said(m, types)
            /\ replied' = replied \o Said(m, types)
            /\ Outcome(m, ok, rows)
            /\ \/ Skipped(m, types)
               \/ Succeeded(m, types, ok, rows)
               \/ Failed(m, types, ok, rows)
<1> DEFINE m == Head(to_server)
<1>1. m \in ToServer /\ to_server = <<m>> \o to_server' /\ to_server' = Tail(to_server)
      /\ to_server' \in Seq(ToServer)
  <2>1. to_server # <<>> /\ to_server' = Tail(to_server)
    BY DEF Server
  <2>2. to_server \in Seq(ToServer)
    BY DEF Shape, WiresShape
  <2>3. QED
    BY <2>1, <2>2, HeadTail
<1>2. from_server \in Seq(FromServer) /\ replied \in Seq(FromServer)
  BY DEF Shape, WiresShape
<1>3. \A types \in Seq(ServerTypes) : Said(m, types) \in Seq(FromServer)
  BY <1>1, AnswerShape DEF Said
<1>4. Success(m) \in Seq(ServerTypes) /\ Failures(m) \subseteq Seq(ServerTypes)
  BY <1>1, SuccessTypes
<1> HIDE DEF m
<1>5. CASE skipping /\ m.type # "S" /\ Outcome(m, FALSE, FALSE) /\ UNCHANGED <<skipping, replied, from_server>>
  <2>1. Said(m, <<>>) = <<>> /\ <<>> \in Seq(ServerTypes)
    BY DEF Said
  <2>2. from_server' = from_server \o Said(m, <<>>) /\ replied' = replied \o Said(m, <<>>)
    BY <1>2, <1>5, <2>1
  <2>3. Skipped(m, <<>>)
    BY <1>5 DEF Skipped
  <2>4. QED
    BY <1>1, <1>3, <1>5, <2>1, <2>2, <2>3 DEF m
<1>6. CASE (~skipping \/ m.type = "S") /\ Answer(m, Success(m), TRUE) /\ skipping' = FALSE
  <2>1. /\ from_server' = from_server \o Said(m, Success(m)) /\ replied' = replied \o Said(m, Success(m))
        /\ Outcome(m, TRUE, Contains(Success(m), "D"))
    BY <1>6 DEF Answer, Said
  <2>2. Contains(Success(m), "D") \in BOOLEAN
    BY DEF Contains
  <2>3. Succeeded(m, Success(m), TRUE, Contains(Success(m), "D"))
    BY <1>6 DEF Succeeded
  <2>4. QED
    BY <1>1, <1>3, <1>4, <2>1, <2>2, <2>3 DEF m
<1>7. ASSUME NEW types \in Failures(m), setup.errors, ~skipping, m.type # "S", Success(m) # <<"G">>,
             Answer(m, types, FALSE), skipping' = (m.type \notin {"Q", "c"})
      PROVE  \E h \in ToServer, ts \in Seq(ServerTypes), ok \in BOOLEAN, rows \in BOOLEAN :
                /\ h = Head(to_server) /\ to_server = <<h>> \o to_server' /\ to_server' = Tail(to_server)
                /\ to_server' \in Seq(ToServer) /\ Said(h, ts) \in Seq(FromServer)
                /\ from_server' = from_server \o Said(h, ts)
                /\ replied' = replied \o Said(h, ts)
                /\ Outcome(h, ok, rows)
                /\ \/ Skipped(h, ts)
                   \/ Succeeded(h, ts, ok, rows)
                   \/ Failed(h, ts, ok, rows)
  <2>1. /\ from_server' = from_server \o Said(m, types) /\ replied' = replied \o Said(m, types)
        /\ Outcome(m, FALSE, Contains(types, "D"))
    BY <1>7 DEF Answer, Said
  <2>2. Contains(types, "D") \in BOOLEAN
    BY DEF Contains
  <2>3. Failed(m, types, FALSE, Contains(types, "D"))
    BY <1>7 DEF Failed
  <2>4. types \in Seq(ServerTypes)
    BY <1>4
  <2>5. QED
    BY <1>1, <1>3, <2>1, <2>2, <2>3, <2>4 DEF m
<1>8. QED
  BY <1>5, <1>6, <1>7 DEF Server, m

\* Outcomes have their shape.
LEMMA OutcomeShape ==
  ASSUME NEW m \in ToServer, NEW ok \in BOOLEAN, NEW rows \in BOOLEAN,
         served \in Seq(Served), Outcome(m, ok, rows)
  PROVE  served' \in Seq(Served)
<1>1. [stmt |-> m.stmt, ok |-> ok, rows |-> rows] \in Served
  BY DEF Served, ToServer
<1>2. CASE Executing(m)
  <2>1. served' = Append(served, [stmt |-> m.stmt, ok |-> ok, rows |-> rows])
    BY <1>2 DEF Outcome
  <2>2. QED
    BY <1>1, <2>1
<1>3. CASE ~Executing(m)
  BY <1>3 DEF Outcome
<1>4. QED
  BY <1>2, <1>3

\* A flag can be pushed.
LEMMA PushShape ==
  ASSUME NEW b \in BOOLEAN, SetupShape, returning_queue \in Seq(BOOLEAN), Push(b)
  PROVE  returning_queue' \in Seq(BOOLEAN)
<1>1. Append(returning_queue, b) \in Seq(BOOLEAN)
  OBVIOUS
<1>2. QED
  BY <1>1 DEF Push

\* A flag can be popped.
LEMMA RestShape ==
  ASSUME NEW q \in Seq(BOOLEAN)
  PROVE  Rest(q) \in Seq(BOOLEAN)
<1>1. q # <<>> => Tail(q) \in Seq(BOOLEAN)
  OBVIOUS
<1>2. QED
  BY <1>1 DEF Rest

\* Steps that leave a part of the state alone keep its shape.
LEMMA SetupStays ==
  ASSUME SetupShape, UNCHANGED <<setup, script>>
  PROVE  SetupShape'
BY DEF SetupShape

\* The same for the wires.
LEMMA WiresStay ==
  ASSUME WiresShape,
         UNCHANGED <<to_proxy, to_server, from_server, client_buf, to_client, received, replied, served>>
  PROVE  WiresShape'
BY DEF WiresShape

\* The same for what the tasks share.
LEMMA SharedStays ==
  ASSUME SharedShape,
         UNCHANGED <<returning_queue, pending_columns, pending_rows, suppress_response,
                     no_capture, skipping, stmt_cache, stmt_oids, pending_describe>>
  PROVE  SharedShape'
BY DEF SharedShape

\* Every step keeps the shape.
LEMMA ShapeStep ==
  ASSUME Shape, [Next]_vars
  PROVE  Shape'
<1> USE DEF Shape
<1>1. ASSUME UNCHANGED vars PROVE Shape'
  BY <1>1 DEF vars, clientVars, serverVars, wires, correlateVars, stmtVars, toggleVars,
              SetupShape, WiresShape, TasksShape, SharedShape
<1>2. ASSUME ClientSend PROVE Shape'
  <2>1. SetupShape'
    BY <1>2 DEF ClientSend, SetupShape, clientVars, serverVars, wires, correlateVars, stmtVars, toggleVars
  <2>2. WiresShape'
    BY <1>2 DEF ClientSend, WiresShape, SetupShape, clientVars, serverVars, wires, correlateVars, stmtVars, toggleVars
  <2>3. TasksShape'
    BY <1>2 DEF ClientSend, TasksShape, clientVars, serverVars, wires, correlateVars, stmtVars, toggleVars
  <2>4. SharedShape'
    BY <1>2, SharedStays DEF ClientSend, clientVars, serverVars, wires, correlateVars, stmtVars, toggleVars
  <2>5. QED
    BY <2>1, <2>2, <2>3, <2>4
<1>3. ASSUME ClientReceive PROVE Shape'
  <2>1. SetupShape'
    BY <1>3, SetupStays DEF ClientReceive, clientVars, serverVars, wires, correlateVars, stmtVars, toggleVars
  <2>2. WiresShape'
    BY <1>3 DEF ClientReceive, WiresShape, clientVars, serverVars, wires, correlateVars, stmtVars, toggleVars
  <2>3. TasksShape'
    BY <1>3 DEF ClientReceive, TasksShape, clientVars, serverVars, wires, correlateVars, stmtVars, toggleVars
  <2>4. SharedShape'
    BY <1>3, SharedStays DEF ClientReceive, clientVars, serverVars, wires, correlateVars, stmtVars, toggleVars
  <2>5. QED
    BY <2>1, <2>2, <2>3, <2>4
<1>4. ASSUME Server PROVE Shape'
  <2>1. SetupShape'
    BY <1>4, SetupStays DEF Server, clientVars, serverVars, wires, correlateVars, stmtVars, toggleVars
  <2>2. WiresShape'
    <3>1. PICK m \in ToServer, types \in Seq(ServerTypes), ok \in BOOLEAN, rows \in BOOLEAN :
            /\ to_server' \in Seq(ToServer) /\ Said(m, types) \in Seq(FromServer)
            /\ from_server' = from_server \o Said(m, types)
            /\ replied' = replied \o Said(m, types)
            /\ Outcome(m, ok, rows)
      BY <1>4, ServerStep, ZenonT(40)
    <3>2. served' \in Seq(Served)
      BY <3>1, OutcomeShape DEF WiresShape
    <3>3. from_server' \in Seq(FromServer) /\ replied' \in Seq(FromServer)
      BY <3>1 DEF WiresShape
    <3>4. QED
      BY <1>4, <3>1, <3>2, <3>3 DEF Server, WiresShape, clientVars
  <2>3. TasksShape'
    BY <1>4 DEF Server, TasksShape, clientVars, serverVars, wires, correlateVars, stmtVars, toggleVars
  <2>4. SharedShape'
    BY <1>4, SetupFacts, RelayAssumption DEF Server, SharedShape, SetupShape, clientVars, serverVars, wires, correlateVars, stmtVars, toggleVars
  <2>5. QED
    BY <2>1, <2>2, <2>3, <2>4
<1>5. ASSUME C2SRead PROVE Shape'
  <2>1. SetupShape'
    BY <1>5, SetupStays DEF C2SRead, clientVars, serverVars, wires, correlateVars, stmtVars, toggleVars
  <2>2. WiresShape'
    BY <1>5 DEF C2SRead, WiresShape, clientVars, serverVars, wires, correlateVars, stmtVars, toggleVars
  <2>3. TasksShape'
    <3>1. Head(to_proxy) \in ToServer
      BY <1>5 DEF C2SRead, WiresShape
    <3>2. c2s'.msg = Head(to_proxy) /\ c2s' \in [pc : CPcs, msg : ToServer \cup {None}]
      BY <1>5, <3>1 DEF C2SRead, CPcs, untracked
    <3>3. QED
      BY <1>5, <3>1, <3>2 DEF C2SRead, TasksShape
  <2>4. SharedShape'
    BY <1>5, SharedStays DEF C2SRead, clientVars, serverVars, wires, correlateVars, stmtVars, toggleVars
  <2>5. QED
    BY <2>1, <2>2, <2>3, <2>4
<1>6. ASSUME C2SRewrite PROVE Shape'
  <2>1. SetupShape'
    BY <1>6, SetupStays DEF C2SRewrite, clientVars, serverVars, wires, correlateVars, stmtVars, toggleVars
  <2>2. WiresShape'
    <3>1. [c2s.msg EXCEPT !.injected = TRUE] \in ToServer
      BY <1>6 DEF C2SRewrite, TasksShape, ToServer
    <3>2. QED
      BY <1>6, <3>1 DEF C2SRewrite, WiresShape, clientVars, serverVars, wires, correlateVars, stmtVars, toggleVars
  <2>3. TasksShape'
    BY <1>6 DEF C2SRewrite, TasksShape, CPcs, clientVars, serverVars, wires, correlateVars, stmtVars, toggleVars
  <2>4. SharedShape'
    BY <1>6, SharedStays DEF C2SRewrite, clientVars, serverVars, wires, correlateVars, stmtVars, toggleVars
  <2>5. QED
    BY <2>1, <2>2, <2>3, <2>4
<1>7. ASSUME C2SPushInjected PROVE Shape'
  <2>1. SetupShape'
    BY <1>7, SetupStays DEF C2SPushInjected, clientVars, serverVars, wires, correlateVars, stmtVars, toggleVars
  <2>2. WiresShape'
    BY <1>7, WiresStay DEF C2SPushInjected, clientVars, serverVars, wires, correlateVars, stmtVars, toggleVars
  <2>3. TasksShape'
    BY <1>7 DEF C2SPushInjected, TasksShape, CPcs, clientVars, serverVars, wires, correlateVars, stmtVars, toggleVars
  <2>4. SharedShape'
    <3>1. (TRUE) \in BOOLEAN
      BY SetupFacts DEF SetupShape, has_ret, Injects
    <3>2. returning_queue' \in Seq(BOOLEAN)
      BY <1>7, <3>1, PushShape DEF C2SPushInjected, SharedShape
    <3>4. QED
      BY <1>7, <3>2 DEF C2SPushInjected, SharedShape, clientVars, serverVars, wires, correlateVars, stmtVars, toggleVars
  <2>5. QED
    BY <2>1, <2>2, <2>3, <2>4
<1>8. ASSUME C2SSuppress PROVE Shape'
  <2>1. SetupShape'
    BY <1>8, SetupStays DEF C2SSuppress, clientVars, serverVars, wires, correlateVars, stmtVars, toggleVars
  <2>2. WiresShape'
    BY <1>8, WiresStay DEF C2SSuppress, clientVars, serverVars, wires, correlateVars, stmtVars, toggleVars
  <2>3. TasksShape'
    BY <1>8 DEF C2SSuppress, TasksShape, CPcs, after_injection, clientVars, serverVars, wires, correlateVars, stmtVars, toggleVars
  <2>4. SharedShape'
    BY <1>8, SetupFacts, RelayAssumption DEF C2SSuppress, SharedShape, SetupShape, clientVars, serverVars, wires, correlateVars, stmtVars, toggleVars
  <2>5. QED
    BY <2>1, <2>2, <2>3, <2>4
<1>9. ASSUME C2SQuery PROVE Shape'
  <2>1. SetupShape'
    BY <1>9, SetupStays DEF C2SQuery, clientVars, serverVars, wires, correlateVars, stmtVars, toggleVars
  <2>2. WiresShape'
    BY <1>9, WiresStay DEF C2SQuery, clientVars, serverVars, wires, correlateVars, stmtVars, toggleVars
  <2>3. TasksShape'
    BY <1>9 DEF C2SQuery, TasksShape, CPcs, clientVars, serverVars, wires, correlateVars, stmtVars, toggleVars
  <2>4. SharedShape'
    <3>1. (has_ret(c2s.msg.stmt)) \in BOOLEAN
      BY SetupFacts DEF SetupShape, has_ret, Injects
    <3>2. returning_queue' \in Seq(BOOLEAN)
      BY <1>9, <3>1, PushShape DEF C2SQuery, SharedShape
    <3>4. QED
      BY <1>9, <3>2 DEF C2SQuery, SharedShape, clientVars, serverVars, wires, correlateVars, stmtVars, toggleVars
  <2>5. QED
    BY <2>1, <2>2, <2>3, <2>4
<1>10. ASSUME C2SParse PROVE Shape'
  <2>1. SetupShape'
    BY <1>10, SetupStays DEF C2SParse, clientVars, serverVars, wires, correlateVars, stmtVars, toggleVars
  <2>2. WiresShape'
    BY <1>10, WiresStay DEF C2SParse, clientVars, serverVars, wires, correlateVars, stmtVars, toggleVars
  <2>3. TasksShape'
    BY <1>10 DEF C2SParse, TasksShape, CPcs, clientVars, serverVars, wires, correlateVars, stmtVars, toggleVars
  <2>4. SharedShape'
    <3>1. (has_ret(c2s.msg.stmt) \/ Injects(c2s.msg.stmt)) \in BOOLEAN
      BY SetupFacts DEF SetupShape, has_ret, Injects
    <3>2. returning_queue' \in Seq(BOOLEAN)
      BY <1>10, <3>1, PushShape DEF C2SParse, SharedShape
    <3>3. stmt_cache' \in [Names -> Stmts \cup {None}] /\ stmt_oids' \in [Names -> Stmts \cup {None}]
      <4>1. c2s.msg.stmt \in Stmts
        BY <1>10 DEF C2SParse, TasksShape, ToServer
      <4>2. QED
        BY <1>10, <4>1, NameAssumption DEF C2SParse, SharedShape
    <3>4. QED
      BY <1>10, <3>2, <3>3 DEF C2SParse, SharedShape, clientVars, serverVars, wires, correlateVars, stmtVars, toggleVars
  <2>5. QED
    BY <2>1, <2>2, <2>3, <2>4
<1>11. ASSUME C2SDescribe PROVE Shape'
  <2>1. SetupShape'
    BY <1>11, SetupStays DEF C2SDescribe, clientVars, serverVars, wires, correlateVars, stmtVars, toggleVars
  <2>2. WiresShape'
    BY <1>11, WiresStay DEF C2SDescribe, clientVars, serverVars, wires, correlateVars, stmtVars, toggleVars
  <2>3. TasksShape'
    BY <1>11 DEF C2SDescribe, TasksShape, CPcs, clientVars, serverVars, wires, correlateVars, stmtVars, toggleVars
  <2>4. SharedShape'
    BY <1>11, SetupFacts, RelayAssumption, NameAssumption DEF C2SDescribe, SharedShape, SetupShape, described, TasksShape, ToServer, clientVars, serverVars, wires, correlateVars, stmtVars, toggleVars
  <2>5. QED
    BY <2>1, <2>2, <2>3, <2>4
<1>12. ASSUME C2SBind PROVE Shape'
  <2>1. SetupShape'
    BY <1>12, SetupStays DEF C2SBind, clientVars, serverVars, wires, correlateVars, stmtVars, toggleVars
  <2>2. WiresShape'
    BY <1>12, WiresStay DEF C2SBind, clientVars, serverVars, wires, correlateVars, stmtVars, toggleVars
  <2>3. TasksShape'
    BY <1>12 DEF C2SBind, TasksShape, CPcs, clientVars, serverVars, wires, correlateVars, stmtVars, toggleVars
  <2>4. SharedShape'
    BY <1>12, SharedStays DEF C2SBind, clientVars, serverVars, wires, correlateVars, stmtVars, toggleVars
  <2>5. QED
    BY <2>1, <2>2, <2>3, <2>4
<1>13. ASSUME C2SWrite PROVE Shape'
  <2>1. SetupShape'
    BY <1>13, SetupStays DEF C2SWrite, clientVars, serverVars, wires, correlateVars, stmtVars, toggleVars
  <2>2. WiresShape'
    BY <1>13 DEF C2SWrite, WiresShape, TasksShape, clientVars, serverVars, wires, correlateVars, stmtVars, toggleVars
  <2>3. TasksShape'
    BY <1>13 DEF C2SWrite, TasksShape, CPcs, Idle, clientVars, serverVars, wires, correlateVars, stmtVars, toggleVars
  <2>4. SharedShape'
    BY <1>13, SharedStays DEF C2SWrite, clientVars, serverVars, wires, correlateVars, stmtVars, toggleVars
  <2>5. QED
    BY <2>1, <2>2, <2>3, <2>4
<1>14. ASSUME S2CRead PROVE Shape'
  <2>1. SetupShape'
    BY <1>14, SetupStays DEF S2CRead, clientVars, serverVars, wires, correlateVars, stmtVars, toggleVars
  <2>2. WiresShape'
    BY <1>14 DEF S2CRead, WiresShape, clientVars, serverVars, wires, correlateVars, stmtVars, toggleVars
  <2>3. TasksShape'
    BY <1>14 DEF S2CRead, TasksShape, WiresShape, SPcs, clientVars, serverVars, wires, correlateVars, stmtVars, toggleVars
  <2>4. SharedShape'
    BY <1>14, SharedStays DEF S2CRead, clientVars, serverVars, wires, correlateVars, stmtVars, toggleVars
  <2>5. QED
    BY <2>1, <2>2, <2>3, <2>4
<1>15. ASSUME S2CParameterDescription PROVE Shape'
  <2>1. SetupShape'
    BY <1>15, SetupStays DEF S2CParameterDescription, clientVars, serverVars, wires, correlateVars, stmtVars, toggleVars
  <2>2. WiresShape'
    BY <1>15, WiresStay DEF S2CParameterDescription, clientVars, serverVars, wires, correlateVars, stmtVars, toggleVars
  <2>3. TasksShape'
    BY <1>15 DEF S2CParameterDescription, TasksShape, SPcs, clientVars, serverVars, wires, correlateVars, stmtVars, toggleVars
  <2>4. SharedShape'
    BY <1>15, SetupFacts, RelayAssumption DEF S2CParameterDescription, SharedShape, SetupShape, TasksShape, FromServer, clientVars, serverVars, wires, correlateVars, stmtVars, toggleVars
  <2>5. QED
    BY <2>1, <2>2, <2>3, <2>4
<1>16. ASSUME S2CRowDescription PROVE Shape'
  <2>1. SetupShape'
    BY <1>16, SetupStays DEF S2CRowDescription, clientVars, serverVars, wires, correlateVars, stmtVars, toggleVars
  <2>2. WiresShape'
    BY <1>16, WiresStay DEF S2CRowDescription, clientVars, serverVars, wires, correlateVars, stmtVars, toggleVars
  <2>3. TasksShape'
    BY <1>16 DEF S2CRowDescription, TasksShape, SPcs, clientVars, serverVars, wires, correlateVars, stmtVars, toggleVars
  <2>4. SharedShape'
    <3>1. s2c.msg.stmt \in Stmts
      BY <1>16 DEF S2CRowDescription, TasksShape, FromServer
    <3>2. <<>> \in Seq(Stmts) /\ Len(<<>>) <= MaxRows
      BY RelayAssumption
    <3>3. CASE Due(returning_queue)
      BY <1>16, <3>1, <3>2, <3>3 DEF S2CRowDescription, SharedShape, clientVars, serverVars, wires, correlateVars, stmtVars, toggleVars
    <3>4. CASE ~Due(returning_queue)
      BY <1>16, <3>4 DEF S2CRowDescription, SharedShape, clientVars, serverVars, wires, correlateVars, stmtVars, toggleVars
    <3>5. QED
      BY <3>3, <3>4
  <2>5. QED
    BY <2>1, <2>2, <2>3, <2>4
<1>17. ASSUME S2CDataRow PROVE Shape'
  <2>1. SetupShape'
    BY <1>17, SetupStays DEF S2CDataRow, clientVars, serverVars, wires, correlateVars, stmtVars, toggleVars
  <2>2. WiresShape'
    BY <1>17, WiresStay DEF S2CDataRow, clientVars, serverVars, wires, correlateVars, stmtVars, toggleVars
  <2>3. TasksShape'
    BY <1>17 DEF S2CDataRow, TasksShape, SPcs, clientVars, serverVars, wires, correlateVars, stmtVars, toggleVars
  <2>4. SharedShape'
    BY <1>17, SetupFacts, RelayAssumption DEF S2CDataRow, SharedShape, SetupShape, HasSpace, TasksShape, FromServer, clientVars, serverVars, wires, correlateVars, stmtVars, toggleVars
  <2>5. QED
    BY <2>1, <2>2, <2>3, <2>4
<1>18. ASSUME S2CComplete PROVE Shape'
  <2>1. SetupShape'
    BY <1>18, SetupStays DEF S2CComplete, clientVars, serverVars, wires, correlateVars, stmtVars, toggleVars
  <2>2. WiresShape'
    BY <1>18, WiresStay DEF S2CComplete, clientVars, serverVars, wires, correlateVars, stmtVars, toggleVars
  <2>3. TasksShape'
    BY <1>18 DEF S2CComplete, TasksShape, SPcs, clientVars, serverVars, wires, correlateVars, stmtVars, toggleVars
  <2>4. SharedShape'
    BY <1>18, SharedStays DEF S2CComplete, clientVars, serverVars, wires, correlateVars, stmtVars, toggleVars
  <2>5. QED
    BY <2>1, <2>2, <2>3, <2>4
<1>19. ASSUME S2CPop PROVE Shape'
  <2>1. SetupShape'
    BY <1>19, SetupStays DEF S2CPop, clientVars, serverVars, wires, correlateVars, stmtVars, toggleVars
  <2>2. WiresShape'
    BY <1>19, WiresStay DEF S2CPop, clientVars, serverVars, wires, correlateVars, stmtVars, toggleVars
  <2>3. TasksShape'
    BY <1>19 DEF S2CPop, TasksShape, SPcs, clientVars, serverVars, wires, correlateVars, stmtVars, toggleVars
  <2>4. SharedShape'
    <3>1. <<>> \in Seq(Stmts) /\ Len(<<>>) <= MaxRows
      BY RelayAssumption
    <3>2. returning_queue' \in Seq(BOOLEAN)
      BY <1>19, RestShape DEF S2CPop, SharedShape
    <3>3. /\ pending_columns' \in Stmts \cup {None}
          /\ pending_rows' \in Seq(Stmts) /\ Len(pending_rows') <= MaxRows
      BY <1>19, <3>1 DEF S2CPop, SharedShape
    <3>4. QED
      BY <1>19, <3>2, <3>3 DEF S2CPop, SharedShape, clientVars, serverVars, wires, correlateVars, stmtVars, toggleVars
  <2>5. QED
    BY <2>1, <2>2, <2>3, <2>4
<1>20. ASSUME S2CError PROVE Shape'
  <2>1. SetupShape'
    BY <1>20, SetupStays DEF S2CError, clientVars, serverVars, wires, correlateVars, stmtVars, toggleVars
  <2>2. WiresShape'
    BY <1>20, WiresStay DEF S2CError, clientVars, serverVars, wires, correlateVars, stmtVars, toggleVars
  <2>3. TasksShape'
    BY <1>20 DEF S2CError, TasksShape, SPcs, clientVars, serverVars, wires, correlateVars, stmtVars, toggleVars
  <2>4. SharedShape'
    <3>1. <<>> \in Seq(Stmts) /\ Len(<<>>) <= MaxRows
      BY RelayAssumption
    <3>2. returning_queue' \in Seq(BOOLEAN)
      BY <1>20, RestShape DEF S2CError, SharedShape
    <3>3. /\ pending_columns' \in Stmts \cup {None}
          /\ pending_rows' \in Seq(Stmts) /\ Len(pending_rows') <= MaxRows
      BY <1>20, <3>1 DEF S2CError, SharedShape
    <3>4. QED
      BY <1>20, <3>2, <3>3 DEF S2CError, SharedShape, clientVars, serverVars, wires, correlateVars, stmtVars, toggleVars
  <2>5. QED
    BY <2>1, <2>2, <2>3, <2>4
<1>21. ASSUME S2CForward PROVE Shape'
  <2>1. SetupShape'
    BY <1>21, SetupStays DEF S2CForward, clientVars, serverVars, wires, correlateVars, stmtVars, toggleVars
  <2>2. WiresShape'
    <3>1. s2c.msg \in FromServer
      BY <1>21 DEF S2CForward, TasksShape
    <3> DEFINE more == Append(client_buf, s2c.msg)
    <3>2. more \in Seq(FromServer) /\ to_client \o more \in Seq(FromServer) /\ <<>> \in Seq(FromServer)
      BY <3>1 DEF WiresShape
    <3>3. client_buf' \in Seq(FromServer) /\ to_client' \in Seq(FromServer)
      <4>1. /\ client_buf' \in {client_buf, more, <<>>}
            /\ to_client' \in {to_client, to_client \o more}
        BY <1>21 DEF S2CForward
      <4> HIDE DEF more
      <4>2. QED
        BY <3>2, <4>1 DEF WiresShape
    <3>4. QED
      BY <1>21, <3>3 DEF S2CForward, WiresShape, clientVars, serverVars, wires, correlateVars, stmtVars, toggleVars
  <2>3. TasksShape'
    BY <1>21 DEF S2CForward, TasksShape, SPcs, Idle, clientVars, serverVars, wires, correlateVars, stmtVars, toggleVars
  <2>4. SharedShape'
    BY <1>21, SetupFacts, RelayAssumption DEF S2CForward, SharedShape, SetupShape, clientVars, serverVars, wires, correlateVars, stmtVars, toggleVars
  <2>5. QED
    BY <2>1, <2>2, <2>3, <2>4
<1>22. ASSUME BufferFull PROVE Shape'
  <2>1. SetupShape'
    BY <1>22, SetupStays DEF BufferFull, clientVars, serverVars, wires, correlateVars, stmtVars, toggleVars
  <2>2. WiresShape'
    BY <1>22 DEF BufferFull, WiresShape, clientVars, serverVars, wires, correlateVars, stmtVars, toggleVars
  <2>3. TasksShape'
    BY <1>22 DEF BufferFull, TasksShape, clientVars, serverVars, wires, correlateVars, stmtVars, toggleVars
  <2>4. SharedShape'
    BY <1>22, SharedStays DEF BufferFull, clientVars, serverVars, wires, correlateVars, stmtVars, toggleVars
  <2>5. QED
    BY <2>1, <2>2, <2>3, <2>4
<1>23. ASSUME Toggle PROVE Shape'
  <2>1. SetupShape'
    BY <1>23, SetupStays DEF Toggle, clientVars, serverVars, wires, correlateVars, stmtVars, toggleVars
  <2>2. WiresShape'
    BY <1>23, WiresStay DEF Toggle, clientVars, serverVars, wires, correlateVars, stmtVars, toggleVars
  <2>3. TasksShape'
    BY <1>23 DEF Toggle, TasksShape, clientVars, serverVars, wires, correlateVars, stmtVars, toggleVars
  <2>4. SharedShape'
    BY <1>23, SetupFacts, RelayAssumption DEF Toggle, SharedShape, SetupShape, clientVars, serverVars, wires, correlateVars, stmtVars, toggleVars
  <2>5. QED
    BY <2>1, <2>2, <2>3, <2>4
<1>24. QED
  BY <1>1, <1>2, <1>3, <1>4, <1>5, <1>6, <1>7, <1>8, <1>9, <1>10, <1>11, <1>12, <1>13, <1>14, <1>15, <1>16, <1>17, <1>18, <1>19, <1>20, <1>21, <1>22, <1>23 DEF Next, C2S, S2C

-----------------------------------------------------------------------------
(***************************************************************************)
(* What the client asked for is what the server executes.                  *)
(***************************************************************************)
LEMMA StmtsOfConcat ==
  ASSUME NEW S, \A e \in S : e.stmt \in Stmts, NEW a \in Seq(S), NEW b \in Seq(S)
  PROVE  /\ StmtsOf(a) \in Seq(Stmts)
         /\ StmtsOf(a \o b) = StmtsOf(a) \o StmtsOf(b)
<1>1. ASSUME NEW seq \in Seq(S)
      PROVE  /\ StmtsOf(seq) \in Seq(Stmts) /\ Len(StmtsOf(seq)) = Len(seq)
             /\ \A i \in 1 .. Len(seq) : StmtsOf(seq)[i] = seq[i].stmt
  <2>1. Len(seq) \in Nat /\ DOMAIN seq = 1 .. Len(seq) /\ \A i \in 1 .. Len(seq) : seq[i] \in S
    OBVIOUS
  <2>2. StmtsOf(seq) = [i \in 1 .. Len(seq) |-> seq[i].stmt]
    BY <2>1 DEF StmtsOf
  <2>3. QED
    BY <2>1, <2>2
<1> a \o b \in Seq(S) /\ Len(a \o b) = Len(a) + Len(b)
  OBVIOUS
<1>2. PICK A \in Seq(Stmts), B \in Seq(Stmts), AB \in Seq(Stmts) :
        A = StmtsOf(a) /\ B = StmtsOf(b) /\ AB = StmtsOf(a \o b)
  BY <1>1
<1>3. Len(A) = Len(a) /\ Len(B) = Len(b) /\ Len(AB) = Len(a) + Len(b)
  BY <1>1, <1>2
<1>4. A \o B \in Seq(Stmts) /\ Len(A \o B) = Len(a) + Len(b)
  <2>1. A \o B \in Seq(Stmts) /\ Len(A \o B) = Len(A) + Len(B)
    OBVIOUS
  <2>2. QED
    BY <1>3, <2>1
<1>5. ASSUME NEW i \in 1 .. Len(a) + Len(b) PROVE AB[i] = (A \o B)[i]
  <2>1. AB[i] = (a \o b)[i].stmt
    BY <1>1, <1>2
  <2>2. \A j \in 1 .. Len(A) + Len(B) : (A \o B)[j] = IF j <= Len(A) THEN A[j] ELSE B[j - Len(A)]
    OBVIOUS
  <2>3. CASE i <= Len(a)
    <3>1. (a \o b)[i] = a[i] /\ (A \o B)[i] = A[i] /\ i \in 1 .. Len(a)
      BY <2>2, <2>3, <1>3
    <3>2. A[i] = a[i].stmt
      BY <1>1, <1>2, <3>1
    <3>3. QED
      BY <2>1, <3>1, <3>2
  <2>4. CASE ~(i <= Len(a))
    <3>1. i - Len(a) \in 1 .. Len(b) /\ (a \o b)[i] = b[i - Len(a)]
      BY <2>4
    <3>2. (A \o B)[i] = B[i - Len(a)]
      BY <2>2, <2>4, <1>3
    <3>3. B[i - Len(a)] = b[i - Len(a)].stmt
      BY <1>1, <1>2, <3>1
    <3>4. QED
      BY <2>1, <3>1, <3>2, <3>3
  <2>5. QED
    BY <2>3, <2>4
<1>6. QED
  BY <1>2, <1>3, <1>4, <1>5, SeqEqual

executing == {m \in ToServer : Executing(m)}
StatementsOf(seq) == StmtsOf(Only(seq, executing))

\* The names of the statements, part by part.
LEMMA NamesConcat ==
  ASSUME NEW a \in Seq(ToServer), NEW b \in Seq(ToServer)
  PROVE  StatementsOf(a) \in Seq(Stmts) /\ StatementsOf(a \o b) = StatementsOf(a) \o StatementsOf(b)
<1>1. /\ Only(a, executing) \in Seq(ToServer) /\ Only(b, executing) \in Seq(ToServer)
      /\ Only(a \o b, executing) = Only(a, executing) \o Only(b, executing)
  BY OnlyConcat, ZenonT(60)
<1>2. \A m \in ToServer : m.stmt \in Stmts
  BY DEF ToServer
<1>3. QED
  BY <1>1, <1>2, StmtsOfConcat DEF StatementsOf

\* No messages name no statements.
LEMMA NamesEmpty == StatementsOf(<<>>) = <<>>
<1>1. Only(<<>>, executing) = <<>>
  BY OnlyEmpty
<1>2. QED
  BY <1>1 DEF StatementsOf, StmtsOf

\* One message names its statement or none.
LEMMA NamesOne ==
  ASSUME NEW m \in ToServer
  PROVE  /\ StatementsOf(<<m>>) = IF Executing(m) THEN <<m.stmt>> ELSE <<>>
         /\ StatementsOf(<<m>>) \in Seq(Stmts)
<1>1. Only(<<m>>, executing) = IF Executing(m) THEN <<m>> ELSE <<>>
  <2>1. m \in executing <=> Executing(m)
    BY DEF executing
  <2>2. Only(<<m>>, executing) = IF m \in executing THEN <<m>> ELSE <<>>
    BY OnlyOne
  <2>3. QED
    BY <2>1, <2>2
<1>2. StmtsOf(<<m>>) = <<m.stmt>> /\ StmtsOf(<<>>) = <<>>
  BY DEF StmtsOf
<1>3. StatementsOf(<<m>>) = IF Executing(m) THEN <<m.stmt>> ELSE <<>>
  BY <1>1, <1>2 DEF StatementsOf
<1>4. m.stmt \in Stmts
  BY DEF ToServer
<1>5. <<m.stmt>> \in Seq(Stmts) /\ <<>> \in Seq(Stmts)
  BY <1>4
<1>6. QED
  BY <1>3, <1>5

\* What c2s holds and has not written.
HeldC == IF c2s.pc \in {"read", "rewritten", "pushed"} THEN <<>> ELSE <<c2s.msg>>

ScriptLeft ==
    /\ Len(script) <= Len(setup.script)
    /\ script = SubSeq(setup.script, Len(setup.script) - Len(script) + 1, Len(setup.script))

\* Nothing is lost, doubled or reordered on the way to the server.
ExecutedInv ==
    StmtsOf(served) \o (StatementsOf(to_server) \o (StatementsOf(HeldC) \o StatementsOf(to_proxy))) = StatementsOf(Sent)

\* At first all of the script is left and nothing is sent.
LEMMA ScriptLeftInit == Init => ScriptLeft /\ Sent = <<>>
<1> SUFFICES ASSUME Init PROVE ScriptLeft /\ Sent = <<>>
  OBVIOUS
<1>1. script = setup.script /\ script \in Seq(Seq(ToServer))
  BY SetupFacts DEF Init
<1>2. Len(script) \in Nat /\ SubSeq(script, 1, Len(script)) = script /\ SubSeq(script, 1, 0) = <<>>
  BY <1>1
<1>3. ScriptLeft
  BY <1>1, <1>2 DEF ScriptLeft
<1>4. Sent = <<>>
  <2>1. Len(setup.script) - Len(script) = 0 /\ SubSeq(setup.script, 1, 0) = <<>>
    BY <1>1, <1>2
  <2>2. QED
    BY <2>1, FlattenEmpty DEF Sent
<1>5. QED
  BY <1>3, <1>4

\* What is sent is a sequence of messages.
LEMMA SentType ==
  ASSUME Shape, ScriptLeft
  PROVE  Sent \in Seq(ToServer)
<1> DEFINE all == setup.script
           n == Len(all) - Len(script)
<1>1. all \in Seq(Seq(ToServer)) /\ n \in Nat /\ n <= Len(all)
  BY SetupFacts DEF Shape, SetupShape, ScriptLeft
<1> HIDE DEF n
<1>2. SubSeq(all, 1, n) \in Seq(Seq(ToServer))
  BY <1>1
<1>3. QED
  BY <1>2, FlattenType DEF Sent, n

\* Sending a request moves it from the script to what is sent.
LEMMA SentStep ==
  ASSUME Shape, ScriptLeft, ClientSend
  PROVE  /\ ScriptLeft' /\ Sent' = Sent \o Head(script)
         /\ Head(script) \in Seq(ToServer) /\ Request(Head(script))
         /\ Head(script) = setup.script[Len(setup.script) - Len(script) + 1]
         /\ Len(setup.script) - Len(script) + 1 \in DOMAIN setup.script
<1> DEFINE all == setup.script
           n == Len(all) - Len(script)
           l == Len(script)
<1>1. /\ all \in Seq(Seq(ToServer)) /\ script \in Seq(Seq(ToServer)) /\ script # <<>>
      /\ l \in Nat \ {0} /\ n \in Nat /\ Len(all) = n + l
      /\ script' = Tail(script) /\ setup' = setup
  BY SetupFacts DEF Shape, SetupShape, ScriptLeft, ClientSend, toggleVars
<1> HIDE DEF n, l
<1>2. script = SubSeq(all, n + 1, n + l)
  BY <1>1 DEF ScriptLeft, n
<1>3. Head(script) = all[n + 1] /\ n + 1 \in 1 .. Len(all)
  <2>1. n + 1 \in 1 .. Len(all) /\ n + 1 \in Int /\ n + l \in Int /\ n + 1 <= n + l
    BY <1>1
  <2>2. script[1] = all[n + 1]
    BY <1>1, <1>2, <2>1
  <2>3. QED
    BY <1>1, <2>1, <2>2
<1>4. Tail(script) = SubSeq(all, n + 2, n + l) /\ Len(Tail(script)) = l - 1
  <2>1. Len(Tail(script)) = l - 1 /\ Tail(script) \in Seq(Seq(ToServer))
    BY <1>1 DEF l
  <2>2. SubSeq(all, n + 2, n + l) \in Seq(Seq(ToServer)) /\ Len(SubSeq(all, n + 2, n + l)) = l - 1
    BY <1>1
  <2>3. \A i \in 1 .. (l - 1) : Tail(script)[i] = SubSeq(all, n + 2, n + l)[i]
    <3> TAKE i \in 1 .. (l - 1)
    <3>1. Tail(script)[i] = script[i + 1]
      BY <1>1, <2>1
    <3>2. script[i + 1] = all[n + 1 + i]
      BY <1>1, <1>2
    <3>3. SubSeq(all, n + 2, n + l)[i] = all[n + 1 + i]
      BY <1>1
    <3>4. QED
      BY <3>1, <3>2, <3>3
  <2>4. QED
    BY <2>1, <2>2, <2>3, SeqEqual
<1>5. ScriptLeft'
  <2>1. Len(script') = l - 1 /\ Len(all) - (l - 1) + 1 = n + 2 /\ l - 1 <= Len(all) /\ n + l = Len(all)
    BY <1>1, <1>4
  <2>2. script' = SubSeq(all, Len(all) - Len(script') + 1, Len(all))
    BY <1>1, <1>4, <2>1
  <2>3. QED
    BY <1>1, <2>1, <2>2 DEF ScriptLeft
<1>6. SubSeq(all, 1, n + 1) = Append(SubSeq(all, 1, n), all[n + 1])
  <2>1. SubSeq(all, 1, n) \in Seq(Seq(ToServer)) /\ Len(SubSeq(all, 1, n)) = n
    BY <1>1
  <2>2. SubSeq(all, 1, n + 1) \in Seq(Seq(ToServer)) /\ Len(SubSeq(all, 1, n + 1)) = n + 1
    BY <1>1
  <2>3. all[n + 1] \in Seq(ToServer)
    BY <1>1, <1>3
  <2>4. /\ Append(SubSeq(all, 1, n), all[n + 1]) \in Seq(Seq(ToServer))
        /\ Len(Append(SubSeq(all, 1, n), all[n + 1])) = n + 1
    BY <2>1, <2>3
  <2>5. \A i \in 1 .. (n + 1) : SubSeq(all, 1, n + 1)[i] = Append(SubSeq(all, 1, n), all[n + 1])[i]
    BY <1>1, <2>1, <2>2
  <2>6. QED
    BY <2>2, <2>4, <2>5, SeqEqual
<1>7. Sent = FlattenSeq(SubSeq(all, 1, n)) /\ Sent' = FlattenSeq(SubSeq(all, 1, n + 1))
  <2>1. Len(all) - Len(script') = n + 1
    BY <1>1, <1>4
  <2>2. Sent' = FlattenSeq(SubSeq(all, 1, Len(all) - Len(script')))
    BY <1>1 DEF Sent
  <2>3. QED
    BY <2>1, <2>2 DEF Sent, n
<1>8. Sent' = Sent \o Head(script)
  <2>1. SubSeq(all, 1, n) \in Seq(Seq(ToServer)) /\ all[n + 1] \in Seq(ToServer)
    BY <1>1, <1>3
  <2>2. FlattenSeq(SubSeq(all, 1, n)) \in Seq(ToServer)
    BY <2>1, FlattenType
  <2>3. FlattenSeq(Append(SubSeq(all, 1, n), all[n + 1])) = FlattenSeq(SubSeq(all, 1, n)) \o all[n + 1]
    BY <2>1, <2>2, FlattenAppend
  <2>4. QED
    BY <1>3, <1>6, <1>7, <2>3
<1>9. Request(all[n + 1]) /\ n + 1 \in DOMAIN all /\ all[n + 1] \in Seq(ToServer)
  BY <1>1, <1>3, SetupFacts DEF Shape, SetupShape
<1>10. QED
  BY <1>3, <1>5, <1>8, <1>9 DEF n

\* The names of what is on its way.
LEMMA NamesType ==
  ASSUME Shape
  PROVE  /\ StmtsOf(served) \in Seq(Stmts) /\ StatementsOf(to_server) \in Seq(Stmts)
         /\ StatementsOf(HeldC) \in Seq(Stmts) /\ StatementsOf(to_proxy) \in Seq(Stmts)
<1>1. StatementsOf(to_server) \in Seq(Stmts) /\ StatementsOf(to_proxy) \in Seq(Stmts)
  BY NamesConcat DEF Shape, WiresShape
<1>2. StmtsOf(served) \in Seq(Stmts)
  <2>1. \A e \in Served : e.stmt \in Stmts
    BY DEF Served
  <2>2. served \in Seq(Served)
    BY DEF Shape, WiresShape
  <2>3. QED
    BY <2>1, <2>2, StmtsOfConcat
<1>3. StatementsOf(HeldC) \in Seq(Stmts)
  <2>1. CASE c2s.pc \in {"read", "rewritten", "pushed"}
    BY <2>1, NamesEmpty, Concat DEF HeldC
  <2>2. CASE c2s.pc \notin {"read", "rewritten", "pushed"}
    <3>1. c2s.msg \in ToServer /\ HeldC = <<c2s.msg>>
      BY <2>2 DEF Shape, TasksShape, HeldC
    <3>2. QED
      BY <3>1, NamesOne
  <2>3. QED
    BY <2>1, <2>2
<1>4. QED
  BY <1>1, <1>2, <1>3

\* One more message, one more name.
LEMMA NamesAppend ==
  ASSUME NEW q \in Seq(ToServer), NEW m \in ToServer
  PROVE  StatementsOf(Append(q, m)) = StatementsOf(q) \o StatementsOf(<<m>>)
<1>1. Append(q, m) = q \o <<m>> /\ <<m>> \in Seq(ToServer)
  OBVIOUS
<1>2. QED
  BY <1>1, NamesConcat

\* The name of the first message comes first.
LEMMA NamesSplit ==
  ASSUME NEW q \in Seq(ToServer), q # <<>>
  PROVE  StatementsOf(q) = StatementsOf(<<Head(q)>>) \o StatementsOf(Tail(q)) /\ StatementsOf(Tail(q)) \in Seq(Stmts)
<1>1. Head(q) \in ToServer /\ Tail(q) \in Seq(ToServer) /\ q = <<Head(q)>> \o Tail(q)
  BY HeadTail
<1>2. <<Head(q)>> \in Seq(ToServer)
  BY <1>1
<1>3. StatementsOf(<<Head(q)>> \o Tail(q)) = StatementsOf(<<Head(q)>>) \o StatementsOf(Tail(q)) /\ StatementsOf(Tail(q)) \in Seq(Stmts)
  BY <1>1, <1>2, NamesConcat
<1>4. QED
  BY <1>1, <1>3

\* A step that leaves the wires to the server and what c2s holds alone.
LEMMA ExecutedStays ==
  ASSUME ExecutedInv, UNCHANGED <<setup, script, served, to_server, to_proxy>>, StatementsOf(HeldC)' = StatementsOf(HeldC)
  PROVE  ExecutedInv'
BY DEF ExecutedInv, StatementsOf, Sent, StmtsOf

\* Steps that leave the script alone.
LEMMA ScriptLeftStays ==
  ASSUME ScriptLeft, UNCHANGED <<setup, script>>
  PROVE  ScriptLeft'
BY DEF ScriptLeft

\* What is left of the script is always its end.
LEMMA ScriptLeftStep ==
  ASSUME Shape, ScriptLeft, [Next]_vars
  PROVE  ScriptLeft'
<1>1. CASE ClientSend
  BY <1>1, SentStep
<1>2. CASE ~ClientSend
  <2>1. UNCHANGED <<setup, script>>
    BY <1>2 DEF Next, vars, ClientReceive, Server, C2S, C2SRead, C2SRewrite, C2SPushInjected, C2SSuppress,
                C2SQuery, C2SParse, C2SDescribe, C2SBind, C2SWrite, S2C, S2CRead, S2CParameterDescription,
                S2CRowDescription, S2CDataRow, S2CComplete, S2CPop, S2CError, S2CForward, BufferFull,
                Toggle, clientVars, toggleVars
  <2>2. QED
    BY <2>1, ScriptLeftStays
<1>3. QED
  BY <1>1, <1>2

\* Every step keeps the order of the statements on their way.
LEMMA ExecutedStep ==
  ASSUME Shape, ScriptLeft, ExecutedInv, [Next]_vars
  PROVE  ExecutedInv'
<1> DEFINE W == StmtsOf(served)
           T == StatementsOf(to_server)
           H == StatementsOf(HeldC)
           P == StatementsOf(to_proxy)
<1>1. /\ W \in Seq(Stmts) /\ T \in Seq(Stmts) /\ H \in Seq(Stmts) /\ P \in Seq(Stmts)
      /\ StatementsOf(Sent) \in Seq(Stmts)
  BY NamesType, SentType, NamesConcat
<1>2. W \o (T \o (H \o P)) = StatementsOf(Sent)
  BY DEF ExecutedInv
<1>3. ASSUME UNCHANGED vars PROVE ExecutedInv'
  BY <1>3, ExecutedStays DEF vars, clientVars, serverVars, wires, toggleVars, HeldC, StatementsOf, StmtsOf
<1>4. ASSUME ClientSend PROVE ExecutedInv'
  <2>1. Sent' = Sent \o Head(script) /\ Head(script) \in Seq(ToServer)
    BY <1>4, SentStep
  <2>2. /\ to_proxy' = to_proxy \o Head(script)
        /\ UNCHANGED <<served, to_server, c2s>>
    BY <1>4 DEF ClientSend, serverVars
  <2>3. StatementsOf(Sent') = StatementsOf(Sent) \o StatementsOf(Head(script)) /\ StatementsOf(Head(script)) \in Seq(Stmts)
    BY <2>1, SentType, NamesConcat
  <2>4. StatementsOf(to_proxy') = P \o StatementsOf(Head(script))
    BY <2>1, <2>2, NamesConcat DEF Shape, WiresShape
  <2>5. W \o (T \o (H \o (P \o StatementsOf(Head(script))))) = (W \o (T \o (H \o P))) \o StatementsOf(Head(script))
    <3> HIDE DEF W, T, H, P
    <3>1. PICK w \in Seq(Stmts), t \in Seq(Stmts), h \in Seq(Stmts), p \in Seq(Stmts), n \in Seq(Stmts) :
            w = W /\ t = T /\ h = H /\ p = P /\ n = StatementsOf(Head(script))
      BY <1>1, <2>3
    <3>2. Cat(w, Cat(t, Cat(h, Cat(p, n)))) = Cat(Cat(w, Cat(t, Cat(h, p))), n)
      BY SeqMonoid, Regroup
    <3>3. QED
      BY <3>1, <3>2 DEF Cat
  <2>6. QED
    BY <1>2, <2>2, <2>3, <2>4, <2>5 DEF ExecutedInv, HeldC, StatementsOf, StmtsOf
<1>5. ASSUME ClientReceive PROVE ExecutedInv'
  BY <1>5, ExecutedStays DEF ClientReceive, serverVars, toggleVars, HeldC, StatementsOf, StmtsOf
<1>6. ASSUME Server PROVE ExecutedInv'
  <2>1. PICK m \in ToServer, ok \in BOOLEAN, rows \in BOOLEAN :
          /\ to_server = <<m>> \o to_server' /\ to_server' \in Seq(ToServer)
          /\ Outcome(m, ok, rows)
    BY <1>6, ServerStep
  <2>2. T = StatementsOf(<<m>>) \o StatementsOf(to_server') /\ StatementsOf(to_server') \in Seq(Stmts)
        /\ StatementsOf(<<m>>) \in Seq(Stmts)
    <3>1. <<m>> \in Seq(ToServer)
      OBVIOUS
    <3>2. /\ StatementsOf(<<m>> \o to_server') = StatementsOf(<<m>>) \o StatementsOf(to_server')
          /\ StatementsOf(to_server') \in Seq(Stmts) /\ StatementsOf(<<m>>) \in Seq(Stmts)
      BY <2>1, <3>1, NamesConcat
    <3>3. QED
      BY <2>1, <3>2
  <2>3. StmtsOf(served') = W \o StatementsOf(<<m>>)
    <3>1. served \in Seq(Served) /\ \A e \in Served : e.stmt \in Stmts
      BY DEF Shape, WiresShape, Served
    <3>2. CASE Executing(m)
      <4> DEFINE d == [stmt |-> m.stmt, ok |-> ok, rows |-> rows]
      <4>1. d \in Served /\ d.stmt = m.stmt
        BY DEF Served, ToServer
      <4> HIDE DEF d
      <4>2. served' = served \o <<d>> /\ <<d>> \in Seq(Served)
        BY <2>1, <3>1, <3>2, <4>1 DEF Outcome, d
      <4>3. StmtsOf(served \o <<d>>) = StmtsOf(served) \o StmtsOf(<<d>>)
        BY <3>1, <4>2, StmtsOfConcat
      <4>4. StmtsOf(<<d>>) = <<m.stmt>>
        BY <4>1 DEF StmtsOf
      <4>5. StatementsOf(<<m>>) = <<m.stmt>>
        BY <3>2, NamesOne
      <4>6. QED
        BY <4>2, <4>3, <4>4, <4>5
    <3>3. CASE ~Executing(m)
      <4>1. served' = served /\ StatementsOf(<<m>>) = <<>>
        BY <2>1, <3>3, NamesOne DEF Outcome
      <4>2. QED
        BY <1>1, <4>1, Concat
    <3>4. QED
      BY <3>2, <3>3
  <2>4. UNCHANGED <<setup, script, c2s, to_proxy>>
    BY <1>6 DEF Server, clientVars, toggleVars
  <2> HIDE DEF W, T, H, P
  <2>5. (W \o StatementsOf(<<m>>)) \o (StatementsOf(to_server') \o (H \o P))
          = W \o ((StatementsOf(<<m>>) \o StatementsOf(to_server')) \o (H \o P))
    <3>1. PICK w \in Seq(Stmts), t \in Seq(Stmts), h \in Seq(Stmts), p \in Seq(Stmts), n \in Seq(Stmts) :
            w = W /\ t = StatementsOf(to_server') /\ h = H /\ p = P /\ n = StatementsOf(<<m>>)
      BY <1>1, <2>2
    <3>2. Cat(Cat(w, n), Cat(t, Cat(h, p))) = Cat(w, Cat(Cat(n, t), Cat(h, p)))
      BY SeqMonoid, Regroup
    <3>3. QED
      BY <3>1, <3>2 DEF Cat
  <2>6. StmtsOf(served') \o (StatementsOf(to_server') \o (H \o P)) = StatementsOf(Sent)
    BY <1>2, <2>2, <2>3, <2>5
  <2>7. QED
    BY <2>4, <2>6 DEF ExecutedInv, HeldC, StatementsOf, StmtsOf, Sent, H, P
<1>7. ASSUME C2SRead PROVE ExecutedInv'
  <2>1. /\ to_proxy \in Seq(ToServer) /\ to_proxy # <<>> /\ to_proxy' = Tail(to_proxy)
        /\ UNCHANGED <<setup, script, served, to_server>>
    BY <1>7 DEF C2SRead, Shape, WiresShape, clientVars, serverVars, toggleVars
  <2>2. HeldC = <<>> /\ HeldC' = <<Head(to_proxy)>>
    BY <1>7 DEF C2SRead, HeldC, untracked
  <2>3. H = <<>> /\ StatementsOf(HeldC') = StatementsOf(<<Head(to_proxy)>>)
    BY <2>2, NamesEmpty
  <2>4. Head(to_proxy) \in ToServer
    BY <2>1, HeadTail
  <2>5. P = StatementsOf(<<Head(to_proxy)>>) \o StatementsOf(Tail(to_proxy)) /\ StatementsOf(Tail(to_proxy)) \in Seq(Stmts)
        /\ StatementsOf(<<Head(to_proxy)>>) \in Seq(Stmts)
    BY <2>1, <2>4, NamesSplit, NamesOne
  <2>6. W \o (T \o (StatementsOf(HeldC') \o StatementsOf(to_proxy'))) = StatementsOf(Sent)
    <3> HIDE DEF W, T, H, P
    <3>1. H \o P = P
      BY <1>1, <2>3, Concat
    <3>2. QED
      BY <1>2, <2>1, <2>3, <2>5, <3>1
  <2>7. QED
    BY <2>1, <2>6 DEF ExecutedInv, StatementsOf, StmtsOf, Sent
\* What is written to the server is what c2s held.
<1>8. ASSUME NEW m \in ToServer, to_server' = Append(to_server, m), HeldC' = <<>>,
             H = StatementsOf(<<m>>), UNCHANGED <<setup, script, served, to_proxy>>
      PROVE  ExecutedInv'
  <2>1. StatementsOf(to_server') = T \o StatementsOf(<<m>>) /\ StatementsOf(<<m>>) \in Seq(Stmts)
    BY <1>8, NamesAppend, NamesOne DEF Shape, WiresShape
  <2>2. StatementsOf(HeldC') = <<>>
    BY <1>8, NamesEmpty
  <2>3. W \o (StatementsOf(to_server') \o (StatementsOf(HeldC') \o P)) = StatementsOf(Sent)
    <3> HIDE DEF W, T, H, P
    <3>1. (T \o StatementsOf(<<m>>)) \o P = T \o (StatementsOf(<<m>>) \o P) /\ <<>> \o P = P
      <4>1. /\ \A a, b, c \in Seq(Stmts) : (a \o b) \o c = a \o (b \o c)
            /\ \A a \in Seq(Stmts) : <<>> \o a = a
        BY Concat, Zenon
      <4>2. PICK t \in Seq(Stmts), n \in Seq(Stmts), p \in Seq(Stmts) : t = T /\ n = StatementsOf(<<m>>) /\ p = P
        BY <1>1, <2>1
      <4>3. (t \o n) \o p = t \o (n \o p) /\ <<>> \o p = p
        BY <4>1, ZenonT(40)
      <4>4. QED
        BY <4>2, <4>3, ZenonT(40)
    <3>2. QED
      BY <1>2, <1>8, <2>1, <2>2, <3>1
  <2>4. QED
    BY <1>8, <2>3 DEF ExecutedInv, StatementsOf, StmtsOf, Sent
<1>9. ASSUME C2SRewrite PROVE ExecutedInv'
  <2> DEFINE m == [c2s.msg EXCEPT !.injected = TRUE]
  <2>1. c2s.msg \in ToServer /\ HeldC = <<c2s.msg>> /\ HeldC' = <<>>
    BY <1>9 DEF C2SRewrite, Shape, TasksShape, HeldC
  <2>2. m \in ToServer /\ m.type = c2s.msg.type /\ m.stmt = c2s.msg.stmt
    BY <2>1 DEF ToServer
  <2>3. to_server' = Append(to_server, m) /\ UNCHANGED <<setup, script, served, to_proxy>>
    BY <1>9 DEF C2SRewrite, clientVars, serverVars, toggleVars
  <2> HIDE DEF m
  <2>4. Executing(m) <=> Executing(c2s.msg)
    BY <2>2 DEF Executing
  <2>5. StatementsOf(<<m>>) = StatementsOf(<<c2s.msg>>)
    BY <2>1, <2>2, <2>4, NamesOne
  <2>6. QED
    BY <1>8, <2>1, <2>2, <2>3, <2>5
<1>10. ASSUME C2SWrite PROVE ExecutedInv'
  <2>1. c2s.msg \in ToServer /\ HeldC = <<c2s.msg>> /\ HeldC' = <<>>
    BY <1>10 DEF C2SWrite, Shape, TasksShape, HeldC, Idle
  <2>2. to_server' = Append(to_server, c2s.msg) /\ UNCHANGED <<setup, script, served, to_proxy>>
    BY <1>10 DEF C2SWrite, clientVars, serverVars, toggleVars
  <2>3. QED
    BY <1>8, <2>1, <2>2
<1>11. ASSUME C2SPushInjected \/ C2SSuppress \/ C2SQuery \/ C2SParse \/ C2SDescribe \/ C2SBind
       PROVE  ExecutedInv'
  <2>1. HeldC' = HeldC
    BY <1>11 DEF HeldC, C2SPushInjected, C2SSuppress, C2SQuery, C2SParse, C2SDescribe, C2SBind,
                 after_injection, Shape, TasksShape
  <2>2. UNCHANGED <<setup, script, served, to_server, to_proxy>>
    BY <1>11 DEF C2SPushInjected, C2SSuppress, C2SQuery, C2SParse, C2SDescribe, C2SBind,
                 clientVars, serverVars, wires, toggleVars
  <2>3. QED
    BY <2>1, <2>2, ExecutedStays DEF StatementsOf, StmtsOf
<1>12. ASSUME S2C \/ BufferFull \/ Toggle PROVE ExecutedInv'
  <2>1. UNCHANGED <<setup, script, served, to_server, to_proxy, c2s>>
    BY <1>12 DEF S2C, S2CRead, S2CParameterDescription, S2CRowDescription, S2CDataRow, S2CComplete,
                 S2CPop, S2CError, S2CForward, BufferFull, Toggle, clientVars, serverVars, wires, toggleVars
  <2>2. QED
    BY <2>1, ExecutedStays DEF HeldC, StatementsOf, StmtsOf
<1>13. QED
  BY <1>3, <1>4, <1>5, <1>6, <1>7, <1>9, <1>10, <1>11, <1>12 DEF Next, C2S

\* What is joined to a sequence is a sequence it is a prefix of.
LEMMA PrefixOfConcat ==
  ASSUME NEW S, NEW a \in Seq(S), NEW b \in Seq(S)
  PROVE  IsPrefix(a, a \o b)
<1>1. a \o b \in Seq(S) /\ Len(a) \in Nat /\ Len(a \o b) \in Nat /\ Len(a) <= Len(a \o b)
  OBVIOUS
<1>2. SubSeq(a, 1, Len(a)) = SubSeq(a \o b, 1, Len(a))
  <2>1. SubSeq(a, 1, Len(a)) \in Seq(S) /\ Len(SubSeq(a, 1, Len(a))) = Len(a)
    OBVIOUS
  <2>2. SubSeq(a \o b, 1, Len(a)) \in Seq(S) /\ Len(SubSeq(a \o b, 1, Len(a))) = Len(a)
    BY <1>1
  <2>3. \A i \in 1 .. Len(a) : SubSeq(a, 1, Len(a))[i] = SubSeq(a \o b, 1, Len(a))[i]
    BY <1>1, <2>1, <2>2
  <2>4. QED
    BY <2>1, <2>2, <2>3, SeqEqual
<1>3. QED
  BY <1>1, <1>2 DEF IsPrefix

\* The server executes what the client has sent, each statement once and in
\* order, whatever is rewritten, skipped after an error or in transit
\* (relay_client_to_server).
THEOREM ExecutedCorrect == Spec => []ExecutedOnce
<1>1. Init => Shape /\ ScriptLeft /\ ExecutedInv
  <2> SUFFICES ASSUME Init PROVE Shape /\ ScriptLeft /\ ExecutedInv
    OBVIOUS
  <2>1. Shape /\ ScriptLeft /\ Sent = <<>>
    BY InitShape, ScriptLeftInit
  <2>2. StmtsOf(served) = <<>> /\ HeldC = <<>> /\ to_server = <<>> /\ to_proxy = <<>>
    BY DEF Init, HeldC, Idle, StmtsOf
  <2>3. ExecutedInv
    <3>1. StatementsOf(HeldC) = <<>> /\ StatementsOf(to_server) = <<>> /\ StatementsOf(to_proxy) = <<>> /\ StatementsOf(Sent) = <<>>
      BY <2>1, <2>2, NamesEmpty
    <3>2. <<>> \o (<<>> \o (<<>> \o <<>>)) = <<>>
      OBVIOUS
    <3>3. QED
      BY <2>2, <3>1, <3>2 DEF ExecutedInv
  <2>4. QED
    BY <2>1, <2>3
<1>2. Shape /\ ScriptLeft /\ ExecutedInv /\ [Next]_vars => (Shape /\ ScriptLeft /\ ExecutedInv)'
  <2> SUFFICES ASSUME Shape, ScriptLeft, ExecutedInv, [Next]_vars
               PROVE  Shape' /\ ScriptLeft' /\ ExecutedInv'
    OBVIOUS
  <2>1. Shape' /\ ExecutedInv'
    BY ShapeStep, ExecutedStep
  <2>2. ScriptLeft'
    BY ScriptLeftStep
  <2>3. QED
    BY <2>1, <2>2
<1>3. Shape /\ ScriptLeft /\ ExecutedInv => ExecutedOnce
  <2> SUFFICES ASSUME Shape, ScriptLeft, ExecutedInv PROVE ExecutedOnce
    OBVIOUS
  <2> DEFINE rest == StatementsOf(to_server) \o (StatementsOf(HeldC) \o StatementsOf(to_proxy))
  <2>1. StmtsOf(served) \in Seq(Stmts) /\ rest \in Seq(Stmts)
    BY NamesType
  <2>2. StmtsOf(served) \o rest = StatementsOf(Sent)
    BY DEF ExecutedInv
  <2>3. ASSUME Quiescent PROVE rest = <<>>
    BY <2>3, NamesEmpty DEF Quiescent, HeldC
  <2> HIDE DEF rest
  <2>4. IsPrefix(StmtsOf(served), StatementsOf(Sent))
    BY <2>1, <2>2, PrefixOfConcat
  <2>5. Quiescent => StmtsOf(served) = StatementsOf(Sent)
    BY <2>1, <2>2, <2>3, ConcatEmptySeq
  <2>6. QED
    BY <2>4, <2>5 DEF ExecutedOnce, StatementsOf, executing
<1>4. QED
  BY <1>1, <1>2, <1>3, PTL DEF Spec

-----------------------------------------------------------------------------
(***************************************************************************)
(* What the server writes is what the client reads.                        *)
(***************************************************************************)
Kept == {m \in FromServer : Hiding => Protocol(m)}

HeldS == IF s2c.pc = "read" THEN <<>> ELSE <<s2c.msg>>

TransparentInv ==
    Only(received, Kept) \o
      (Only(to_client, Kept) \o
        (Only(client_buf, Kept) \o (Only(HeldS, Kept) \o Only(from_server, Kept))))
    = Only(replied, Kept)

\* Rows are hidden only where an INSERT was rewritten.
HidingInv ==
    /\ suppress_response => Hiding
    /\ c2s.pc \in {"rewrite", "rewritten", "pushed"} => setup.implicit

\* Every step keeps it so.
LEMMA HidingStep ==
  ASSUME Shape, HidingInv, [Next]_vars
  PROVE  HidingInv'
<1>1. ASSUME UNCHANGED vars PROVE HidingInv'
  BY <1>1 DEF vars, correlateVars, toggleVars, HidingInv, Hiding
<1>2. ASSUME C2SRead PROVE HidingInv'
  <2>1. c2s'.pc = "rewrite" => setup.implicit
    BY <1>2 DEF C2SRead, untracked, Injects
  <2>2. c2s'.pc \notin {"rewritten", "pushed"}
    BY <1>2 DEF C2SRead, untracked
  <2>3. UNCHANGED <<setup, suppress_response>>
    BY <1>2 DEF C2SRead, correlateVars, toggleVars
  <2>4. QED
    BY <2>1, <2>2, <2>3 DEF HidingInv, Hiding
<1>3. ASSUME C2SSuppress PROVE HidingInv'
  <2>1. setup.implicit /\ setup' = setup /\ c2s'.pc = "read"
    BY <1>3 DEF C2SSuppress, HidingInv, toggleVars, after_injection, Shape, TasksShape
  <2>2. suppress_response' => suppress_response \/ setup.stealth
    BY <1>3, SetupFacts DEF C2SSuppress, Shape, SetupShape, SharedShape
  <2>3. QED
    BY <2>1, <2>2 DEF HidingInv, Hiding
<1>4. ASSUME C2SRewrite \/ C2SPushInjected \/ C2SQuery \/ C2SParse \/ C2SDescribe \/ C2SBind \/ C2SWrite
      PROVE  HidingInv'
  <2>1. c2s'.pc \in {"rewrite", "rewritten", "pushed"} => c2s.pc \in {"rewrite", "rewritten", "pushed"}
    <3>1. CASE C2SRewrite
      BY <3>1 DEF C2SRewrite
    <3>2. CASE C2SPushInjected
      BY <3>2 DEF C2SPushInjected
    <3>3. CASE C2SQuery \/ C2SParse \/ C2SDescribe \/ C2SBind
      <4>1. c2s'.pc = "write"
        BY <3>3 DEF C2SQuery, C2SParse, C2SDescribe, C2SBind, Shape, TasksShape
      <4>2. QED
        BY <4>1
    <3>4. CASE C2SWrite
      BY <3>4 DEF C2SWrite, Idle
    <3>5. QED
      BY <1>4, <3>1, <3>2, <3>3, <3>4
  <2>2. UNCHANGED <<setup, suppress_response>>
    BY <1>4 DEF C2SRewrite, C2SPushInjected, C2SQuery, C2SParse, C2SDescribe, C2SBind, C2SWrite,
                correlateVars, toggleVars
  <2>3. QED
    BY <2>1, <2>2 DEF HidingInv, Hiding
<1>5. ASSUME ClientSend \/ ClientReceive \/ Server \/ S2C \/ BufferFull \/ Toggle
      PROVE  HidingInv'
  <2>1. UNCHANGED <<setup, c2s>>
    BY <1>5 DEF ClientSend, ClientReceive, Server, S2C, S2CRead, S2CParameterDescription, S2CRowDescription,
                S2CDataRow, S2CComplete, S2CPop, S2CError, S2CForward, BufferFull, Toggle, toggleVars
  <2>2. suppress_response' => suppress_response
    BY <1>5 DEF ClientSend, ClientReceive, Server, S2C, S2CRead, S2CParameterDescription, S2CRowDescription,
                S2CDataRow, S2CComplete, S2CPop, S2CError, S2CForward, BufferFull, Toggle, correlateVars,
                Shape, SharedShape
  <2>3. QED
    BY <2>1, <2>2 DEF HidingInv, Hiding
<1>6. QED
  BY <1>1, <1>2, <1>3, <1>4, <1>5 DEF Next, C2S

\* Members of the kept messages, part by part.
LEMMA KeptType ==
  ASSUME NEW K, NEW q \in Seq(FromServer)
  PROVE  Only(q, K) \in Seq(FromServer)
BY OnlyConcat

\* The kept messages of two parts.
LEMMA KeptConcat ==
  ASSUME NEW K, NEW p \in Seq(FromServer), NEW q \in Seq(FromServer)
  PROVE  Only(p \o q, K) = Cat(Only(p, K), Only(q, K))
BY OnlyConcat, ZenonT(60) DEF Cat

\* One more message.
LEMMA KeptAppend ==
  ASSUME NEW K, NEW q \in Seq(FromServer), NEW m \in FromServer
  PROVE  Only(Append(q, m), K) = Cat(Only(q, K), Only(<<m>>, K)) /\ Only(<<m>>, K) \in Seq(FromServer)
<1>1. Append(q, m) = q \o <<m>> /\ <<m>> \in Seq(FromServer)
  OBVIOUS
<1>2. QED
  BY <1>1, KeptConcat, KeptType

\* The first message comes first.
LEMMA KeptSplit ==
  ASSUME NEW K, NEW q \in Seq(FromServer), q # <<>>
  PROVE  /\ Only(q, K) = Cat(Only(<<Head(q)>>, K), Only(Tail(q), K)) /\ Head(q) \in FromServer
         /\ Only(<<Head(q)>>, K) \in Seq(FromServer) /\ Only(Tail(q), K) \in Seq(FromServer)
<1>1. Head(q) \in FromServer /\ Tail(q) \in Seq(FromServer) /\ q = <<Head(q)>> \o Tail(q)
  BY HeadTail
<1>2. <<Head(q)>> \in Seq(FromServer)
  BY <1>1
<1>3. /\ Only(<<Head(q)>> \o Tail(q), K) = Cat(Only(<<Head(q)>>, K), Only(Tail(q), K))
      /\ Only(<<Head(q)>>, K) \in Seq(FromServer) /\ Only(Tail(q), K) \in Seq(FromServer)
  BY <1>1, <1>2, KeptConcat, KeptType
<1>4. QED
  BY <1>1, <1>3

\* The five parts of what the client has read, will read, or could read, joined.
Five(a, b, c, d, e) == Cat(a, Cat(b, Cat(c, Cat(d, e))))

\* Moving a message over to the next of the five parts.
LEMMA FiveLaws ==
  ASSUME NEW Q, Monoid(Q), NEW a \in Q, NEW b \in Q, NEW c \in Q, NEW d \in Q, NEW e \in Q, NEW x \in Q
  PROVE  /\ Five(a, b, Cat(c, x), <<>>, e) = Five(a, b, c, x, e)
         /\ Five(a, Cat(b, Cat(c, x)), <<>>, <<>>, e) = Five(a, b, c, x, e)
         /\ Five(a, Cat(b, c), <<>>, d, e) = Five(a, b, c, d, e)
         /\ Five(a, b, c, d, Cat(e, x)) = Cat(Five(a, b, c, d, e), x)
<1> USE DEF Monoid, Five
<1>1. /\ Cat(d, e) \in Q /\ Cat(c, Cat(d, e)) \in Q /\ Cat(b, Cat(c, Cat(d, e))) \in Q
      /\ Cat(x, e) \in Q /\ Cat(c, x) \in Q /\ Cat(b, c) \in Q /\ Cat(e, x) \in Q
  OBVIOUS
<1>2. Five(a, b, Cat(c, x), <<>>, e) = Five(a, b, c, x, e)
  BY <1>1
<1>3. Five(a, Cat(b, Cat(c, x)), <<>>, <<>>, e) = Five(a, b, c, x, e)
  <2>1. Cat(<<>>, Cat(<<>>, e)) = e
    OBVIOUS
  <2>2. Cat(Cat(b, Cat(c, x)), e) = Cat(b, Cat(Cat(c, x), e))
    BY <1>1
  <2>3. Cat(Cat(c, x), e) = Cat(c, Cat(x, e))
    OBVIOUS
  <2>4. QED
    BY <2>1, <2>2, <2>3
<1>4. Five(a, Cat(b, c), <<>>, d, e) = Five(a, b, c, d, e)
  BY <1>1
<1>5. Five(a, b, c, d, Cat(e, x)) = Cat(Five(a, b, c, d, e), x)
  <2>1. Cat(d, Cat(e, x)) = Cat(Cat(d, e), x)
    OBVIOUS
  <2>2. Cat(c, Cat(Cat(d, e), x)) = Cat(Cat(c, Cat(d, e)), x)
    BY <1>1
  <2>3. Cat(b, Cat(Cat(c, Cat(d, e)), x)) = Cat(Cat(b, Cat(c, Cat(d, e))), x)
    BY <1>1
  <2>4. Cat(a, Cat(Cat(b, Cat(c, Cat(d, e))), x)) = Cat(Cat(a, Cat(b, Cat(c, Cat(d, e)))), x)
    BY <1>1
  <2>5. QED
    BY <2>1, <2>2, <2>3, <2>4
<1>6. QED
  BY <1>2, <1>3, <1>4, <1>5


\* The five parts hold messages of the server.
LEMMA KeptParts ==
  ASSUME Shape, NEW K
  PROVE  /\ Only(received, K) \in Seq(FromServer) /\ Only(to_client, K) \in Seq(FromServer)
         /\ Only(client_buf, K) \in Seq(FromServer) /\ Only(HeldS, K) \in Seq(FromServer)
         /\ Only(from_server, K) \in Seq(FromServer) /\ Only(replied, K) \in Seq(FromServer)
<1>1. HeldS \in Seq(FromServer)
  <2>1. CASE s2c.pc = "read"
    BY <2>1, Concat DEF HeldS
  <2>2. CASE s2c.pc # "read"
    <3>1. s2c.msg \in FromServer /\ HeldS = <<s2c.msg>>
      BY <2>2 DEF Shape, TasksShape, HeldS
    <3>2. QED
      BY <3>1
  <2>3. QED
    BY <2>1, <2>2
<1>2. QED
  BY <1>1, KeptType DEF Shape, WiresShape

\* Every step keeps the kept messages in order.
LEMMA TransparentStep ==
  ASSUME Shape, HidingInv, TransparentInv, [Next]_vars
  PROVE  TransparentInv'
<1>1. PICK K : K = Kept
  OBVIOUS
<1>2. Kept' = K
  <2>1. setup' = setup
    BY DEF Next, vars, ClientSend, ClientReceive, Server, C2S, C2SRead, C2SRewrite, C2SPushInjected, C2SSuppress,
           C2SQuery, C2SParse, C2SDescribe, C2SBind, C2SWrite, S2C, S2CRead, S2CParameterDescription,
           S2CRowDescription, S2CDataRow, S2CComplete, S2CPop, S2CError, S2CForward, BufferFull, Toggle, toggleVars
  <2>2. QED
    BY <1>1, <2>1 DEF Kept, Hiding
<1> DEFINE a == Only(received, K)
           b == Only(to_client, K)
           c == Only(client_buf, K)
           d == Only(HeldS, K)
           e == Only(from_server, K)
<1>3. /\ a \in Seq(FromServer) /\ b \in Seq(FromServer) /\ c \in Seq(FromServer)
      /\ d \in Seq(FromServer) /\ e \in Seq(FromServer) /\ Only(replied, K) \in Seq(FromServer)
  BY KeptParts
<1> PICK Q : Q = Seq(FromServer)
  OBVIOUS
<1>4. Monoid(Q) /\ a \in Q /\ b \in Q /\ c \in Q /\ d \in Q /\ e \in Q
  BY <1>3, SeqMonoid
<1>5. Five(a, b, c, d, e) = Only(replied, K)
  BY <1>1 DEF TransparentInv, Five, Cat
<1>6. SUFFICES Five(Only(received', K), Only(to_client', K), Only(client_buf', K), Only(HeldS', K), Only(from_server', K))
                 = Only(replied', K)
  BY <1>2 DEF TransparentInv, Five, Cat, Only
<1> DEFINE Goal == Five(Only(received', K), Only(to_client', K), Only(client_buf', K), Only(HeldS', K), Only(from_server', K))
                     = Only(replied', K)
<1>7. ASSUME UNCHANGED <<received, to_client, client_buf, from_server, replied>>, HeldS' = HeldS
      PROVE  Goal
  BY <1>5, <1>7
<1>8. ASSUME UNCHANGED vars PROVE Goal
  BY <1>7, <1>8 DEF vars, clientVars, serverVars, wires, HeldS
<1>9. ASSUME ClientReceive PROVE Goal
  <2>1. /\ to_client \in Seq(FromServer) /\ to_client # <<>> /\ received \in Seq(FromServer)
        /\ received' = Append(received, Head(to_client)) /\ to_client' = Tail(to_client)
        /\ UNCHANGED <<client_buf, from_server, replied, s2c>>
    BY <1>9 DEF ClientReceive, serverVars, Shape, WiresShape
  <2>2. PICK x \in Seq(FromServer) : x = Only(<<Head(to_client)>>, K)
    BY <2>1, KeptSplit
  <2>3. Only(received', K) = Cat(a, x) /\ b = Cat(x, Only(to_client', K)) /\ Only(to_client', K) \in Seq(FromServer)
    BY <2>1, <2>2, KeptSplit, KeptAppend
  <2>4. HeldS' = HeldS
    BY <2>1 DEF HeldS
  <2> HIDE DEF a, b, c, d, e
  <2>5. Five(Cat(a, x), Only(to_client', K), c, d, e) = Five(a, Cat(x, Only(to_client', K)), c, d, e)
    <3>1. PICK y : y = Only(to_client', K)
      OBVIOUS
    <3>2. x \in Q /\ y \in Q
      BY <2>3, <3>1
    <3>3. Five(Cat(a, x), y, c, d, e) = Five(a, Cat(x, y), c, d, e)
      <4>1. PICK r : r = Cat(c, Cat(d, e))
        OBVIOUS
      <4>2. r \in Q /\ Cat(y, r) \in Q
        BY ONLY <1>4, <3>2, <4>1 DEF Monoid
      <4>3. Cat(Cat(a, x), Cat(y, r)) = Cat(a, Cat(x, Cat(y, r)))
        BY ONLY <1>4, <3>2, <4>2 DEF Monoid
      <4>4. Cat(Cat(x, y), r) = Cat(x, Cat(y, r))
        BY ONLY <1>4, <3>2, <4>2 DEF Monoid
      <4>5. QED
        BY ONLY <4>1, <4>3, <4>4 DEF Five
    <3>4. QED
      BY <3>1, <3>3
  <2>6. QED
    BY <1>5, <2>1, <2>3, <2>4, <2>5 DEF c, d, e
<1>10. ASSUME Server PROVE Goal
  <2>1. PICK r \in Seq(FromServer) : from_server' = from_server \o r /\ replied' = replied \o r
    BY <1>10, ServerStep
  <2>2. UNCHANGED <<received, to_client, client_buf, s2c>>
    BY <1>10 DEF Server, clientVars
  <2>3. PICK x \in Seq(FromServer) : x = Only(r, K)
    BY KeptType
  <2>4. Only(from_server', K) = Cat(e, x) /\ Only(replied', K) = Cat(Only(replied, K), x)
    BY <2>1, <2>3, KeptConcat DEF Shape, WiresShape
  <2>5. HeldS' = HeldS
    BY <2>2 DEF HeldS
  <2> HIDE DEF a, b, c, d, e
  <2>6. Five(a, b, c, d, Cat(e, x)) = Cat(Five(a, b, c, d, e), x)
    <3>1. x \in Q
      OBVIOUS
    <3>2. QED
      BY ONLY <1>4, <3>1, FiveLaws, SMTT(60)
  <2>7. QED
    BY <1>5, <2>2, <2>4, <2>5, <2>6 DEF a, b, c, d
<1>11. ASSUME S2CRead PROVE Goal
  <2>1. /\ from_server \in Seq(FromServer) /\ from_server # <<>> /\ from_server' = Tail(from_server)
        /\ UNCHANGED <<received, to_client, client_buf, replied>>
    BY <1>11 DEF S2CRead, clientVars, serverVars, Shape, WiresShape
  <2>2. HeldS = <<>> /\ HeldS' = <<Head(from_server)>>
    <3>1. s2c.pc = "read" /\ s2c'.msg = Head(from_server) /\ s2c'.pc # "read"
      BY <1>11 DEF S2CRead
    <3>2. QED
      BY <3>1 DEF HeldS
  <2>3. PICK x \in Seq(FromServer) : x = Only(<<Head(from_server)>>, K)
    BY <2>1, KeptSplit
  <2>4. Only(HeldS', K) = x /\ d = <<>> /\ e = Cat(x, Only(from_server', K)) /\ Only(from_server', K) \in Seq(FromServer)
    BY <2>1, <2>2, <2>3, KeptSplit, OnlyEmpty
  <2> HIDE DEF a, b, c, d, e
  <2>5. Five(a, b, c, <<>>, Cat(x, Only(from_server', K))) = Five(a, b, c, x, Only(from_server', K))
    <3>1. PICK y : y = Only(from_server', K)
      OBVIOUS
    <3>2. x \in Q /\ y \in Q
      BY <2>4, <3>1
    <3>3. Five(a, b, c, <<>>, Cat(x, y)) = Five(a, b, c, x, y)
      BY ONLY <1>4, <3>2 DEF Five, Monoid
    <3>4. QED
      BY <3>1, <3>3
  <2>6. QED
    BY <1>5, <2>1, <2>4, <2>5 DEF a, b, c
<1>12. ASSUME S2CForward PROVE Goal
  <2>1. /\ s2c.msg \in FromServer /\ HeldS = <<s2c.msg>> /\ HeldS' = <<>>
        /\ UNCHANGED <<received, from_server, replied>>
    BY <1>12 DEF S2CForward, clientVars, serverVars, Shape, TasksShape, HeldS, Idle
  <2>2. to_client \in Seq(FromServer) /\ client_buf \in Seq(FromServer) /\ Append(client_buf, s2c.msg) \in Seq(FromServer)
    BY <2>1 DEF Shape, WiresShape
  <2>3. Only(HeldS', K) = <<>> /\ <<>> \in Seq(FromServer) /\ Only(<<>>, K) = <<>>
    BY <2>1, OnlyEmpty, Concat
  <2>4. Only(Append(client_buf, s2c.msg), K) = Cat(c, d)
    BY <2>1, <2>2, KeptAppend
  <2>5. CASE Suppressed(s2c.msg.type)
    <3>1. UNCHANGED <<client_buf, to_client>>
      BY <1>12, <2>5 DEF S2CForward
    <3>2. s2c.msg \notin K
      <4>1. Hiding /\ s2c.msg.type \in {"T", "D"}
        BY <2>5 DEF Suppressed, HidingInv
      <4>2. QED
        BY <1>1, <4>1 DEF Kept, Protocol
    <3>3. d = <<>>
      <4>1. Only(<<s2c.msg>>, K) = IF s2c.msg \in K THEN <<s2c.msg>> ELSE <<>>
        BY <2>1, OnlyOne
      <4>2. QED
        BY <2>1, <3>2, <4>1
    <3>4. QED
      BY <1>5, <2>1, <2>3, <3>1, <3>3
  <2>6. CASE ~Suppressed(s2c.msg.type) /\ Flushes(s2c.msg.type)
    <3>1. to_client' = to_client \o Append(client_buf, s2c.msg) /\ client_buf' = <<>>
      BY <1>12, <2>6 DEF S2CForward
    <3>2. Only(to_client', K) = Cat(b, Cat(c, d))
      BY <2>2, <2>4, <3>1, KeptConcat
    <3> HIDE DEF a, b, c, d, e
    <3>3. Five(a, Cat(b, Cat(c, d)), <<>>, <<>>, e) = Five(a, b, c, d, e)
      BY ONLY <1>4, FiveLaws
    <3>4. QED
      BY <1>5, <2>1, <2>3, <3>1, <3>2, <3>3 DEF a, e
  <2>7. CASE ~Suppressed(s2c.msg.type) /\ ~Flushes(s2c.msg.type)
    <3>1. client_buf' = Append(client_buf, s2c.msg) /\ to_client' = to_client
      BY <1>12, <2>7 DEF S2CForward
    <3> HIDE DEF a, b, c, d, e
    <3>2. Five(a, b, Cat(c, d), <<>>, e) = Five(a, b, c, d, e)
      BY ONLY <1>4, FiveLaws
    <3>3. QED
      BY <1>5, <2>1, <2>3, <2>4, <3>1, <3>2 DEF a, b, e
  <2>8. QED
    BY <2>5, <2>6, <2>7
<1>13. ASSUME BufferFull PROVE Goal
  <2>1. /\ to_client' = to_client \o client_buf /\ client_buf' = <<>>
        /\ UNCHANGED <<received, from_server, replied, s2c>>
    BY <1>13 DEF BufferFull, clientVars, serverVars
  <2>2. Only(to_client', K) = Cat(b, c) /\ Only(client_buf', K) = <<>>
    BY <2>1, KeptConcat, OnlyEmpty DEF Shape, WiresShape
  <2>3. HeldS' = HeldS
    BY <2>1 DEF HeldS
  <2> HIDE DEF a, b, c, d, e
  <2>4. Five(a, Cat(b, c), <<>>, d, e) = Five(a, b, c, d, e)
    BY ONLY <1>4, FiveLaws
  <2>5. QED
    BY <1>5, <2>1, <2>2, <2>3, <2>4 DEF a, d, e
<1>14. ASSUME \/ S2CParameterDescription \/ S2CRowDescription \/ S2CDataRow \/ S2CComplete \/ S2CPop \/ S2CError
       PROVE  Goal
  <2>1. UNCHANGED <<received, to_client, client_buf, from_server, replied>>
    BY <1>14 DEF S2CParameterDescription, S2CRowDescription, S2CDataRow, S2CComplete, S2CPop, S2CError,
                 clientVars, serverVars, wires
  <2>2. s2c.pc # "read" /\ s2c'.pc # "read" /\ s2c'.msg = s2c.msg
    BY <1>14 DEF S2CParameterDescription, S2CRowDescription, S2CDataRow, S2CComplete, S2CPop, S2CError,
                 Shape, TasksShape
  <2>3. QED
    BY <1>7, <2>1, <2>2 DEF HeldS
<1>15. ASSUME ClientSend \/ C2S \/ Toggle PROVE Goal
  <2>1. UNCHANGED <<received, to_client, client_buf, from_server, replied, s2c>>
    BY <1>15 DEF ClientSend, C2S, C2SRead, C2SRewrite, C2SPushInjected, C2SSuppress, C2SQuery, C2SParse,
                 C2SDescribe, C2SBind, C2SWrite, Toggle, clientVars, serverVars, wires
  <2>2. QED
    BY <1>7, <2>1 DEF HeldS
<1>16. QED
  BY <1>8, <1>9, <1>10, <1>11, <1>12, <1>13, <1>14, <1>15 DEF Next, S2C

\* The client reads what the server wrote, in order, and in the end all of it;
\* of an INSERT rewritten in stealth mode, all but the rows
\* (relay_server_to_client).
THEOREM TransparentCorrect == Spec => []Transparent
<1>1. Init => Shape /\ HidingInv /\ TransparentInv
  <2> SUFFICES ASSUME Init PROVE Shape /\ HidingInv /\ TransparentInv
    OBVIOUS
  <2>1. Shape
    BY InitShape
  <2>2. HidingInv
    BY DEF Init, HidingInv, Idle
  <2>3. TransparentInv
    <3>1. /\ received = <<>> /\ to_client = <<>> /\ client_buf = <<>> /\ HeldS = <<>>
          /\ from_server = <<>> /\ replied = <<>>
      BY DEF Init, HeldS, Idle
    <3>2. Only(<<>>, Kept) = <<>>
      BY OnlyEmpty
    <3>3. <<>> \o (<<>> \o (<<>> \o (<<>> \o <<>>))) = <<>>
      OBVIOUS
    <3>4. QED
      BY <3>1, <3>2, <3>3 DEF TransparentInv
  <2>4. QED
    BY <2>1, <2>2, <2>3
<1>2. Shape /\ HidingInv /\ TransparentInv /\ [Next]_vars => (Shape /\ HidingInv /\ TransparentInv)'
  BY ShapeStep, HidingStep, TransparentStep
<1>3. Shape /\ HidingInv /\ TransparentInv => Transparent
  <2> SUFFICES ASSUME Shape, HidingInv, TransparentInv PROVE Transparent
    OBVIOUS
  <2> DEFINE a == Only(received, Kept)
             b == Only(to_client, Kept)
             c == Only(client_buf, Kept)
             rest == Only(HeldS, Kept) \o Only(from_server, Kept)
             all == Only(replied, Kept)
  <2>1. a \in Seq(FromServer) /\ b \in Seq(FromServer) /\ c \in Seq(FromServer) /\ rest \in Seq(FromServer)
    BY KeptParts
  <2>2. Only(ClientView, Kept) = (a \o b) \o c
    <3>1. /\ received \in Seq(FromServer) /\ to_client \in Seq(FromServer) /\ client_buf \in Seq(FromServer)
          /\ received \o to_client \in Seq(FromServer)
      BY DEF Shape, WiresShape
    <3>0. \A p, q \in Seq(FromServer) : Only(p \o q, Kept) = Only(p, Kept) \o Only(q, Kept)
      BY OnlyConcat, ZenonT(60)
    <3>2. Only(received \o to_client, Kept) = a \o b
      BY <3>0, <3>1
    <3>3. Only((received \o to_client) \o client_buf, Kept) = Only(received \o to_client, Kept) \o c
      BY <3>0, <3>1
    <3>4. QED
      BY <3>2, <3>3 DEF ClientView
  <2>3. a \o (b \o (c \o rest)) = all
    BY DEF TransparentInv
  <2>4. ASSUME Quiescent PROVE b = <<>> /\ c = <<>> /\ rest = <<>>
    BY <2>4, OnlyEmpty DEF Quiescent, HeldS
  <2> HIDE DEF a, b, c, rest, all
  <2>5. ((a \o b) \o c) \o rest = all
    <3>1. PICK Q : Q = Seq(FromServer)
      OBVIOUS
    <3>2. Monoid(Q) /\ a \in Q /\ b \in Q /\ c \in Q /\ rest \in Q
      BY <2>1, <3>1, SeqMonoid
    <3>3. Cat(Cat(Cat(a, b), c), rest) = Cat(a, Cat(b, Cat(c, rest)))
      <4>1. Cat(a, b) \in Q /\ Cat(c, rest) \in Q
        BY <3>2 DEF Monoid
      <4>2. Cat(Cat(Cat(a, b), c), rest) = Cat(Cat(a, b), Cat(c, rest))
        BY <3>2, <4>1 DEF Monoid
      <4>3. Cat(Cat(a, b), Cat(c, rest)) = Cat(a, Cat(b, Cat(c, rest)))
        BY <3>2, <4>1 DEF Monoid
      <4>4. QED
        BY <4>2, <4>3
    <3>4. QED
      BY <2>3, <3>3 DEF Cat
  <2>6. IsPrefix((a \o b) \o c, all)
    <3>1. (a \o b) \o c \in Seq(FromServer)
      BY <2>1
    <3>2. QED
      BY <2>1, <2>5, <3>1, PrefixOfConcat
  <2>7. Quiescent => a = all
    BY <2>1, <2>3, <2>4, ConcatEmptySeq
  <2>8. QED
    BY <2>2, <2>6, <2>7 DEF Transparent, Kept, a, all
<1>4. QED
  BY <1>1, <1>2, <1>3, PTL DEF Spec

-----------------------------------------------------------------------------
(***************************************************************************)
(* One answer to every request: the messages on their way, and what the    *)
(* client waits for.                                                       *)
(***************************************************************************)
Extended == {"P", "B", "D", "Ex"}

asks == {m \in ToServer : m.type \notin Extended}
ends == {m \in FromServer : m.type \in {"Z", "G"}}
describes == {m \in ToServer : m.type = "D"}
descriptions == {m \in FromServer : m.type = "t"}

Count(seq, which) == Len(Only(seq, which))

\* Counting part by part.
LEMMA CountConcat ==
  ASSUME NEW S, NEW K, NEW p \in Seq(S), NEW q \in Seq(S)
  PROVE  Count(p, K) \in Nat /\ Count(p \o q, K) = Count(p, K) + Count(q, K)
<1>1. Only(p, K) \in Seq(S) /\ Only(q, K) \in Seq(S)
  BY OnlyConcat
<1>2. Only(p \o q, K) = Only(p, K) \o Only(q, K)
  BY ONLY p \in Seq(S), q \in Seq(S), OnlyConcat, ZenonT(60)
<1>3. QED
  BY <1>1, <1>2 DEF Count

\* Nothing counts nothing.
LEMMA CountEmpty == \A w : Count(<<>>, w) = 0
<1> TAKE w
<1>1. Only(<<>>, w) = <<>>
  BY OnlyEmpty
<1>2. QED
  BY <1>1 DEF Count

\* One message counts or not.
LEMMA CountOne ==
  ASSUME NEW S, NEW w, NEW m \in S
  PROVE  Count(<<m>>, w) = IF m \in w THEN 1 ELSE 0
<1>1. Only(<<m>>, w) = IF m \in w THEN <<m>> ELSE <<>>
  BY OnlyOne
<1>2. QED
  BY <1>1 DEF Count

\* The messages the server has not read, and those the client has not read.
Up == to_server \o (HeldC \o to_proxy)
Down == to_client \o (client_buf \o (HeldS \o from_server))

Alike(p, q) ==
    /\ Len(p) = Len(q)
    /\ \A i \in 1 .. Len(q) : p[i].type = q[i].type /\ p[i].stmt = q[i].stmt

\* A message of the extended protocol is followed by another one or by a Sync.
Runs(seq) ==
    \A i \in 1 .. Len(seq) : seq[i].type \in Extended =>
        /\ kind[seq[i].stmt] # "copy" /\ i < Len(seq) /\ seq[i + 1].type \in Extended \cup {"S"}

UpInv ==
    /\ Runs(Up)
    /\ skipping => Up # <<>> /\ Up[1].type \in Extended \cup {"S"}

\* The messages held and on their way are messages.
LEMMA HeldType ==
  ASSUME Shape
  PROVE  /\ HeldC \in Seq(ToServer) /\ HeldS \in Seq(FromServer)
         /\ Up \in Seq(ToServer) /\ Down \in Seq(FromServer)
<1>1. HeldC \in Seq(ToServer)
  <2>1. CASE c2s.pc \in {"read", "rewritten", "pushed"}
    BY <2>1, Concat DEF HeldC
  <2>2. CASE c2s.pc \notin {"read", "rewritten", "pushed"}
    <3>1. c2s.msg \in ToServer /\ HeldC = <<c2s.msg>>
      BY <2>2 DEF Shape, TasksShape, HeldC
    <3>2. QED
      BY <3>1
  <2>3. QED
    BY <2>1, <2>2
<1>2. HeldS \in Seq(FromServer)
  <2>1. CASE s2c.pc = "read"
    BY <2>1, Concat DEF HeldS
  <2>2. CASE s2c.pc # "read"
    <3>1. s2c.msg \in FromServer /\ HeldS = <<s2c.msg>>
      BY <2>2 DEF Shape, TasksShape, HeldS
    <3>2. QED
      BY <3>1
  <2>3. QED
    BY <2>1, <2>2
<1>3. Up \in Seq(ToServer)
  <2>1. HeldC \o to_proxy \in Seq(ToServer)
    BY <1>1 DEF Shape, WiresShape
  <2>2. QED
    BY <2>1 DEF Up, Shape, WiresShape
<1>4. Down \in Seq(FromServer)
  <2>1. HeldS \o from_server \in Seq(FromServer)
    BY <1>2 DEF Shape, WiresShape
  <2>2. client_buf \o (HeldS \o from_server) \in Seq(FromServer)
    BY <2>1 DEF Shape, WiresShape
  <2>3. QED
    BY <2>2 DEF Down, Shape, WiresShape
<1>5. QED
  BY <1>1, <1>2, <1>3, <1>4

\* A sequence is like itself.
LEMMA AlikeSame ==
  ASSUME NEW p
  PROVE  Alike(p, p)
BY DEF Alike

\* Where the messages to the server go in a step.
LEMMA UpFlow ==
  ASSUME Shape, [Next]_vars
  PROVE  \/ ClientSend /\ Up' = Up \o Head(script) /\ skipping' = skipping
         \/ Server /\ Up = <<Head(to_server)>> \o Up' /\ Head(to_server) \in ToServer
         \/ ~ClientSend /\ ~Server /\ Alike(Up', Up) /\ skipping' = skipping
<1>1. ASSUME ClientSend PROVE Up' = Up \o Head(script) /\ skipping' = skipping
  <2>1. to_proxy' = to_proxy \o Head(script) /\ UNCHANGED <<to_server, c2s, skipping>> /\ script # <<>>
    BY <1>1 DEF ClientSend, serverVars
  <2>2. Head(script) \in Seq(ToServer) /\ HeldC' = HeldC
    BY <2>1 DEF Shape, SetupShape, HeldC
  <2>3. PICK Q : Q = Seq(ToServer)
    OBVIOUS
  <2>4. Monoid(Q) /\ to_server \in Q /\ HeldC \in Q /\ to_proxy \in Q /\ Head(script) \in Q
    BY <2>2, <2>3, SeqMonoid, HeldType DEF Shape, WiresShape
  <2>5. Cat(to_server, Cat(HeldC, Cat(to_proxy, Head(script)))) = Cat(Cat(to_server, Cat(HeldC, to_proxy)), Head(script))
    <3>1. Cat(HeldC, to_proxy) \in Q
      BY ONLY <2>4 DEF Monoid
    <3>2. Cat(HeldC, Cat(to_proxy, Head(script))) = Cat(Cat(HeldC, to_proxy), Head(script))
      BY ONLY <2>4 DEF Monoid
    <3>3. /\ Cat(to_server, Cat(Cat(HeldC, to_proxy), Head(script)))
               = Cat(Cat(to_server, Cat(HeldC, to_proxy)), Head(script))
      BY ONLY <2>4, <3>1, ZenonT(40) DEF Monoid
    <3>4. QED
      BY ONLY <3>2, <3>3
  <2>6. QED
    BY <2>1, <2>2, <2>5 DEF Up, Cat
<1>2. ASSUME Server PROVE Up = <<Head(to_server)>> \o Up' /\ Head(to_server) \in ToServer
  <2>1. to_server # <<>> /\ to_server' = Tail(to_server) /\ UNCHANGED <<to_proxy, c2s>>
    BY <1>2 DEF Server
  <2>2. /\ Head(to_server) \in ToServer /\ to_server = <<Head(to_server)>> \o to_server'
        /\ to_server' \in Seq(ToServer) /\ <<Head(to_server)>> \in Seq(ToServer)
    BY <2>1, HeadTail DEF Shape, WiresShape
  <2>3. HeldC \o to_proxy \in Seq(ToServer)
    BY HeldType DEF Shape, WiresShape
  <2>4. \A x \in Seq(ToServer) : (<<Head(to_server)>> \o to_server') \o x = <<Head(to_server)>> \o (to_server' \o x)
    BY <2>2, ConcatAssoc
  <2>5. HeldC' = HeldC
    BY <2>1 DEF HeldC
  <2>6. QED
    BY <2>1, <2>2, <2>3, <2>4, <2>5 DEF Up
<1>3. ASSUME NEW m \in ToServer, NEW k \in ToServer, m.type = k.type, m.stmt = k.stmt,
             HeldC = <<k>>, HeldC' = <<>>, to_server' = Append(to_server, m), to_proxy' = to_proxy
      PROVE  Alike(Up', Up)
  <2>1. to_server \in Seq(ToServer) /\ to_proxy \in Seq(ToServer)
    BY DEF Shape, WiresShape
  <2>2. Up' = Append(to_server, m) \o to_proxy /\ Up = to_server \o (<<k>> \o to_proxy)
    <3>1. <<>> \o to_proxy = to_proxy
      BY <2>1, ConcatEmptySeq
    <3>2. QED
      BY <1>3, <3>1 DEF Up
  <2>3. Len(Up') = Len(to_server) + 1 + Len(to_proxy) /\ Len(Up) = Len(to_server) + 1 + Len(to_proxy)
    BY <1>3, <2>1, <2>2
  <2>4. ASSUME NEW i \in 1 .. Len(Up) PROVE Up'[i].type = Up[i].type /\ Up'[i].stmt = Up[i].stmt
    <3>1. CASE i <= Len(to_server)
      <4>1. Up'[i] = to_server[i] /\ Up[i] = to_server[i]
        BY <1>3, <2>1, <2>2, <2>3, <3>1
      <4>2. QED
        BY <4>1
    <3>2. CASE i = Len(to_server) + 1
      <4>1. Up'[i] = m /\ Up[i] = k
        BY <1>3, <2>1, <2>2, <2>3, <3>2
      <4>2. QED
        BY <1>3, <4>1
    <3>3. CASE i > Len(to_server) + 1
      <4>1. Up'[i] = to_proxy[i - Len(to_server) - 1] /\ Up[i] = to_proxy[i - Len(to_server) - 1]
        BY <1>3, <2>1, <2>2, <2>3, <3>3
      <4>2. QED
        BY <4>1
    <3>4. QED
      BY <2>1, <2>3, <3>1, <3>2, <3>3
  <2>5. QED
    BY <2>3, <2>4 DEF Alike
<1>4. ASSUME C2SRewrite PROVE Alike(Up', Up) /\ skipping' = skipping
  <2> DEFINE m == [c2s.msg EXCEPT !.injected = TRUE]
  <2>1. c2s.msg \in ToServer /\ HeldC = <<c2s.msg>> /\ HeldC' = <<>>
    BY <1>4 DEF C2SRewrite, Shape, TasksShape, HeldC
  <2>2. m \in ToServer /\ m.type = c2s.msg.type /\ m.stmt = c2s.msg.stmt
    BY <2>1 DEF ToServer
  <2>3. to_server' = Append(to_server, m) /\ UNCHANGED <<to_proxy, skipping>>
    BY <1>4 DEF C2SRewrite, serverVars
  <2> HIDE DEF m
  <2>4. QED
    BY <1>3, <2>1, <2>2, <2>3
<1>5. ASSUME C2SWrite PROVE Alike(Up', Up) /\ skipping' = skipping
  <2>1. c2s.msg \in ToServer /\ HeldC = <<c2s.msg>> /\ HeldC' = <<>>
    BY <1>5 DEF C2SWrite, Shape, TasksShape, HeldC, Idle
  <2>2. to_server' = Append(to_server, c2s.msg) /\ UNCHANGED <<to_proxy, skipping>>
    BY <1>5 DEF C2SWrite, serverVars
  <2>3. QED
    BY <1>3, <2>1, <2>2
<1>6. ASSUME C2SRead PROVE Alike(Up', Up) /\ skipping' = skipping
  <2>1. /\ to_proxy \in Seq(ToServer) /\ to_proxy # <<>> /\ to_proxy' = Tail(to_proxy)
        /\ UNCHANGED <<to_server, skipping>>
    BY <1>6 DEF C2SRead, serverVars, Shape, WiresShape
  <2>2. HeldC = <<>> /\ HeldC' = <<Head(to_proxy)>>
    BY <1>6 DEF C2SRead, HeldC, untracked
  <2>3. to_proxy = HeldC' \o to_proxy'
    BY <2>1, <2>2, HeadTail
  <2>4. HeldC \o to_proxy = to_proxy
    BY <2>1, <2>2, ConcatEmptySeq
  <2>5. Up' = Up
    BY <2>1, <2>3, <2>4 DEF Up
  <2>6. QED
    BY <2>1, <2>5, AlikeSame
<1>7. ASSUME UNCHANGED <<to_server, to_proxy, skipping>>, HeldC' = HeldC PROVE Alike(Up', Up) /\ skipping' = skipping
  BY <1>7, AlikeSame DEF Up
<1>8. ASSUME C2SPushInjected \/ C2SSuppress \/ C2SQuery \/ C2SParse \/ C2SDescribe \/ C2SBind
      PROVE  Alike(Up', Up) /\ skipping' = skipping
  <2>1. HeldC' = HeldC
    BY <1>8 DEF HeldC, C2SPushInjected, C2SSuppress, C2SQuery, C2SParse, C2SDescribe, C2SBind,
                after_injection, Shape, TasksShape
  <2>2. UNCHANGED <<to_server, to_proxy, skipping>>
    BY <1>8 DEF C2SPushInjected, C2SSuppress, C2SQuery, C2SParse, C2SDescribe, C2SBind, serverVars, wires
  <2>3. QED
    BY <1>7, <2>1, <2>2
<1>9. ASSUME ClientReceive \/ S2C \/ BufferFull \/ Toggle \/ UNCHANGED vars
      PROVE  Alike(Up', Up) /\ skipping' = skipping
  <2>1. UNCHANGED <<to_server, to_proxy, c2s, skipping>>
    BY <1>9 DEF S2C, S2CRead, S2CParameterDescription, S2CRowDescription, S2CDataRow, S2CComplete,
                 S2CPop, S2CError, S2CForward, BufferFull, Toggle, ClientReceive, vars, serverVars, wires
  <2>2. QED
    BY <1>7, <2>1 DEF HeldC
<1>10. QED
  BY <1>1, <1>2, <1>4, <1>5, <1>6, <1>8, <1>9 DEF Next, C2S

\* Every step keeps requests whole, and an error is followed by the rest of
\* its request.
LEMMA UpStep ==
  ASSUME Shape, ScriptLeft, UpInv, [Next]_vars
  PROVE  UpInv'
<1> Up \in Seq(ToServer) /\ Up' \in Seq(ToServer)
  <2>1. Up \in Seq(ToServer)
    BY HeldType
  <2>2. Shape'
    BY ShapeStep
  <2>3. (Shape => Up \in Seq(ToServer))'
    BY HeldType, PTL
  <2>4. QED
    BY <2>1, <2>2, <2>3
<1>1. PICK up : up = Up
  OBVIOUS
<1>2. PICK up2 : up2 = Up'
  OBVIOUS
<1>3. up \in Seq(ToServer) /\ up2 \in Seq(ToServer) /\ Runs(up)
  BY <1>1, <1>2 DEF UpInv
<1>4. ASSUME ClientSend, up2 = up \o Head(script), skipping' = skipping PROVE UpInv'
  <2>1. PICK r : r = Head(script)
    OBVIOUS
  <2>2. r \in Seq(ToServer) /\ Request(r) /\ up2 = up \o r
    BY <1>4, <2>1, SentStep
  <2>3. Runs(r)
    <3>1. CASE Len(r) = 1 /\ r[1].type \in {"Q", "c"}
      BY <3>1, <2>2 DEF Runs, Extended
    <3>2. CASE /\ r[Len(r)].type = "S"
               /\ \A i \in 1 .. Len(r) - 1 : r[i].type \in {"P", "B", "D", "Ex"} /\ kind[r[i].stmt] \notin {"copy", "several"}
      <4> SUFFICES ASSUME NEW i \in 1 .. Len(r), r[i].type \in Extended
                   PROVE  kind[r[i].stmt] # "copy" /\ i < Len(r) /\ r[i + 1].type \in Extended \cup {"S"}
        BY DEF Runs
      <4>1. i # Len(r) /\ i \in 1 .. Len(r) - 1 /\ i < Len(r)
        BY <2>2, <3>2 DEF Extended
      <4>2. kind[r[i].stmt] # "copy"
        BY <3>2, <4>1
      <4>3. i + 1 = Len(r) \/ i + 1 \in 1 .. Len(r) - 1
        BY <2>2, <4>1
      <4>4. r[i + 1].type \in Extended \cup {"S"}
        BY <3>2, <4>3 DEF Extended
      <4>5. QED
        BY <4>1, <4>2, <4>4
    <3>3. QED
      BY <2>2, <3>1, <3>2 DEF Request
  <2>4. Runs(up2)
    <3> SUFFICES ASSUME NEW i \in 1 .. Len(up2), up2[i].type \in Extended
                 PROVE  kind[up2[i].stmt] # "copy" /\ i < Len(up2) /\ up2[i + 1].type \in Extended \cup {"S"}
      BY DEF Runs
    <3>1. Len(up2) = Len(up) + Len(r)
      BY <1>3, <2>2
    <3>2. CASE i <= Len(up)
      <4>1. up2[i] = up[i] /\ i \in 1 .. Len(up)
        BY <1>3, <2>2, <3>1, <3>2
      <4>2. kind[up[i].stmt] # "copy" /\ i < Len(up) /\ up[i + 1].type \in Extended \cup {"S"}
        BY <1>3, <4>1 DEF Runs
      <4>3. up2[i + 1] = up[i + 1]
        BY <1>3, <2>2, <3>1, <4>1, <4>2
      <4>4. QED
        BY <1>3, <2>2, <3>1, <4>1, <4>2, <4>3
    <3>3. CASE ~(i <= Len(up))
      <4> DEFINE j == i - Len(up)
      <4>1. up2[i] = r[j] /\ j \in 1 .. Len(r)
        BY <1>3, <2>2, <3>1, <3>3
      <4>2. kind[r[j].stmt] # "copy" /\ j < Len(r) /\ r[j + 1].type \in Extended \cup {"S"}
        BY <2>3, <4>1 DEF Runs
      <4>3. up2[i + 1] = r[j + 1] /\ i < Len(up2)
        BY <1>3, <2>2, <3>1, <3>3, <4>2
      <4>4. QED
        BY <4>1, <4>2, <4>3
    <3>4. QED
      BY <3>2, <3>3
  <2>5. skipping => up2 # <<>> /\ up2[1] = up[1]
    <3>1. skipping => up # <<>>
      BY <1>1 DEF UpInv
    <3>2. QED
      BY <1>3, <2>2, <3>1
  <2>6. QED
    BY <1>1, <1>2, <1>4, <2>4, <2>5 DEF UpInv, Runs
<1>5. ASSUME Server, up = <<Head(to_server)>> \o up2, Head(to_server) \in ToServer PROVE UpInv'
  <2>1. PICK m \in ToServer : m = Head(to_server)
    BY <1>5
  <2>2. up[1] = m /\ Len(up) = Len(up2) + 1 /\ \A i \in 1 .. Len(up2) : up2[i] = up[i + 1]
    BY <1>3, <1>5, <2>1
  <2>3. Runs(up2)
    <3> SUFFICES ASSUME NEW i \in 1 .. Len(up2), up2[i].type \in Extended
                 PROVE  kind[up2[i].stmt] # "copy" /\ i < Len(up2) /\ up2[i + 1].type \in Extended \cup {"S"}
      BY DEF Runs
    <3>1. up2[i] = up[i + 1] /\ i + 1 \in 1 .. Len(up)
      BY <1>3, <2>2
    <3>2. kind[up[i + 1].stmt] # "copy" /\ i + 1 < Len(up) /\ up[(i + 1) + 1].type \in Extended \cup {"S"}
      BY <1>3, <3>1 DEF Runs
    <3>3. i + 1 \in 1 .. Len(up2) /\ i < Len(up2)
      BY <1>3, <2>2, <3>2
    <3>4. QED
      BY <2>2, <3>1, <3>2, <3>3
  <2>4. ASSUME m.type \in Extended PROVE up2 # <<>> /\ up2[1].type \in Extended \cup {"S"}
    <3>1. 1 \in 1 .. Len(up)
      BY <1>3, <2>2
    <3>2. 1 < Len(up) /\ up[1 + 1].type \in Extended \cup {"S"}
      BY <1>3, <2>2, <2>4, <3>1 DEF Runs
    <3>3. up2[1] = up[1 + 1] /\ Len(up2) # 0
      BY <1>3, <2>2, <3>2
    <3>4. QED
      BY <3>2, <3>3
  <2>5. skipping' => m.type \in Extended
    <3>1. skipping => m.type \in Extended \cup {"S"}
      BY <1>1, <2>2 DEF UpInv
    <3>2. \E types, ok, rows : Skipped(m, types) \/ Succeeded(m, types, ok, rows) \/ Failed(m, types, ok, rows)
      BY <1>5, <2>1, ServerStep
    <3>3. m.type \in Extended \cup {"Q", "c", "S"}
      BY DEF ToServer, ClientTypes, Extended
    <3>4. QED
      BY <3>1, <3>2, <3>3 DEF Skipped, Succeeded, Failed
  <2>6. QED
    BY <1>2, <2>3, <2>4, <2>5 DEF UpInv, Runs
<1>6. ASSUME Alike(up2, up), skipping' = skipping PROVE UpInv'
  <2>1. Len(up2) = Len(up) /\ \A i \in 1 .. Len(up) : up2[i].type = up[i].type /\ up2[i].stmt = up[i].stmt
    BY <1>6 DEF Alike
  <2>2. Runs(up2)
    <3> SUFFICES ASSUME NEW i \in 1 .. Len(up2), up2[i].type \in Extended
                 PROVE  kind[up2[i].stmt] # "copy" /\ i < Len(up2) /\ up2[i + 1].type \in Extended \cup {"S"}
      BY DEF Runs
    <3>1. kind[up[i].stmt] # "copy" /\ i < Len(up) /\ up[i + 1].type \in Extended \cup {"S"}
      BY <1>3, <2>1 DEF Runs
    <3>2. up2[i + 1].type = up[i + 1].type
      BY <1>3, <2>1, <3>1
    <3>3. QED
      BY <2>1, <3>1, <3>2
  <2>3. skipping => up2 # <<>> /\ up2[1].type = up[1].type
    <3>1. skipping => up # <<>> /\ Len(up) \in Nat /\ Len(up) # 0
      BY <1>1, <1>3 DEF UpInv
    <3>2. QED
      BY <1>3, <2>1, <3>1
  <2>4. QED
    BY <1>1, <1>2, <1>6, <2>2, <2>3 DEF UpInv, Runs
<1>7. QED
  BY <1>1, <1>2, <1>4, <1>5, <1>6, UpFlow

\* Every request that is on its way, and every end of an answer, counts.
CountInv ==
    outstanding = Count(Up, asks) + Count(Down, ends)

\* The ends of answers on their way, part by part.
LEMMA DownParts ==
  ASSUME Shape
  PROVE  /\ Count(Down, ends) = Count(to_client, ends) + Count(client_buf, ends)
                                  + Count(HeldS, ends) + Count(from_server, ends)
         /\ Count(to_client, ends) \in Nat /\ Count(client_buf, ends) \in Nat
         /\ Count(HeldS, ends) \in Nat /\ Count(from_server, ends) \in Nat
<1>1. /\ to_client \in Seq(FromServer) /\ client_buf \in Seq(FromServer) /\ from_server \in Seq(FromServer)
      /\ HeldS \in Seq(FromServer)
  BY HeldType DEF Shape, WiresShape
<1>2. HeldS \o from_server \in Seq(FromServer) /\ client_buf \o (HeldS \o from_server) \in Seq(FromServer)
  BY <1>1
<1>3. \A p, q \in Seq(FromServer) : Count(p, ends) \in Nat /\ Count(p \o q, ends) = Count(p, ends) + Count(q, ends)
  BY CountConcat
<1>4. Count(HeldS \o from_server, ends) = Count(HeldS, ends) + Count(from_server, ends)
  BY <1>1, <1>3
<1>5. Count(client_buf \o (HeldS \o from_server), ends) = Count(client_buf, ends) + Count(HeldS \o from_server, ends)
  BY <1>1, <1>2, <1>3
<1>6. Count(Down, ends) = Count(to_client, ends) + Count(client_buf \o (HeldS \o from_server), ends)
  BY <1>1, <1>2, <1>3 DEF Down
<1>7. /\ Count(to_client, ends) \in Nat /\ Count(client_buf, ends) \in Nat
      /\ Count(HeldS, ends) \in Nat /\ Count(from_server, ends) \in Nat
  BY <1>1, <1>3
<1>8. QED
  BY <1>4, <1>5, <1>6, <1>7

\* Messages with the same types count alike.
LEMMA CountAlike ==
  ASSUME NEW K \in {asks, describes}, NEW p \in Seq(ToServer), NEW q \in Seq(ToServer), Alike(p, q)
  PROVE  Count(p, K) = Count(q, K)
<1> DEFINE Same(x, y) == Alike(x, y) => Count(x, K) = Count(y, K)
           Bad == {k \in Nat : \E x, y \in Seq(ToServer) : Len(y) = k /\ ~Same(x, y)}
<1>1. SUFFICES ASSUME Bad # {} PROVE FALSE
  <2>1. ASSUME Bad = {} PROVE Same(p, q)
    <3>1. Len(q) \in Nat
      OBVIOUS
    <3>2. QED
      BY <2>1, <3>1
  <2>2. QED
    BY <2>1
<1>2. PICK k \in Bad : \A j \in Bad : k <= j
  <2>1. Bad \in SUBSET Nat
    OBVIOUS
  <2>2. QED
    BY <1>1, <2>1, LeastNumber
<1>3. PICK x \in Seq(ToServer) : \E y \in Seq(ToServer) : Len(y) = k /\ ~Same(x, y)
  OBVIOUS
<1>4. PICK y \in Seq(ToServer) : Len(y) = k /\ ~Same(x, y)
  BY <1>3
<1>5. Alike(x, y) /\ Count(x, K) # Count(y, K)
  BY <1>4
<1>6. x # <<>> /\ y # <<>>
  <2>1. Len(x) = Len(y)
    BY <1>5 DEF Alike
  <2>2. x = <<>> <=> y = <<>>
    BY <2>1
  <2>3. QED
    BY <1>5, <2>2
<1>7. PICK x1 \in Seq(ToServer), m \in ToServer : Len(x1) = Len(x) - 1 /\ x = Append(x1, m)
  BY <1>6, SplitLast
<1>8. PICK y1 \in Seq(ToServer), n \in ToServer : Len(y1) = Len(y) - 1 /\ y = Append(y1, n)
  BY <1>6, SplitLast
<1>9. Alike(x1, y1) /\ m.type = n.type /\ Len(y1) = k - 1
  <2>1. Len(x) = Len(y) /\ \A i \in 1 .. Len(y) : x[i].type = y[i].type /\ x[i].stmt = y[i].stmt
    BY <1>5 DEF Alike
  <2>2. Len(x1) = Len(y1) /\ Len(y) = Len(y1) + 1 /\ Len(y1) = k - 1
    BY <1>4, <1>7, <1>8, <2>1
  <2>3. x[Len(y)] = m /\ y[Len(y)] = n /\ Len(y) \in 1 .. Len(y)
    BY <1>7, <1>8, <2>1, <2>2
  <2>4. \A i \in 1 .. Len(y1) : x1[i] = x[i] /\ y1[i] = y[i] /\ i \in 1 .. Len(y)
    BY <1>7, <1>8, <2>2
  <2>5. QED
    BY <2>1, <2>2, <2>3, <2>4 DEF Alike
<1>10. Count(x1, K) = Count(y1, K)
  <2>1. Len(y1) \in Nat /\ ~(k <= Len(y1))
    BY <1>9
  <2>2. Same(x1, y1)
    BY <1>2, <2>1
  <2>3. QED
    BY <1>9, <2>2
<1>11. Count(<<m>>, K) = Count(<<n>>, K)
  <2>1. m \in K <=> n \in K
    BY <1>9 DEF asks, describes
  <2>2. QED
    BY <2>1, CountOne
<1>12. x = x1 \o <<m>> /\ y = y1 \o <<n>> /\ <<m>> \in Seq(ToServer) /\ <<n>> \in Seq(ToServer)
  BY <1>7, <1>8
<1>13. \A a, b \in Seq(ToServer) : Count(a \o b, K) = Count(a, K) + Count(b, K)
  BY CountConcat
<1>14. Count(x, K) = Count(x1, K) + Count(<<m>>, K)
  BY <1>12, <1>13
<1>15. Count(y, K) = Count(y1, K) + Count(<<n>>, K)
  BY <1>12, <1>13
<1>16. QED
  BY <1>5, <1>10, <1>11, <1>14, <1>15

\* A sequence without members of a set has none to count.
LEMMA CountNone ==
  ASSUME NEW S, NEW K, NEW p \in Seq(S), \A i \in 1 .. Len(p) : p[i] \notin K
  PROVE  Count(p, K) = 0
<1> DEFINE None0(x) == (\A i \in 1 .. Len(x) : x[i] \notin K) => Count(x, K) = 0
           Bad == {k \in Nat : \E x \in Seq(S) : Len(x) = k /\ ~None0(x)}
<1>1. SUFFICES ASSUME Bad # {} PROVE FALSE
  <2>1. ASSUME Bad = {} PROVE None0(p)
    <3>1. Len(p) \in Nat
      OBVIOUS
    <3>2. QED
      BY <2>1, <3>1
  <2>2. QED
    BY <2>1
<1>2. PICK k \in Bad : \A j \in Bad : k <= j
  <2>1. Bad \in SUBSET Nat
    OBVIOUS
  <2>2. QED
    BY <1>1, <2>1, LeastNumber
<1>3. PICK x \in Seq(S) : Len(x) = k /\ ~None0(x)
  OBVIOUS
<1>4. x # <<>>
  BY <1>3, CountEmpty
<1>5. PICK y \in Seq(S), m \in S : Len(y) = Len(x) - 1 /\ x = Append(y, m)
  BY <1>4, SplitLast
<1>6. m \notin K /\ \A i \in 1 .. Len(y) : y[i] \notin K
  <2>1. \A i \in 1 .. Len(x) : x[i] \notin K
    BY <1>3
  <2>2. x[Len(x)] = m /\ Len(x) \in 1 .. Len(x)
    BY <1>5
  <2>3. \A i \in 1 .. Len(y) : x[i] = y[i] /\ i \in 1 .. Len(x)
    BY <1>5
  <2>4. QED
    BY <2>1, <2>2, <2>3
<1>7. Count(y, K) = 0
  <2>1. Len(y) \in Nat /\ ~(k <= Len(y))
    BY <1>3, <1>5
  <2>2. None0(y)
    BY <1>2, <2>1
  <2>3. QED
    BY <1>6, <2>2
<1>8. Count(<<m>>, K) = 0
  BY <1>6, CountOne
<1>9. x = y \o <<m>> /\ <<m>> \in Seq(S)
  BY <1>5
<1>10. Count(y \o <<m>>, K) = Count(y, K) + Count(<<m>>, K)
  BY <1>9, CountConcat
<1>11. QED
  BY <1>3, <1>7, <1>8, <1>9, <1>10

\* A request asks once.
LEMMA RequestAsksOnce ==
  ASSUME NEW r \in Seq(ToServer), Request(r)
  PROVE  Count(r, asks) = 1
<1>1. r # <<>>
  BY DEF Request
<1>2. PICK y \in Seq(ToServer), m \in ToServer : Len(y) = Len(r) - 1 /\ r = Append(y, m)
  BY <1>1, SplitLast
<1>3. r[Len(r)] = m /\ \A i \in 1 .. Len(r) - 1 : y[i] = r[i]
  BY <1>2
<1>4. m \in asks
  <2>1. m.type \in {"Q", "c", "S"}
    BY <1>3 DEF Request
  <2>2. QED
    BY <2>1 DEF asks, Extended
<1>5. \A i \in 1 .. Len(y) : y[i] \notin asks
  <2>1. \A i \in 1 .. Len(r) - 1 : r[i].type \in Extended
    BY DEF Request, Extended
  <2>2. QED
    BY <1>2, <1>3, <2>1 DEF asks
<1>6. Count(y, asks) = 0 /\ Count(<<m>>, asks) = 1
  BY <1>4, <1>5, CountNone, CountOne
<1>7. r = y \o <<m>> /\ <<m>> \in Seq(ToServer)
  BY <1>2
<1>8. Count(y \o <<m>>, asks) = Count(y, asks) + Count(<<m>>, asks)
  BY <1>7, CountConcat
<1>9. QED
  BY <1>6, <1>7, <1>8

\* An answer to a request ends it, other answers end nothing.
LastEnds(types) ==
    /\ types # <<>> /\ types[Len(types)] \in {"Z", "G"}
    /\ \A i \in 1 .. Len(types) - 1 : types[i] \notin {"Z", "G"}
NoneEnds(types) == \A i \in 1 .. Len(types) : types[i] \notin {"Z", "G"}

\* Which answers end a request.
LEMMA AnswerEnds ==
  ASSUME NEW m \in ToServer, m.type \in Extended => kind[m.stmt] # "copy"
  PROVE  /\ m.type \notin Extended => LastEnds(Success(m))
         /\ m.type \in Extended => NoneEnds(Success(m)) /\ \A t \in Failures(m) : NoneEnds(t)
         /\ m.type \in {"Q", "c"} => \A t \in Failures(m) : LastEnds(t)
<1>1. m.type \in {"Q", "c", "P", "B", "D", "Ex", "S"}
  BY DEF ToServer, ClientTypes
<1>2. m.type \notin Extended => Success(m) \in {<<"G">>, <<"T", "D", "D", "C", "Z">>, <<"C", "Z">>, <<"Z">>,
                                                <<"I", "Z">>, <<"T", "D", "C", "C", "Z">>}
  BY <1>1 DEF Success, Extended
<1>3. m.type \in Extended => Success(m) \in {<<"1">>, <<"2">>, <<"t", "T">>, <<"t", "n">>, <<"D", "D", "C">>,
                                             <<"C">>, <<"I">>}
  BY <1>1 DEF Success, Extended
<1>4. m.type \in Extended => Failures(m) = {<<"E">>}
  BY <1>1 DEF Failures, Extended
<1>5. m.type \in {"Q", "c"} => Failures(m) \subseteq {<<"E", "Z">>, <<"T", "D", "C", "E", "Z">>}
  BY DEF Failures
<1>6. \A t \in {<<"G">>, <<"T", "D", "D", "C", "Z">>, <<"C", "Z">>, <<"Z">>, <<"E", "Z">>, <<"I", "Z">>,
              <<"T", "D", "C", "C", "Z">>, <<"T", "D", "C", "E", "Z">>} : LastEnds(t)
  <2>1. LastEnds(<<"G">>) /\ LastEnds(<<"Z">>)
    BY DEF LastEnds
  <2>2. LastEnds(<<"C", "Z">>) /\ LastEnds(<<"E", "Z">>) /\ LastEnds(<<"I", "Z">>)
    BY DEF LastEnds
  <2>3. LastEnds(<<"T", "D", "D", "C", "Z">>)
    BY DEF LastEnds
  <2>4. LastEnds(<<"T", "D", "C", "C", "Z">>)
    BY DEF LastEnds
  <2>5. LastEnds(<<"T", "D", "C", "E", "Z">>)
    BY DEF LastEnds
  <2>6. QED
    BY <2>1, <2>2, <2>3, <2>4, <2>5
<1>7. \A t \in {<<"1">>, <<"2">>, <<"t", "T">>, <<"t", "n">>, <<"D", "D", "C">>, <<"C">>, <<"E">>, <<"I">>} : NoneEnds(t)
  BY DEF NoneEnds
<1>8. QED
  BY <1>2, <1>3, <1>4, <1>5, <1>6, <1>7

\* The same of the messages that carry the answer.
LEMMA SaidEnds ==
  ASSUME NEW m \in ToServer, NEW types \in Seq(ServerTypes)
  PROVE  /\ Said(m, types) \in Seq(FromServer) /\ Len(Said(m, types)) = Len(types)
         /\ LastEnds(types) => Count(Said(m, types), ends) = 1
         /\ NoneEnds(types) => Count(Said(m, types), ends) = 0
<1>1. Said(m, types) \in Seq(FromServer) /\ Len(Said(m, types)) = Len(types)
  BY AnswerShape DEF Said
<1>2. \A i \in 1 .. Len(types) : Said(m, types)[i].type = types[i]
  BY DEF Said, Msg
<1>3. PICK r \in Seq(FromServer) : r = Said(m, types)
  BY <1>1
<1>4. ASSUME NoneEnds(types) PROVE Count(r, ends) = 0
  <2>1. \A i \in 1 .. Len(r) : r[i] \notin ends
    BY <1>1, <1>2, <1>3, <1>4 DEF NoneEnds, ends
  <2>2. QED
    BY <2>1, CountNone
<1>5. ASSUME LastEnds(types) PROVE Count(r, ends) = 1
  <2>1. r # <<>>
    BY <1>1, <1>3, <1>5 DEF LastEnds
  <2>2. PICK y \in Seq(FromServer), e \in FromServer : Len(y) = Len(r) - 1 /\ r = Append(y, e)
    BY <2>1, SplitLast
  <2>3. r[Len(r)] = e /\ (\A i \in 1 .. Len(y) : y[i] = r[i]) /\ Len(r) = Len(types) /\ Len(r) \in 1 .. Len(r)
    BY <1>1, <1>3, <2>2
  <2>4. e \in ends
    BY <1>2, <1>3, <1>5, <2>3 DEF LastEnds, ends
  <2>5. \A i \in 1 .. Len(y) : y[i] \notin ends
    BY <1>2, <1>3, <1>5, <2>2, <2>3 DEF LastEnds, ends
  <2>6. Count(y, ends) = 0 /\ Count(<<e>>, ends) = 1
    BY <2>4, <2>5, CountNone, CountOne
  <2>7. r = y \o <<e>> /\ <<e>> \in Seq(FromServer)
    BY <2>2
  <2>8. Count(y \o <<e>>, ends) = Count(y, ends) + Count(<<e>>, ends)
    BY <2>7, CountConcat
  <2>9. QED
    BY <2>6, <2>7, <2>8
<1>6. QED
  BY <1>1, <1>3, <1>4, <1>5

\* What a step does to the ends of answers on their way.
LEMMA DownFlow ==
  ASSUME Shape, [Next]_vars
  PROVE  \/ /\ ClientReceive /\ to_client # <<>>
            /\ Count(Down, ends) = Count(<<Head(to_client)>>, ends) + Count(Down', ends)
         \/ /\ Server
            /\ \A r \in Seq(FromServer) : from_server' = from_server \o r =>
                  Count(Down', ends) = Count(Down, ends) + Count(r, ends)
         \/ ~ClientReceive /\ ~Server /\ Count(Down', ends) = Count(Down, ends)
<1> DEFINE a == Count(to_client, ends)
           b == Count(client_buf, ends)
           c == Count(HeldS, ends)
           d == Count(from_server, ends)
<1>1. Count(Down, ends) = a + b + c + d /\ a \in Nat /\ b \in Nat /\ c \in Nat /\ d \in Nat
  BY DownParts
<1>2. /\ Count(Down', ends) = Count(to_client', ends) + Count(client_buf', ends)
                                + Count(HeldS', ends) + Count(from_server', ends)
      /\ Count(to_client', ends) \in Nat /\ Count(client_buf', ends) \in Nat
      /\ Count(HeldS', ends) \in Nat /\ Count(from_server', ends) \in Nat
  <2>1. Shape'
    BY ShapeStep
  <2>2. (Shape => /\ Count(Down, ends) = Count(to_client, ends) + Count(client_buf, ends)
                                           + Count(HeldS, ends) + Count(from_server, ends)
                  /\ Count(to_client, ends) \in Nat /\ Count(client_buf, ends) \in Nat
                  /\ Count(HeldS, ends) \in Nat /\ Count(from_server, ends) \in Nat)'
    BY DownParts, PTL
  <2>3. QED
    BY <2>1, <2>2
<1>3. /\ to_client \in Seq(FromServer) /\ client_buf \in Seq(FromServer) /\ from_server \in Seq(FromServer)
      /\ HeldS \in Seq(FromServer)
  BY HeldType DEF Shape, WiresShape
<1>4. \A p, q \in Seq(FromServer) : Count(p \o q, ends) = Count(p, ends) + Count(q, ends)
  BY CountConcat
<1> HIDE DEF a, b, c, d
<1>5. ASSUME UNCHANGED <<to_client, client_buf, from_server>>, HeldS' = HeldS
      PROVE  Count(Down', ends) = Count(Down, ends)
  BY <1>1, <1>2, <1>5 DEF a, b, c, d
<1>6. ASSUME ClientReceive PROVE to_client # <<>> /\ Count(Down, ends) = Count(<<Head(to_client)>>, ends) + Count(Down', ends)
  <2>1. /\ to_client # <<>> /\ to_client' = Tail(to_client)
        /\ UNCHANGED <<client_buf, from_server, s2c>>
    BY <1>6 DEF ClientReceive
  <2>2. /\ to_client = <<Head(to_client)>> \o to_client' /\ <<Head(to_client)>> \in Seq(FromServer)
        /\ to_client' \in Seq(FromServer)
    BY <1>3, <2>1, HeadTail
  <2>3. a = Count(<<Head(to_client)>>, ends) + Count(to_client', ends) /\ Count(<<Head(to_client)>>, ends) \in Nat
    <3>1. PICK h \in Seq(FromServer), t \in Seq(FromServer) :
             h = <<Head(to_client)>> /\ t = to_client' /\ to_client = h \o t
      BY <2>2
    <3>2. Count(h \o t, ends) = Count(h, ends) + Count(t, ends)
      BY <1>4
    <3>3. Count(h, ends) \in Nat
      BY CountConcat
    <3>4. QED
      BY <3>1, <3>2, <3>3 DEF a
  <2>4. HeldS' = HeldS
    BY <2>1 DEF HeldS
  <2>5. /\ Count(client_buf', ends) = b /\ Count(HeldS', ends) = c /\ Count(from_server', ends) = d
    BY <2>1, <2>4 DEF b, c, d
  <2>6. PICK h : h = Count(<<Head(to_client)>>, ends)
    OBVIOUS
  <2>7. PICK t : t = Count(to_client', ends)
    OBVIOUS
  <2>8. h + t + b + c + d = h + (t + b + c + d)
    BY <1>1, <1>2, <2>3, <2>6, <2>7
  <2>9. Count(Down, ends) = h + t + b + c + d /\ Count(Down', ends) = t + b + c + d
    BY <1>1, <1>2, <2>3, <2>5, <2>6, <2>7
  <2>10. QED
    BY <2>1, <2>6, <2>8, <2>9
<1>7. ASSUME Server, NEW r \in Seq(FromServer), from_server' = from_server \o r
      PROVE  Count(Down', ends) = Count(Down, ends) + Count(r, ends)
  <2>1. UNCHANGED <<to_client, client_buf, s2c>>
    BY <1>7 DEF Server
  <2>2. Count(from_server', ends) = d + Count(r, ends) /\ Count(r, ends) \in Nat
    BY <1>3, <1>4, <1>7, CountConcat DEF d
  <2>3. HeldS' = HeldS
    BY <2>1 DEF HeldS
  <2>4. QED
    BY <1>1, <1>2, <2>1, <2>2, <2>3 DEF a, b, c
<1>8. ASSUME S2CRead PROVE Count(Down', ends) = Count(Down, ends)
  <2>1. from_server # <<>> /\ from_server' = Tail(from_server) /\ UNCHANGED <<to_client, client_buf>>
    BY <1>8 DEF S2CRead
  <2>2. HeldS = <<>> /\ HeldS' = <<Head(from_server)>>
    <3>1. s2c.pc = "read" /\ s2c'.msg = Head(from_server) /\ s2c'.pc # "read"
      BY <1>8 DEF S2CRead
    <3>2. QED
      BY <3>1 DEF HeldS
  <2>3. from_server = HeldS' \o from_server' /\ HeldS' \in Seq(FromServer) /\ from_server' \in Seq(FromServer)
    BY <1>3, <2>1, <2>2, HeadTail
  <2>4. d = Count(HeldS', ends) + Count(from_server', ends)
    BY <1>4, <2>3 DEF d
  <2>5. c = 0
    BY <2>2, CountEmpty DEF c
  <2>6. QED
    BY <1>1, <1>2, <2>1, <2>4, <2>5 DEF a, b
<1>9. ASSUME S2CForward PROVE Count(Down', ends) = Count(Down, ends)
  <2>1. /\ s2c.msg \in FromServer /\ HeldS = <<s2c.msg>> /\ HeldS' = <<>> /\ from_server' = from_server
    BY <1>9 DEF S2CForward, Shape, TasksShape, HeldS, Idle
  <2>2. Count(HeldS', ends) = 0
    BY <2>1, CountEmpty
  <2>3. /\ Append(client_buf, s2c.msg) = client_buf \o HeldS /\ Append(client_buf, s2c.msg) \in Seq(FromServer)
    <3>1. \A q \in Seq(FromServer), m \in FromServer : Append(q, m) = q \o <<m>> /\ Append(q, m) \in Seq(FromServer)
      OBVIOUS
    <3>2. Append(client_buf, s2c.msg) = client_buf \o <<s2c.msg>> /\ Append(client_buf, s2c.msg) \in Seq(FromServer)
      BY <1>3, <2>1, <3>1
    <3>3. QED
      BY <2>1, <3>2
  <2>4. Count(Append(client_buf, s2c.msg), ends) = b + c
    BY <1>3, <1>4, <2>3 DEF b, c
  <2>5. CASE Suppressed(s2c.msg.type)
    <3>1. UNCHANGED <<client_buf, to_client>>
      BY <1>9, <2>5 DEF S2CForward
    <3>2. s2c.msg \notin ends
      BY <2>5 DEF Suppressed, ends
    <3>3. c = 0
      BY <2>1, <3>2, CountOne DEF c
    <3>4. QED
      BY <1>1, <1>2, <2>1, <2>2, <3>1, <3>3 DEF a, b, d
  <2>6. CASE ~Suppressed(s2c.msg.type) /\ Flushes(s2c.msg.type)
    <3>1. to_client' = to_client \o Append(client_buf, s2c.msg) /\ client_buf' = <<>>
      BY <1>9, <2>6 DEF S2CForward
    <3>2. Count(to_client', ends) = a + (b + c)
      BY <1>3, <1>4, <2>3, <2>4, <3>1, ZenonT(40) DEF a
    <3>3. Count(client_buf', ends) = 0
      BY <3>1, CountEmpty
    <3>4. QED
      BY <1>1, <1>2, <2>1, <2>2, <3>2, <3>3 DEF d
  <2>7. CASE ~Suppressed(s2c.msg.type) /\ ~Flushes(s2c.msg.type)
    <3>1. client_buf' = Append(client_buf, s2c.msg) /\ to_client' = to_client
      BY <1>9, <2>7 DEF S2CForward
    <3>2. QED
      BY <1>1, <1>2, <2>1, <2>2, <2>4, <3>1 DEF a, d
  <2>8. QED
    BY <2>5, <2>6, <2>7
<1>10. ASSUME BufferFull PROVE Count(Down', ends) = Count(Down, ends)
  <2>1. to_client' = to_client \o client_buf /\ client_buf' = <<>> /\ UNCHANGED <<from_server, s2c>>
    BY <1>10 DEF BufferFull
  <2>2. Count(to_client', ends) = a + b /\ Count(client_buf', ends) = 0
    BY <1>3, <1>4, <2>1, CountEmpty DEF a, b
  <2>3. HeldS' = HeldS
    BY <2>1 DEF HeldS
  <2>4. QED
    BY <1>1, <1>2, <2>1, <2>2, <2>3 DEF c, d
<1>11. ASSUME \/ S2CParameterDescription \/ S2CRowDescription \/ S2CDataRow \/ S2CComplete \/ S2CPop \/ S2CError
       PROVE  Count(Down', ends) = Count(Down, ends)
  <2>1. UNCHANGED <<to_client, client_buf, from_server>>
    BY <1>11 DEF S2CParameterDescription, S2CRowDescription, S2CDataRow, S2CComplete, S2CPop, S2CError, wires
  <2>2. s2c.pc # "read" /\ s2c'.pc # "read" /\ s2c'.msg = s2c.msg
    BY <1>11 DEF S2CParameterDescription, S2CRowDescription, S2CDataRow, S2CComplete, S2CPop, S2CError,
                 Shape, TasksShape
  <2>3. QED
    BY <1>5, <2>1, <2>2 DEF HeldS
<1>12. ASSUME ClientSend \/ C2S \/ Toggle \/ UNCHANGED vars PROVE Count(Down', ends) = Count(Down, ends)
  <2>1. UNCHANGED <<to_client, client_buf, from_server, s2c>>
    BY <1>12 DEF ClientSend, C2S, C2SRead, C2SRewrite, C2SPushInjected, C2SSuppress, C2SQuery, C2SParse,
                 C2SDescribe, C2SBind, C2SWrite, Toggle, vars, wires
  <2>2. QED
    BY <1>5, <2>1 DEF HeldS
<1>13. QED
  BY <1>6, <1>7, <1>8, <1>9, <1>10, <1>11, <1>12 DEF Next, S2C

\* No step is two of these.
LEMMA Apart ==
  ASSUME Shape
  PROVE  /\ ~(ClientSend /\ Server) /\ ~(ClientSend /\ ClientReceive)
         /\ ~(Server /\ ClientReceive)
<1>1. ASSUME ClientSend PROVE script' # script
  <2>1. script \in Seq(Seq(ToServer)) /\ script # <<>> /\ script' = Tail(script)
    BY <1>1 DEF ClientSend, Shape, SetupShape
  <2>2. Len(script') = Len(script) - 1 /\ Len(script) \in Nat
    BY <2>1
  <2>3. QED
    BY <2>2
<1>2. ASSUME ClientReceive PROVE received' # received
  <2>1. received \in Seq(FromServer) /\ received' = Append(received, Head(to_client))
    BY <1>2 DEF ClientReceive, Shape, WiresShape
  <2>2. Len(received') = Len(received) + 1 /\ Len(received) \in Nat
    BY <2>1
  <2>3. QED
    BY <2>2
<1>3. Server => UNCHANGED <<script, received>>
  BY DEF Server, clientVars
<1>4. ClientReceive => UNCHANGED script
  BY DEF ClientReceive
<1>5. QED
  BY <1>1, <1>2, <1>3, <1>4

\* What the server says ends a request, and only a request.
LEMMA ServerSays ==
  ASSUME Shape, UpInv, Server, Up = <<Head(to_server)>> \o Up', Up' \in Seq(ToServer)
  PROVE  \E m \in ToServer, types \in Seq(ServerTypes), ok \in BOOLEAN, rows \in BOOLEAN :
            /\ m = Head(to_server) /\ Said(m, types) \in Seq(FromServer)
            /\ from_server' = from_server \o Said(m, types)
            /\ Outcome(m, ok, rows)
            /\ Skipped(m, types) \/ Succeeded(m, types, ok, rows) \/ Failed(m, types, ok, rows)
            /\ IF m.type \in Extended THEN NoneEnds(types) ELSE LastEnds(types)
<1>1. PICK m \in ToServer, types \in Seq(ServerTypes), ok \in BOOLEAN, rows \in BOOLEAN :
         /\ m = Head(to_server) /\ Said(m, types) \in Seq(FromServer)
         /\ from_server' = from_server \o Said(m, types)
         /\ Outcome(m, ok, rows)
         /\ Skipped(m, types) \/ Succeeded(m, types, ok, rows) \/ Failed(m, types, ok, rows)
  BY ServerStep, ZenonT(60)
<1>2. Up[1] = m /\ 1 \in 1 .. Len(Up)
  BY <1>1
<1>3. m.type \in Extended => kind[m.stmt] # "copy"
  BY <1>2 DEF UpInv, Runs
<1>4. skipping => m.type \in Extended \cup {"S"}
  BY <1>2 DEF UpInv
<1>5. m.type \in {"Q", "c", "S"} \cup Extended
  BY DEF ToServer, ClientTypes, Extended
<1>6. ASSUME m.type \in Extended PROVE NoneEnds(types)
  <2>1. CASE types = <<>>
    BY <2>1 DEF NoneEnds
  <2>2. CASE types \in {Success(m)} \cup Failures(m)
    BY <1>3, <1>6, <2>2, AnswerEnds
  <2>3. QED
    BY <1>1, <2>1, <2>2 DEF Skipped, Succeeded, Failed
<1>7. ASSUME m.type \notin Extended PROVE LastEnds(types)
  <2>1. ~Skipped(m, types)
    BY <1>4, <1>7 DEF Skipped
  <2>2. CASE Succeeded(m, types, ok, rows)
    BY <1>7, <2>2, AnswerEnds DEF Succeeded
  <2>3. CASE Failed(m, types, ok, rows)
    <3>1. m.type \in {"Q", "c"} /\ types \in Failures(m)
      BY <1>5, <1>7, <2>3 DEF Failed
    <3>2. QED
      BY <1>7, <3>1, AnswerEnds
  <2>4. QED
    BY <1>1, <2>1, <2>2, <2>3
<1>8. QED
  BY <1>1, <1>6, <1>7

\* An answer from the server keeps the balance.
LEMMA CountServer ==
  ASSUME Shape, UpInv, Server, NEW a \in Nat, a = Count(Up, asks),
         Up = <<Head(to_server)>> \o Up', Up' \in Seq(ToServer)
  PROVE  \E r \in Seq(FromServer) :
            from_server' = from_server \o r /\ a = Count(Up', asks) + Count(r, ends)
<1>1. PICK m \in ToServer, types \in Seq(ServerTypes) :
         /\ m = Head(to_server) /\ Said(m, types) \in Seq(FromServer)
         /\ from_server' = from_server \o Said(m, types)
         /\ IF m.type \in Extended THEN NoneEnds(types) ELSE LastEnds(types)
  BY ServerSays, ZenonT(40)
<1>2. PICK up2 \in Seq(ToServer) : up2 = Up'
  OBVIOUS
<1>3. Up = <<m>> \o up2 /\ <<m>> \in Seq(ToServer)
  BY <1>1, <1>2
<1>4. Count(up2, asks) \in Nat /\ a = Count(<<m>>, asks) + Count(up2, asks)
  <2>1. Count(up2, asks) \in Nat /\ Count(<<m>> \o up2, asks) = Count(<<m>>, asks) + Count(up2, asks)
    BY <1>3, CountConcat
  <2>2. QED
    BY <1>3, <2>1
<1>5. CASE m.type \in Extended
  <2>1. Count(<<m>>, asks) = 0
    BY <1>5, CountOne DEF asks
  <2>2. Count(Said(m, types), ends) = 0
    BY <1>1, <1>5, SaidEnds
  <2>3. a = Count(up2, asks) + Count(Said(m, types), ends)
    BY <1>4, <2>1, <2>2
  <2>4. QED
    BY <1>1, <1>2, <2>3, Zenon
<1>6. CASE m.type \notin Extended
  <2>1. Count(<<m>>, asks) = 1
    BY <1>6, CountOne DEF asks
  <2>2. Count(Said(m, types), ends) = 1
    BY <1>1, <1>6, SaidEnds
  <2>3. a = Count(up2, asks) + Count(Said(m, types), ends)
    BY <1>4, <2>1, <2>2
  <2>4. QED
    BY <1>1, <1>2, <2>3, Zenon
<1>7. QED
  BY <1>5, <1>6

\* Every step keeps the balance of requests and answers.
LEMMA CountStep ==
  ASSUME Shape, ScriptLeft, UpInv, CountInv, outstanding \in Nat, [Next]_vars
  PROVE  CountInv'
<1>1. Up \in Seq(ToServer) /\ Up' \in Seq(ToServer) /\ Down \in Seq(FromServer) /\ Down' \in Seq(FromServer)
  <2>1. Shape'
    BY ShapeStep
  <2>2. (Shape => Up \in Seq(ToServer) /\ Down \in Seq(FromServer))'
    BY HeldType, PTL
  <2>3. QED
    BY <2>1, <2>2, HeldType
<1>2. PICK up \in Seq(ToServer), up2 \in Seq(ToServer) : up = Up /\ up2 = Up'
  BY <1>1
<1>3. PICK dn \in Seq(FromServer), dn2 \in Seq(FromServer) : dn = Down /\ dn2 = Down'
  BY <1>1
<1>4. /\ Count(up, asks) \in Nat /\ Count(up2, asks) \in Nat
      /\ Count(dn, ends) \in Nat /\ Count(dn2, ends) \in Nat
  BY CountConcat
<1>5. outstanding = Count(up, asks) + Count(dn, ends)
  BY <1>2, <1>3 DEF CountInv
<1>6. SUFFICES outstanding' = Count(up2, asks) + Count(dn2, ends)
  BY <1>2, <1>3 DEF CountInv
<1>7. CASE ClientSend
  <2>1. up2 = up \o Head(script) /\ Count(dn2, ends) = Count(dn, ends)
    BY <1>2, <1>3, <1>7, UpFlow, DownFlow, Apart
  <2>2. Head(script) \in Seq(ToServer) /\ Request(Head(script))
    BY <1>7, SentStep
  <2>3. Count(up2, asks) = Count(up, asks) + 1
    <3>1. Count(Head(script), asks) = 1
      BY <2>2, RequestAsksOnce
    <3>2. Count(up \o Head(script), asks) = Count(up, asks) + Count(Head(script), asks)
      BY <2>2, CountConcat
    <3>3. QED
      BY <2>1, <3>1, <3>2
  <2>4. outstanding' = outstanding + 1
    BY <1>7 DEF ClientSend
  <2>5. QED
    BY <1>4, <1>5, <2>1, <2>3, <2>4
<1>8. CASE Server
  <2>1. Up = <<Head(to_server)>> \o Up' /\ outstanding' = outstanding
    BY <1>8, UpFlow, Apart DEF Server, clientVars
  <2>2. PICK r \in Seq(FromServer) :
           from_server' = from_server \o r /\ Count(up, asks) = Count(Up', asks) + Count(r, ends)
    BY <1>1, <1>2, <1>4, <1>8, <2>1, CountServer
  <2>3. Count(dn2, ends) = Count(dn, ends) + Count(r, ends) /\ Count(r, ends) \in Nat
    <3>1. Count(Down', ends) = Count(Down, ends) + Count(r, ends)
      BY <1>8, <2>2, DownFlow, Apart
    <3>2. QED
      BY <1>3, <3>1, CountConcat
  <2>4. Count(up, asks) = Count(up2, asks) + Count(r, ends)
    BY <1>2, <2>2
  <2>5. QED
    BY <1>4, <1>5, <2>1, <2>3, <2>4
<1>9. CASE ClientReceive
  <2>1. Alike(up2, up)
    BY <1>2, <1>9, UpFlow, Apart
  <2>2. Count(up2, asks) = Count(up, asks)
    BY <2>1, CountAlike
  <2>3. /\ to_client # <<>>
        /\ Count(dn, ends) = Count(<<Head(to_client)>>, ends) + Count(dn2, ends)
    BY <1>3, <1>9, DownFlow, Apart
  <2>4. Head(to_client) \in FromServer
    BY <2>3 DEF Shape, WiresShape
  <2>5. CASE Head(to_client).type \in {"Z", "G"}
    <3>1. Count(<<Head(to_client)>>, ends) = 1
      BY <2>4, <2>5, CountOne DEF ends
    <3>2. outstanding' = outstanding - 1
      BY <1>9, <2>5 DEF ClientReceive
    <3>3. QED
      BY <1>4, <1>5, <2>2, <2>3, <3>1, <3>2
  <2>6. CASE Head(to_client).type \notin {"Z", "G"}
    <3>1. Count(<<Head(to_client)>>, ends) = 0
      BY <2>4, <2>6, CountOne DEF ends
    <3>2. outstanding' = outstanding
      BY <1>9, <2>6 DEF ClientReceive
    <3>3. QED
      BY <1>4, <1>5, <2>2, <2>3, <3>1, <3>2
  <2>7. QED
    BY <2>5, <2>6
<1>10. CASE ~ClientSend /\ ~Server /\ ~ClientReceive
  <2>1. Alike(up2, up) /\ Count(dn2, ends) = Count(dn, ends)
    BY <1>2, <1>3, <1>10, UpFlow, DownFlow
  <2>2. Count(up2, asks) = Count(up, asks)
    BY <2>1, CountAlike
  <2>3. outstanding' = outstanding
    BY <1>10 DEF Next, C2S, C2SRead, C2SRewrite, C2SPushInjected, C2SSuppress, C2SQuery, C2SParse, C2SDescribe,
                 C2SBind, C2SWrite, S2C, S2CRead, S2CParameterDescription, S2CRowDescription, S2CDataRow,
                 S2CComplete, S2CPop, S2CError, S2CForward, BufferFull, Toggle, vars, clientVars
  <2>4. QED
    BY <1>5, <2>1, <2>2, <2>3
<1>11. QED
  BY <1>7, <1>8, <1>9, <1>10

\* What the two halves of a request cannot exceed.
OutstandingInv == outstanding \in Nat /\ outstanding <= setup.window

\* Every step keeps within the window.
LEMMA OutstandingStep ==
  ASSUME Shape, CountInv', OutstandingInv, [Next]_vars
  PROVE  OutstandingInv'
<1>1. Shape'
  BY ShapeStep
<1>2. outstanding' \in Nat
  <2>1. (Shape => Up \in Seq(ToServer) /\ Down \in Seq(FromServer))'
    BY HeldType, PTL
  <2>2. PICK up2 \in Seq(ToServer), dn2 \in Seq(FromServer) : up2 = Up' /\ dn2 = Down'
    BY <1>1, <2>1
  <2>3. Count(up2, asks) \in Nat /\ Count(dn2, ends) \in Nat
    BY CountConcat
  <2>4. outstanding' = Count(up2, asks) + Count(dn2, ends)
    BY <2>2 DEF CountInv
  <2>5. QED
    BY <2>3, <2>4
<1>3. setup' = setup /\ setup.window \in Nat
  BY SetupFacts DEF Shape, SetupShape, Next, vars, ClientSend, ClientReceive, Server, C2S, C2SRead, C2SRewrite,
     C2SPushInjected, C2SSuppress, C2SQuery, C2SParse, C2SDescribe, C2SBind, C2SWrite, S2C, S2CRead,
     S2CParameterDescription, S2CRowDescription, S2CDataRow, S2CComplete, S2CPop, S2CError, S2CForward,
     BufferFull, Toggle, toggleVars
<1>4. outstanding' <= setup.window
  <2>1. CASE ClientSend
    <3>1. outstanding < setup.window /\ outstanding' = outstanding + 1
      BY <2>1 DEF ClientSend
    <3>2. QED
      BY <1>3, <3>1 DEF OutstandingInv
  <2>2. CASE ClientReceive
    <3>1. outstanding' \in {outstanding, outstanding - 1}
      BY <2>2 DEF ClientReceive
    <3>2. QED
      BY <1>3, <3>1 DEF OutstandingInv
  <2>3. CASE ~ClientSend /\ ~ClientReceive
    <3>1. outstanding' = outstanding
      BY <2>3 DEF Next, C2S, C2SRead, C2SRewrite, C2SPushInjected, C2SSuppress, C2SQuery, C2SParse, C2SDescribe,
                  C2SBind, C2SWrite, S2C, S2CRead, S2CParameterDescription, S2CRowDescription, S2CDataRow, Server,
                  S2CComplete, S2CPop, S2CError, S2CForward, BufferFull, Toggle, vars, clientVars
    <3>2. QED
      BY <1>3, <3>1 DEF OutstandingInv
  <2>4. QED
    BY <2>1, <2>2, <2>3
<1>5. QED
  BY <1>2, <1>3, <1>4 DEF OutstandingInv

\* What the two balances rest on.
Balance == Shape /\ ScriptLeft /\ UpInv /\ CountInv /\ OutstandingInv

\* Nothing is on its way at first.
LEMMA BalanceInit ==
  ASSUME Init
  PROVE  Balance /\ Up = <<>> /\ from_server = <<>> /\ s2c = Idle
<1>1. Shape /\ ScriptLeft
  BY InitShape, ScriptLeftInit
<1>2. Up = <<>> /\ Down = <<>> /\ ~skipping /\ outstanding = 0
  <2>1. /\ to_server = <<>> /\ to_proxy = <<>> /\ HeldC = <<>> /\ HeldS = <<>> /\ to_client = <<>>
        /\ client_buf = <<>> /\ from_server = <<>> /\ ~skipping /\ outstanding = 0
    BY DEF Init, HeldC, HeldS, Idle
  <2>2. <<>> \o (<<>> \o <<>>) = <<>> /\ <<>> \o (<<>> \o (<<>> \o <<>>)) = <<>>
    OBVIOUS
  <2>3. QED
    BY <2>1, <2>2 DEF Up, Down
<1>3. UpInv
  BY <1>2 DEF UpInv, Runs
<1>4. CountInv
  BY <1>2, CountEmpty DEF CountInv
<1>5. OutstandingInv
  BY <1>1, <1>2, SetupFacts DEF OutstandingInv, Shape, SetupShape
<1>6. QED
  BY <1>1, <1>2, <1>3, <1>4, <1>5 DEF Init, Balance

\* Every step keeps the balances.
LEMMA BalanceStep ==
  ASSUME Balance, [Next]_vars
  PROVE  Balance'
<1> USE DEF Balance
<1>1. Shape' /\ UpInv'
  BY ShapeStep, UpStep
<1>2. ScriptLeft'
  BY ScriptLeftStep
<1>3. CountInv'
  BY CountStep DEF OutstandingInv
<1>4. OutstandingInv'
  BY <1>3, OutstandingStep
<1>5. QED
  BY <1>1, <1>2, <1>3, <1>4

\* The shared state keeps its shape, and the client is never owed less than
\* nothing: every request gets exactly one end of an answer, rewritten, failed,
\* discarded or not (relay_server_to_client, handle_data_row).
THEOREM TypeCorrect == Spec => []TypeOK
<1>1. Init => Balance
  BY BalanceInit
<1>2. Balance /\ [Next]_vars => Balance'
  BY BalanceStep
<1>3. Balance => TypeOK
  <2> SUFFICES ASSUME Balance PROVE TypeOK
    OBVIOUS
  <2>1. outstanding \in 0 .. setup.window
    BY SetupFacts DEF Balance, OutstandingInv, Shape, SetupShape
  <2>2. c2s.pc \in Pcs /\ s2c.pc \in Pcs
    BY DEF Balance, Shape, TasksShape, CPcs, SPcs, Pcs
  <2>3. QED
    BY <2>1, <2>2 DEF Balance, TypeOK, Shape, SharedShape
<1>4. QED
  BY <1>1, <1>2, <1>3, PTL DEF Spec

-----------------------------------------------------------------------------
(***************************************************************************)
(* What is captured.  Coming is what s2c has still to look at; a client    *)
(* that waits has one request on its way, and what was said about the one  *)
(* before has been looked at.                                              *)
(***************************************************************************)
Taken == IF s2c.pc \in {"t", "T", "D", "C", "E"} THEN <<s2c.msg>> ELSE <<>>
Coming == Taken \o from_server

\* Once the server has nothing more to read it has ended its answer.
LastInv == Up = <<>> /\ Coming # <<>> => Coming[Len(Coming)] \in ends

LookInv ==
    /\ c2s.pc \in {"Q", "P", "B", "D"} => c2s.msg.type = c2s.pc
    /\ c2s.pc = "rewrite" => c2s.msg.type = "Q"
    /\ s2c.pc \in {"t", "T", "D", "C", "E"} => s2c.msg.type = s2c.pc
    /\ setup.toggles = 0 => ~no_capture /\ toggles = 0

\* One of them is in a sequence, so it counts.
LEMMA CountSome ==
  ASSUME NEW S, NEW K, NEW p \in Seq(S), \E i \in 1 .. Len(p) : p[i] \in K
  PROVE  Count(p, K) # 0
<1> DEFINE Some(x) == (\E i \in 1 .. Len(x) : x[i] \in K) => Count(x, K) # 0
           Bad == {k \in Nat : \E x \in Seq(S) : Len(x) = k /\ ~Some(x)}
<1>1. SUFFICES ASSUME Bad # {} PROVE FALSE
  <2>1. ASSUME Bad = {} PROVE Some(p)
    <3>1. Len(p) \in Nat
      OBVIOUS
    <3>2. QED
      BY <2>1, <3>1
  <2>2. QED
    BY <2>1
<1>2. PICK k \in Bad : \A j \in Bad : k <= j
  <2>1. Bad \in SUBSET Nat
    OBVIOUS
  <2>2. QED
    BY <1>1, <2>1, LeastNumber
<1>3. PICK x \in Seq(S) : Len(x) = k /\ ~Some(x)
  OBVIOUS
<1>4. PICK i \in 1 .. Len(x) : x[i] \in K
  BY <1>3
<1>5. x # <<>> /\ Count(x, K) = 0
  BY <1>3, <1>4
<1>6. PICK y \in Seq(S), m \in S : Len(y) = Len(x) - 1 /\ x = Append(y, m)
  BY <1>5, SplitLast
<1>7. x = y \o <<m>> /\ <<m>> \in Seq(S)
  BY <1>6
<1>8. Count(y \o <<m>>, K) = Count(y, K) + Count(<<m>>, K) /\ Count(y, K) \in Nat /\ Count(<<m>>, K) \in Nat
  BY <1>7, CountConcat
<1>9. Count(y, K) = 0 /\ Count(<<m>>, K) = 0
  BY <1>5, <1>7, <1>8
<1>10. m \notin K
  BY <1>9, CountOne
<1>11. i \in 1 .. Len(y) /\ y[i] \in K
  <2>1. x[Len(x)] = m /\ \A j \in 1 .. Len(y) : x[j] = y[j]
    BY <1>6
  <2>2. i # Len(x)
    BY <1>4, <1>10, <2>1
  <2>3. QED
    BY <1>4, <1>6, <2>1, <2>2
<1>12. Some(y)
  <2>1. Len(y) \in Nat /\ ~(k <= Len(y))
    BY <1>3, <1>6
  <2>2. QED
    BY <1>2, <2>1
<1>13. QED
  BY <1>9, <1>11, <1>12

\* What s2c has still to look at are messages of the server.
LEMMA ComingType ==
  ASSUME Shape
  PROVE  Taken \in Seq(FromServer) /\ Coming \in Seq(FromServer)
<1>1. Taken \in Seq(FromServer)
  <2>1. CASE s2c.pc \in {"t", "T", "D", "C", "E"}
    <3>1. s2c.msg \in FromServer /\ Taken = <<s2c.msg>>
      BY <2>1 DEF Shape, TasksShape, Taken
    <3>2. QED
      BY <3>1
  <2>2. CASE s2c.pc \notin {"t", "T", "D", "C", "E"}
    BY <2>2, Concat DEF Taken
  <2>3. QED
    BY <2>1, <2>2
<1>2. QED
  BY <1>1 DEF Coming, Shape, WiresShape

\* A task that looks at a message knows its type.
LEMMA LookStep ==
  ASSUME Shape, LookInv, [Next]_vars
  PROVE  LookInv'
<1>0. ASSUME \/ C2SRewrite \/ C2SPushInjected \/ C2SSuppress \/ C2SQuery \/ C2SParse
             \/ C2SDescribe \/ C2SBind \/ C2SWrite
      PROVE  c2s'.pc \notin {"rewrite", "Q", "P", "B", "D"}
  <2>1. CASE C2SRewrite
    BY <2>1 DEF C2SRewrite, Shape, TasksShape
  <2>2. CASE C2SPushInjected
    BY <2>2 DEF C2SPushInjected, Shape, TasksShape
  <2>3. CASE C2SSuppress
    BY <2>3 DEF C2SSuppress, after_injection, Shape, TasksShape
  <2>4. CASE C2SQuery \/ C2SParse \/ C2SDescribe \/ C2SBind
    <3>1. c2s'.pc = "write"
      BY <2>4 DEF C2SQuery, C2SParse, C2SDescribe, C2SBind, Shape, TasksShape
    <3>2. QED
      BY <3>1
  <2>5. CASE C2SWrite
    BY <2>5 DEF C2SWrite, Idle
  <2>6. QED
    BY <1>0, <2>1, <2>2, <2>3, <2>4, <2>5
<1>1. c2s'.pc \in {"Q", "P", "B", "D"} => c2s'.msg.type = c2s'.pc
  <2>1. CASE C2SRead
    BY <2>1 DEF C2SRead, untracked
  <2>2. CASE C2SRewrite \/ C2SPushInjected \/ C2SSuppress \/ C2SQuery \/ C2SParse \/ C2SDescribe \/ C2SBind \/ C2SWrite
    BY <1>0, <2>2
  <2>3. CASE UNCHANGED c2s
    BY <2>3 DEF LookInv
  <2>4. QED
    BY <2>1, <2>2, <2>3 DEF Next, C2S, S2C, vars, ClientSend, ClientReceive, Server, S2CRead, S2CParameterDescription,
       S2CRowDescription, S2CDataRow, S2CComplete, S2CPop, S2CError, S2CForward, BufferFull, Toggle
<1>2. c2s'.pc = "rewrite" => c2s'.msg.type = "Q"
  <2>1. CASE C2SRead
    BY <2>1 DEF C2SRead, untracked
  <2>2. CASE C2SRewrite \/ C2SPushInjected \/ C2SSuppress \/ C2SQuery \/ C2SParse \/ C2SDescribe \/ C2SBind \/ C2SWrite
    BY <1>0, <2>2
  <2>3. CASE UNCHANGED c2s
    BY <2>3 DEF LookInv
  <2>4. QED
    BY <2>1, <2>2, <2>3 DEF Next, C2S, S2C, vars, ClientSend, ClientReceive, Server, S2CRead, S2CParameterDescription,
       S2CRowDescription, S2CDataRow, S2CComplete, S2CPop, S2CError, S2CForward, BufferFull, Toggle
<1>3. s2c'.pc \in {"t", "T", "D", "C", "E"} => s2c'.msg.type = s2c'.pc
  <2>1. CASE S2CRead
    BY <2>1 DEF S2CRead
  <2>2. CASE S2CParameterDescription \/ S2CRowDescription \/ S2CDataRow \/ S2CComplete \/ S2CPop \/ S2CError \/ S2CForward
    <3>1. s2c'.pc \notin {"t", "T", "D", "C", "E"}
      BY <2>2 DEF S2CParameterDescription, S2CRowDescription, S2CDataRow, S2CComplete, S2CPop, S2CError, S2CForward,
                  Idle, Shape, TasksShape
    <3>2. QED
      BY <3>1
  <2>3. CASE UNCHANGED s2c
    BY <2>3 DEF LookInv
  <2>4. QED
    BY <2>1, <2>2, <2>3 DEF Next, C2S, S2C, vars, ClientSend, ClientReceive, Server, C2SRead, C2SRewrite,
       C2SPushInjected, C2SSuppress, C2SQuery, C2SParse, C2SDescribe, C2SBind, C2SWrite, BufferFull, Toggle
<1>4. setup'.toggles = 0 => ~no_capture' /\ toggles' = 0
  <2>1. CASE Toggle
    <3>1. toggles < setup.toggles /\ setup' = setup
      BY <2>1 DEF Toggle
    <3>2. CASE setup.toggles = 0
      BY <3>1, <3>2 DEF LookInv
    <3>3. QED
      BY <3>1, <3>2
  <2>2. CASE ~Toggle
    <3>1. UNCHANGED <<setup, no_capture, toggles>>
      BY <2>2 DEF Next, C2S, S2C, vars, ClientSend, ClientReceive, Server, C2SRead, C2SRewrite,
         C2SPushInjected, C2SSuppress, C2SQuery, C2SParse, C2SDescribe, C2SBind, C2SWrite, S2CRead,
         S2CParameterDescription, S2CRowDescription, S2CDataRow, S2CComplete, S2CPop, S2CError, S2CForward,
         BufferFull, toggleVars
    <3>2. QED
      BY <3>1 DEF LookInv
  <2>3. QED
    BY <2>1, <2>2
<1>5. QED
  BY <1>1, <1>2, <1>3, <1>4 DEF LookInv

\* The actions with which s2c has looked at a message.
Looked == \/ S2CParameterDescription \/ S2CRowDescription \/ S2CDataRow
          \/ S2CComplete \/ S2CError

\* What a step does to the messages s2c has still to look at.
LEMMA ComingFlow ==
  ASSUME Shape, [Next]_vars
  PROVE  /\ Server => \A r \in Seq(FromServer) : from_server' = from_server \o r => Coming' = Coming \o r
         /\ S2CRead => IF s2c'.pc \in {"t", "T", "D", "C", "E"} THEN Coming' = Coming
                       ELSE Coming = <<s2c'.msg>> \o Coming'
         /\ Looked => Coming = <<s2c.msg>> \o Coming'
         /\ ~Server /\ ~S2CRead /\ ~Looked => Coming' = Coming
<1>1. from_server \in Seq(FromServer) /\ Taken \in Seq(FromServer)
  BY ComingType DEF Shape, WiresShape
<1>2. ASSUME Server, NEW r \in Seq(FromServer), from_server' = from_server \o r PROVE Coming' = Coming \o r
  <2>1. s2c' = s2c
    BY <1>2 DEF Server
  <2>2. Taken \o (from_server \o r) = (Taken \o from_server) \o r
    BY <1>1, ConcatAssoc
  <2>3. Taken' = Taken
    BY <2>1 DEF Taken
  <2>4. QED
    BY <1>2, <2>2, <2>3 DEF Coming
<1>3. ASSUME S2CRead
      PROVE  IF s2c'.pc \in {"t", "T", "D", "C", "E"} THEN Coming' = Coming ELSE Coming = <<s2c'.msg>> \o Coming'
  <2>1. s2c.pc = "read" /\ from_server # <<>> /\ from_server' = Tail(from_server) /\ s2c'.msg = Head(from_server)
    BY <1>3 DEF S2CRead
  <2>2. from_server = <<s2c'.msg>> \o from_server' /\ from_server' \in Seq(FromServer)
    BY <1>1, <2>1, HeadTail
  <2>3. Coming = from_server
    <3>1. Taken = <<>>
      BY <2>1 DEF Taken
    <3>2. QED
      BY <1>1, <3>1, ConcatEmptySeq DEF Coming
  <2>4. CASE s2c'.pc \in {"t", "T", "D", "C", "E"}
    BY <2>2, <2>3, <2>4 DEF Coming, Taken
  <2>5. CASE s2c'.pc \notin {"t", "T", "D", "C", "E"}
    <3>1. Coming' = from_server'
      BY <2>2, <2>5, ConcatEmptySeq DEF Coming, Taken
    <3>2. QED
      BY <2>2, <2>3, <2>5, <3>1
  <2>6. QED
    BY <2>4, <2>5
<1>4. ASSUME Looked PROVE Coming = <<s2c.msg>> \o Coming'
  <2>1. s2c.pc \in {"t", "T", "D", "C", "E"}
    BY <1>4 DEF Looked, S2CParameterDescription, S2CRowDescription, S2CDataRow, S2CComplete, S2CError
  <2>2. s2c'.pc \in {"forward", "pop"}
    <3>1. s2c \in [pc : SPcs, msg : FromServer \cup {None}]
      BY DEF Shape, TasksShape
    <3>2. CASE S2CComplete
      BY <3>1, <3>2 DEF S2CComplete
    <3>3. CASE S2CParameterDescription \/ S2CRowDescription \/ S2CDataRow \/ S2CError
      <4>1. s2c' = [s2c EXCEPT !.pc = "forward"]
        BY <3>3 DEF S2CParameterDescription, S2CRowDescription, S2CDataRow, S2CError
      <4>2. QED
        BY <3>1, <4>1
    <3>4. QED
      BY <1>4, <3>2, <3>3 DEF Looked
  <2>3. from_server' = from_server
    BY <1>4 DEF Looked, S2CParameterDescription, S2CRowDescription, S2CDataRow, S2CComplete, S2CError, wires
  <2>4. Taken = <<s2c.msg>> /\ Taken' = <<>>
    BY <2>1, <2>2 DEF Taken
  <2>5. Coming' = from_server
    BY <1>1, <2>3, <2>4, ConcatEmptySeq DEF Coming
  <2>6. QED
    BY <2>4, <2>5 DEF Coming
<1>5. ASSUME ~Server, ~S2CRead, ~Looked PROVE Coming' = Coming
  <2>1. from_server' = from_server
    BY <1>5 DEF Looked, Next, C2S, S2C, vars, wires, ClientSend, ClientReceive, C2SRead, C2SRewrite, C2SPushInjected,
       C2SSuppress, C2SQuery, C2SParse, C2SDescribe, C2SBind, C2SWrite, S2CPop, S2CForward, BufferFull, Toggle
  <2>2. Taken' = Taken
    <3>1. CASE S2CPop \/ S2CForward
      <4>1. s2c.pc \in {"pop", "forward"}
        BY <3>1 DEF S2CPop, S2CForward
      <4>2. s2c'.pc \in {"read", "forward"}
        <5>1. CASE S2CPop
          BY <5>1 DEF S2CPop, Shape, TasksShape
        <5>2. CASE S2CForward
          BY <5>2 DEF S2CForward, Idle
        <5>3. QED
          BY <3>1, <5>1, <5>2
      <4>3. QED
        BY <4>1, <4>2 DEF Taken
    <3>2. CASE ~S2CPop /\ ~S2CForward
      <4>1. s2c' = s2c
        BY <1>5, <3>2 DEF Looked, Next, C2S, S2C, vars, ClientSend, ClientReceive, C2SRead, C2SRewrite, C2SPushInjected,
           C2SSuppress, C2SQuery, C2SParse, C2SDescribe, C2SBind, C2SWrite, BufferFull, Toggle
      <4>2. QED
        BY <4>1 DEF Taken
    <3>3. QED
      BY <3>1, <3>2
  <2>3. QED
    BY <2>1, <2>2 DEF Coming
<1>6. QED
  BY <1>2, <1>3, <1>4, <1>5

\* A client that is owed nothing has been told everything.
LEMMA Quiet ==
  ASSUME Shape, UpInv, CountInv, LastInv, outstanding = 0
  PROVE  Up = <<>> /\ Coming = <<>>
<1>1. PICK up \in Seq(ToServer) : up = Up
  BY HeldType
<1>2. PICK dn \in Seq(FromServer) : dn = Down
  BY HeldType
<1>3. Count(up, asks) = 0 /\ Count(dn, ends) = 0
  <2>1. Count(up, asks) \in Nat /\ Count(dn, ends) \in Nat
    BY CountConcat
  <2>2. 0 = Count(up, asks) + Count(dn, ends)
    BY <1>1, <1>2 DEF CountInv
  <2>3. QED
    BY <2>1, <2>2
<1>4. up = <<>>
  <2> SUFFICES ASSUME up # <<>> PROVE FALSE
    OBVIOUS
  <2>1. Len(up) \in 1 .. Len(up) /\ up[Len(up)] \in ToServer
    BY <1>1
  <2>2. up[Len(up)] \in asks
    BY <1>1, <2>1 DEF UpInv, Runs, asks
  <2>3. QED
    BY <1>1, <1>3, <2>1, <2>2, CountSome
<1>5. Coming = <<>>
  <2> SUFFICES ASSUME Coming # <<>> PROVE FALSE
    OBVIOUS
  <2>1. Coming[Len(Coming)] \in ends
    BY <1>1, <1>4 DEF LastInv
  <2>2. from_server \in Seq(FromServer) /\ HeldS \in Seq(FromServer)
    BY HeldType DEF Shape, WiresShape
  <2>3. Count(from_server, ends) = 0 /\ Count(HeldS, ends) = 0
    BY <1>2, <1>3, DownParts
  <2>4. CASE from_server # <<>>
    <3>1. Coming[Len(Coming)] = from_server[Len(from_server)] /\ Len(from_server) \in 1 .. Len(from_server)
      BY <2>2, <2>4, ComingType DEF Coming
    <3>2. QED
      BY <2>1, <2>2, <2>3, <3>1, CountSome
  <2>5. CASE from_server = <<>>
    <3>1. Coming = Taken
      BY <2>5, ComingType, ConcatEmptySeq DEF Coming
    <3>2. Coming = <<s2c.msg>> /\ HeldS = <<s2c.msg>>
      BY <3>1 DEF Taken, HeldS
    <3>3. HeldS[1] \in ends /\ 1 \in 1 .. Len(HeldS)
      BY <2>1, <3>2
    <3>4. QED
      BY <2>2, <2>3, <3>3, CountSome
  <2>6. QED
    BY <2>4, <2>5
<1>6. QED
  BY <1>1, <1>4, <1>5

\* Every step keeps answers ended.
LEMMA LastStep ==
  ASSUME Shape, ScriptLeft, UpInv, LastInv, [Next]_vars
  PROVE  LastInv'
<1>1. Up \in Seq(ToServer) /\ Coming \in Seq(FromServer) /\ Up' \in Seq(ToServer) /\ Coming' \in Seq(FromServer)
  <2>1. Shape'
    BY ShapeStep
  <2>2. (Shape => Up \in Seq(ToServer) /\ Coming \in Seq(FromServer))'
    BY HeldType, ComingType, PTL
  <2>3. QED
    BY <2>1, <2>2, HeldType, ComingType
<1>2. PICK up \in Seq(ToServer), up2 \in Seq(ToServer) : up = Up /\ up2 = Up'
  BY <1>1
<1>3. PICK co \in Seq(FromServer), co2 \in Seq(FromServer) : co = Coming /\ co2 = Coming'
  BY <1>1
<1>4. up = <<>> /\ co # <<>> => co[Len(co)] \in ends
  BY <1>2, <1>3 DEF LastInv
<1>5. SUFFICES ASSUME up2 = <<>>, co2 # <<>> PROVE co2[Len(co2)] \in ends
  BY <1>2, <1>3 DEF LastInv
<1>6. CASE Server
  <2>1. up = <<Head(to_server)>> \o up2
    BY <1>2, <1>6, UpFlow, Apart
  <2>2. PICK m \in ToServer, types \in Seq(ServerTypes) :
           /\ m = Head(to_server) /\ Said(m, types) \in Seq(FromServer)
           /\ from_server' = from_server \o Said(m, types)
           /\ IF m.type \in Extended THEN NoneEnds(types) ELSE LastEnds(types)
    BY <1>2, <1>6, <2>1, ServerSays
  <2>3. up[1] = m /\ Len(up) = 1
    BY <1>5, <2>1, <2>2
  <2>4. m.type \notin Extended
    BY <1>2, <2>3 DEF UpInv, Runs
  <2>5. PICK r \in Seq(FromServer) : r = Said(m, types)
    BY <2>2
  <2>6. co2 = co \o r
    BY <1>3, <1>6, <2>2, <2>5, ComingFlow
  <2>7. LastEnds(types) /\ Len(r) = Len(types) /\ \A i \in 1 .. Len(types) : r[i].type = types[i]
    BY <2>2, <2>4, <2>5 DEF Said, Msg
  <2>8. r # <<>> /\ r[Len(r)] \in ends
    BY <2>7 DEF LastEnds, ends
  <2>9. QED
    BY <2>6, <2>8
<1>7. CASE ClientSend
  <2>1. up2 = up \o Head(script) /\ Head(script) \in Seq(ToServer) /\ Head(script) # <<>>
    BY <1>2, <1>7, UpFlow, Apart, SentStep DEF Request
  <2>2. PICK h \in Seq(ToServer) : up2 = up \o h /\ h # <<>>
    BY <2>1
  <2>3. Len(up2) = Len(up) + Len(h) /\ Len(h) # 0
    BY <2>2
  <2>4. QED
    BY <1>5, <2>3
<1>8. CASE ~Server /\ ~ClientSend
  <2>1. up = <<>>
    <3>1. Alike(up2, up)
      BY <1>2, <1>8, UpFlow
    <3>2. QED
      BY <1>5, <3>1 DEF Alike
  <2>2. co2 = co \/ \E x : co = <<x>> \o co2
    BY <1>3, <1>8, ComingFlow
  <2>3. co # <<>> /\ co[Len(co)] = co2[Len(co2)]
    <3>1. ASSUME NEW x, co = <<x>> \o co2 PROVE co # <<>> /\ co[Len(co)] = co2[Len(co2)]
      <4>1. Len(co) = Len(co2) + 1 /\ Len(co2) # 0 /\ co[Len(co2) + 1] = co2[Len(co2)]
        BY <1>5, <3>1
      <4>2. QED
        BY <4>1
    <3>2. QED
      BY <1>5, <2>2, <3>1
  <2>4. QED
    BY <1>4, <2>1, <2>3
<1>9. QED
  BY <1>6, <1>7, <1>8

\* The setup never changes.
LEMMA SetupKept ==
  ASSUME [Next]_vars
  PROVE  setup' = setup
BY DEF Next, vars, ClientSend, ClientReceive, Server, C2S, C2SRead, C2SRewrite, C2SPushInjected, C2SSuppress,
   C2SQuery, C2SParse, C2SDescribe, C2SBind, C2SWrite, S2C, S2CRead, S2CParameterDescription, S2CRowDescription,
   S2CDataRow, S2CComplete, S2CPop, S2CError, S2CForward, BufferFull, Toggle, toggleVars

\* Where one message at most describes, at most one counts.
LEMMA OneDescribes ==
  ASSUME NEW r \in Seq(ToServer), \A j, k \in DOMAIN r : r[j].type = "D" /\ r[k].type = "D" => j = k
  PROVE  Count(r, describes) <= 1
<1> DEFINE One(x) == (\A j, k \in 1 .. Len(x) : x[j].type = "D" /\ x[k].type = "D" => j = k)
                        => Count(x, describes) <= 1
           Bad == {k \in Nat : \E x \in Seq(ToServer) : Len(x) = k /\ ~One(x)}
<1>1. SUFFICES ASSUME Bad # {} PROVE FALSE
  <2>1. ASSUME Bad = {} PROVE One(r)
    <3>1. Len(r) \in Nat
      OBVIOUS
    <3>2. QED
      BY <2>1, <3>1
  <2>2. QED
    BY <2>1
<1>2. PICK k \in Bad : \A j \in Bad : k <= j
  <2>1. Bad \in SUBSET Nat
    OBVIOUS
  <2>2. QED
    BY <1>1, <2>1, LeastNumber
<1>3. PICK x \in Seq(ToServer) : Len(x) = k /\ ~One(x)
  OBVIOUS
<1>4. x # <<>>
  <2>1. Count(<<>>, describes) = 0
    BY CountEmpty
  <2>2. QED
    BY <1>3, <2>1
<1>5. PICK y \in Seq(ToServer), m \in ToServer : Len(y) = Len(x) - 1 /\ x = Append(y, m)
  BY <1>4, SplitLast
<1>6. x = y \o <<m>> /\ <<m>> \in Seq(ToServer) /\ x[Len(x)] = m /\ \A j \in 1 .. Len(y) : x[j] = y[j]
  <2>1. x = y \o <<m>> /\ <<m>> \in Seq(ToServer)
    BY <1>5
  <2>2. x[Len(x)] = m /\ \A j \in 1 .. Len(y) : x[j] = y[j]
    BY <1>5
  <2>3. QED
    BY <2>1, <2>2
<1>7. Count(x, describes) = Count(y, describes) + Count(<<m>>, describes) /\ Count(y, describes) \in Nat
  <2>1. Count(y \o <<m>>, describes) = Count(y, describes) + Count(<<m>>, describes) /\ Count(y, describes) \in Nat
    BY <1>6, CountConcat, ZenonT(60)
  <2>2. QED
    BY <1>6, <2>1
<1>8. One(y)
  <2>1. Len(y) \in Nat /\ ~(k <= Len(y))
    BY <1>3, <1>5
  <2>2. QED
    BY <1>2, <2>1
<1>9. \A i, j \in 1 .. Len(x) : x[i].type = "D" /\ x[j].type = "D" => i = j
  BY <1>3
<1>10. Count(y, describes) <= 1
  BY <1>5, <1>6, <1>8, <1>9
<1>11. CASE m.type = "D"
  <2>1. \A i \in 1 .. Len(y) : y[i] \notin describes
    <3> SUFFICES ASSUME NEW i \in 1 .. Len(y), y[i] \in describes PROVE FALSE
      OBVIOUS
    <3>1. x[i].type = "D" /\ i \in 1 .. Len(x) /\ Len(x) \in 1 .. Len(x) /\ i # Len(x)
      BY <1>5, <1>6 DEF describes
    <3>2. QED
      BY <1>6, <1>9, <1>11, <3>1
  <2>2. Count(y, describes) = 0 /\ Count(<<m>>, describes) = 1
    BY <1>11, <2>1, CountNone, CountOne, SMTT(30) DEF describes
  <2>3. QED
    BY <1>3, <1>7, <2>2
<1>12. CASE m.type # "D"
  <2>1. Count(<<m>>, describes) = 0
    BY <1>12, CountOne DEF describes
  <2>2. QED
    BY <1>3, <1>7, <1>10, <2>1
<1>13. QED
  BY <1>11, <1>12

\* A Describe is answered by at most one ParameterDescription, and nothing else
\* is; the answer is about the statement of the message.
LEMMA SaidDescribes ==
  ASSUME NEW m \in ToServer, NEW types \in Seq(ServerTypes), types \in {<<>>, Success(m)} \cup Failures(m)
  PROVE  /\ \A i \in 1 .. Len(Said(m, types)) :
              Said(m, types)[i].stmt = m.stmt /\ (Said(m, types)[i].type = "t" => m.type = "D")
         /\ Count(Said(m, types), descriptions) <= Count(<<m>>, describes)
<1>1. Said(m, types) \in Seq(FromServer) /\ Len(Said(m, types)) = Len(types)
  BY AnswerShape DEF Said
<1>2. \A i \in 1 .. Len(types) : Said(m, types)[i].type = types[i] /\ Said(m, types)[i].stmt = m.stmt
  BY DEF Said, Msg
<1>3. PICK r \in Seq(FromServer) : r = Said(m, types)
  BY <1>1
<1>4. m.type \in {"Q", "c", "P", "B", "D", "Ex", "S"}
  BY DEF ToServer, ClientTypes
<1>5. CASE \A i \in 1 .. Len(types) : types[i] # "t"
  <2>1. Count(r, descriptions) = 0
    <3>1. \A i \in 1 .. Len(r) : r[i] \notin descriptions
      BY <1>1, <1>2, <1>3, <1>5 DEF descriptions
    <3>2. QED
      BY <3>1, CountNone
  <2>2. Count(<<m>>, describes) >= 0
    BY CountOne
  <2>3. QED
    BY <1>1, <1>2, <1>3, <1>5, <2>1, <2>2
<1>6. CASE m.type = "D" /\ types \in {<<"t", "T">>, <<"t", "n">>}
  <2>1. Count(<<m>>, describes) = 1
    BY <1>6, CountOne DEF describes
  <2>2. Len(r) = 2 /\ r[1] \in FromServer /\ r[2] \in FromServer /\ r[2].type # "t"
    <3>1. Len(types) = 2 /\ types[2] \in {"T", "n"}
      BY <1>6
    <3>2. Len(r) = 2 /\ r[2].type = types[2]
      BY <1>1, <1>2, <1>3, <3>1
    <3>3. r[2].type # "t"
      BY <3>1, <3>2
    <3>4. r[1] \in FromServer /\ r[2] \in FromServer
      <4>1. r \in Seq(FromServer) /\ 1 \in 1 .. Len(r) /\ 2 \in 1 .. Len(r)
        BY <3>2
      <4>2. QED
        BY ONLY <4>1
    <3>5. QED
      BY <3>2, <3>3, <3>4
  <2>3. r = <<r[1]>> \o <<r[2]>> /\ <<r[1]>> \in Seq(FromServer) /\ <<r[2]>> \in Seq(FromServer)
    BY <2>2
  <2>4. PICK p \in Seq(FromServer), q \in Seq(FromServer) : p = <<r[1]>> /\ q = <<r[2]>> /\ r = p \o q
    BY <2>3
  <2>5. Count(p, descriptions) \in {0, 1} /\ Count(q, descriptions) = 0
    BY <2>2, <2>4, CountOne DEF descriptions
  <2>6. Count(r, descriptions) <= 1
    <3>1. Count(p \o q, descriptions) = Count(p, descriptions) + Count(q, descriptions)
      BY CountConcat
    <3>2. Count(r, descriptions) = Count(p, descriptions) + Count(q, descriptions)
      BY <2>4, <3>1
    <3>3. QED
      BY <2>5, <3>2
  <2>7. QED
    BY <1>1, <1>2, <1>3, <1>6, <2>1, <2>6
<1>7. (\A i \in 1 .. Len(types) : types[i] # "t") \/ (m.type = "D" /\ types \in {<<"t", "T">>, <<"t", "n">>})
  <2>1. \A t \in {<<>>, <<"G">>, <<"T", "D", "D", "C", "Z">>, <<"C", "Z">>, <<"1">>, <<"2">>, <<"D", "D", "C">>,
                  <<"C">>, <<"Z">>, <<"E", "Z">>, <<"E">>, <<"I">>, <<"I", "Z">>,
                  <<"T", "D", "C", "C", "Z">>, <<"T", "D", "C", "E", "Z">>} : \A i \in 1 .. Len(t) : t[i] # "t"
    <3>1. \A i \in 1 .. Len(<<"T", "D", "D", "C", "Z">>) : <<"T", "D", "D", "C", "Z">>[i] # "t"
      OBVIOUS
    <3>2. \A i \in 1 .. Len(<<"D", "D", "C">>) : <<"D", "D", "C">>[i] # "t"
      OBVIOUS
    <3>3. \A t \in {<<"C", "Z">>, <<"E", "Z">>, <<"I", "Z">>} : \A i \in 1 .. Len(t) : t[i] # "t"
      OBVIOUS
    <3>4. \A t \in {<<>>, <<"G">>, <<"1">>, <<"2">>, <<"C">>, <<"Z">>, <<"E">>, <<"I">>} : \A i \in 1 .. Len(t) : t[i] # "t"
      OBVIOUS
    <3>5. \A i \in 1 .. Len(<<"T", "D", "C", "C", "Z">>) : <<"T", "D", "C", "C", "Z">>[i] # "t"
      OBVIOUS
    <3>6. \A i \in 1 .. Len(<<"T", "D", "C", "E", "Z">>) : <<"T", "D", "C", "E", "Z">>[i] # "t"
      OBVIOUS
    <3>7. QED
      BY <3>1, <3>2, <3>3, <3>4, <3>5, <3>6
  <2>2. Failures(m) \subseteq {<<"E">>, <<"E", "Z">>, <<"T", "D", "C", "E", "Z">>}
    BY DEF Failures
  <2>3. m.type # "D" => Success(m) \in {<<"G">>, <<"T", "D", "D", "C", "Z">>, <<"C", "Z">>, <<"1">>, <<"2">>,
                                       <<"D", "D", "C">>, <<"C">>, <<"Z">>, <<"I">>, <<"I", "Z">>,
                                       <<"T", "D", "C", "C", "Z">>}
    BY <1>4 DEF Success
  <2>4. m.type = "D" => Success(m) \in {<<"t", "T">>, <<"t", "n">>}
    BY DEF Success
  <2>5. QED
    BY <2>1, <2>2, <2>3, <2>4
<1>8. QED
  BY <1>5, <1>6, <1>7

\* Types are filed under the name of the text they belong to.
Filed == \A n \in Names : stmt_oids[n] \in {None} \cup {s \in Stmts : name[s] = n}

\* A client that waits describes one statement at a time, and the name in
\* pending_describe is the one on its way.
DescribeInv ==
  Waits =>
    /\ Count(Up, describes) + Count(Coming, descriptions) <= 1
    /\ \A i \in 1 .. Len(to_server) : to_server[i].type = "D" => name[to_server[i].stmt] = pending_describe
    /\ c2s.pc = "write" /\ c2s.msg.type = "D" => name[c2s.msg.stmt] = pending_describe
    /\ \A i \in 1 .. Len(Coming) : Coming[i].type = "t" => name[Coming[i].stmt] = pending_describe
    /\ Filed

\* The sequences of a state and the next are sequences of messages.
LEMMA FlowTypes ==
  ASSUME Shape, [Next]_vars
  PROVE  /\ Up \in Seq(ToServer) /\ Coming \in Seq(FromServer)
         /\ Up' \in Seq(ToServer) /\ Coming' \in Seq(FromServer)
<1>1. Shape'
  BY ShapeStep
<1>2. (Shape => Up \in Seq(ToServer) /\ Coming \in Seq(FromServer))'
  BY HeldType, ComingType, PTL
<1>3. QED
  BY <1>1, <1>2, HeldType, ComingType

\* A client that waits sends when it has been told everything.
LEMMA SendsAlone ==
  ASSUME Shape, UpInv, CountInv, LastInv, OutstandingInv, Waits, ClientSend
  PROVE  Up = <<>> /\ Coming = <<>>
<1>1. outstanding < 1 /\ outstanding \in Nat
  BY DEF ClientSend, Waits, OutstandingInv
<1>2. QED
  BY <1>1, Quiet

\* One Describe on its way, or its answer, and no more.
LEMMA DescribeCount ==
  ASSUME Shape, ScriptLeft, UpInv, CountInv, LastInv, OutstandingInv, Waits, [Next]_vars,
         Count(Up, describes) + Count(Coming, descriptions) <= 1
  PROVE  Count(Up', describes) + Count(Coming', descriptions) <= 1
<1>1. PICK up \in Seq(ToServer), up2 \in Seq(ToServer) : up = Up /\ up2 = Up'
  BY FlowTypes
<1>2. PICK co \in Seq(FromServer), co2 \in Seq(FromServer) : co = Coming /\ co2 = Coming'
  BY FlowTypes
<1>3. /\ Count(up, describes) \in Nat /\ Count(up2, describes) \in Nat
      /\ Count(co, descriptions) \in Nat /\ Count(co2, descriptions) \in Nat
  BY CountConcat
<1>4. Count(up, describes) + Count(co, descriptions) <= 1
  BY <1>1, <1>2
<1>5. SUFFICES Count(up2, describes) + Count(co2, descriptions) <= 1
  BY <1>1, <1>2
<1>6. CASE ClientSend
  <2>1. up = <<>> /\ co = <<>>
    BY <1>1, <1>2, <1>6, SendsAlone
  <2>2. PICK r \in Seq(ToServer) : r = Head(script) /\ r = setup.script[Len(setup.script) - Len(script) + 1]
    BY <1>6, SentStep
  <2>3. Count(r, describes) <= 1
    <3>1. Len(setup.script) - Len(script) + 1 \in DOMAIN setup.script
      BY <1>6, SentStep
    <3>2. \A j, k \in DOMAIN r : r[j].type = "D" /\ r[k].type = "D" => j = k
      BY <2>2, <3>1 DEF Waits
    <3>3. QED
      BY <3>2, OneDescribes
  <2>4. up2 = up \o r
    BY <1>1, <1>6, <2>2, UpFlow, Apart
  <2>5. up2 = r
    BY <2>1, <2>4, ConcatEmptySeq
  <2>6. co2 = co
    <3>1. ~Server /\ ~S2CRead /\ ~Looked
      <4>1. script' # script
        BY <1>6 DEF ClientSend, Shape, SetupShape
      <4>2. QED
        BY <4>1 DEF Server, S2CRead, Looked, S2CParameterDescription, S2CRowDescription, S2CDataRow,
           S2CComplete, S2CError, clientVars
    <3>2. QED
      BY <1>2, <3>1, ComingFlow
  <2>7. Count(co2, descriptions) = 0
    BY <2>1, <2>6, CountEmpty
  <2>8. QED
    BY <1>3, <2>3, <2>5, <2>7
<1>7. CASE Server
  <2>1. up = <<Head(to_server)>> \o up2
    BY <1>1, <1>7, UpFlow, Apart
  <2>2. PICK m \in ToServer, types \in Seq(ServerTypes), ok \in BOOLEAN, rows \in BOOLEAN :
           /\ m = Head(to_server) /\ Said(m, types) \in Seq(FromServer)
           /\ from_server' = from_server \o Said(m, types)
           /\ Skipped(m, types) \/ Succeeded(m, types, ok, rows) \/ Failed(m, types, ok, rows)
    BY <1>7, ServerStep, ZenonT(60)
  <2>3. types \in {<<>>, Success(m)} \cup Failures(m)
    BY <2>2 DEF Skipped, Succeeded, Failed
  <2>4. PICK r \in Seq(FromServer), q \in Seq(ToServer) : r = Said(m, types) /\ q = <<m>>
    <3>1. <<m>> \in Seq(ToServer)
      OBVIOUS
    <3>2. QED
      BY <2>2, <3>1, Zenon
  <2>5. Count(r, descriptions) <= Count(q, describes) /\ Count(r, descriptions) \in Nat /\ Count(q, describes) \in Nat
    BY <2>3, <2>4, SaidDescribes, CountConcat
  <2>6. Count(up, describes) = Count(q, describes) + Count(up2, describes)
    <3>1. Count(q \o up2, describes) = Count(q, describes) + Count(up2, describes)
      BY CountConcat
    <3>2. QED
      BY <2>1, <2>2, <2>4, <3>1
  <2>7. Count(co2, descriptions) = Count(co, descriptions) + Count(r, descriptions)
    <3>1. Count(co \o r, descriptions) = Count(co, descriptions) + Count(r, descriptions)
      BY CountConcat
    <3>2. co2 = co \o r
      BY <1>2, <1>7, <2>2, <2>4, ComingFlow
    <3>3. QED
      BY <3>1, <3>2
  <2>8. QED
    BY <1>3, <1>4, <2>5, <2>6, <2>7, SMTT(30)
<1>8. CASE ~ClientSend /\ ~Server
  <2>1. Count(up2, describes) = Count(up, describes)
    <3>1. Alike(up2, up)
      BY <1>1, <1>8, UpFlow
    <3>2. QED
      BY <3>1, CountAlike
  <2>2. Count(co2, descriptions) <= Count(co, descriptions)
    <3>1. CASE co2 = co
      BY <1>3, <3>1
    <3>2. ASSUME NEW x \in FromServer, co = <<x>> \o co2 PROVE Count(co2, descriptions) <= Count(co, descriptions)
      <4>1. PICK q \in Seq(FromServer) : q = <<x>>
        <5>1. <<x>> \in Seq(FromServer)
          OBVIOUS
        <5>2. QED
          BY <5>1, Zenon
      <4>2. Count(q \o co2, descriptions) = Count(q, descriptions) + Count(co2, descriptions) /\ Count(q, descriptions) \in Nat
        BY CountConcat
      <4>3. Count(co, descriptions) = Count(q, descriptions) + Count(co2, descriptions)
        BY <3>2, <4>1, <4>2
      <4>4. QED
        BY <1>3, <4>2, <4>3
    <3>3. co2 = co \/ \E x : co = <<x>> \o co2
      BY <1>2, <1>8, ComingFlow
    <3>4. ASSUME NEW x, co = <<x>> \o co2 PROVE x \in FromServer
      <4>1. co[1] = x /\ 1 \in 1 .. Len(co)
        BY <3>4
      <4>2. QED
        BY <4>1
    <3>5. QED
      BY <3>1, <3>2, <3>3, <3>4
  <2>3. QED
    BY <1>3, <1>4, <2>1, <2>2
<1>9. QED
  BY <1>6, <1>7, <1>8

\* The Describes on their way, part by part.
LEMMA DescribeParts ==
  ASSUME Shape
  PROVE  /\ Count(Up, describes) = Count(to_server, describes) + Count(HeldC, describes) + Count(to_proxy, describes)
         /\ Count(to_server, describes) \in Nat /\ Count(HeldC, describes) \in Nat /\ Count(to_proxy, describes) \in Nat
         /\ Count(Coming, descriptions) \in Nat
         /\ Count(to_server, describes) = 0 => \A i \in 1 .. Len(to_server) : to_server[i].type # "D"
         /\ Count(Coming, descriptions) = 0 => \A i \in 1 .. Len(Coming) : Coming[i].type # "t"
         /\ c2s.pc \in {"D", "write"} /\ c2s.msg.type = "D" => Count(HeldC, describes) = 1
<1>1. PICK a \in Seq(ToServer) : a = to_server
  BY DEF Shape, WiresShape
<1>2. PICK b \in Seq(ToServer) : b = HeldC
  BY HeldType
<1>3. PICK c \in Seq(ToServer) : c = to_proxy
  BY DEF Shape, WiresShape
<1>4. PICK d \in Seq(FromServer) : d = Coming
  BY ComingType
<1>5. b \o c \in Seq(ToServer) /\ Up = a \o (b \o c)
  BY <1>1, <1>2, <1>3 DEF Up
<1>6. /\ Count(a \o (b \o c), describes) = Count(a, describes) + Count(b \o c, describes)
      /\ Count(b \o c, describes) = Count(b, describes) + Count(c, describes)
      /\ Count(a, describes) \in Nat /\ Count(b, describes) \in Nat /\ Count(c, describes) \in Nat
      /\ Count(d, descriptions) \in Nat
  BY <1>5, CountConcat
<1>7. Count(Up, describes) = Count(a, describes) + Count(b, describes) + Count(c, describes)
  BY <1>5, <1>6
<1>8. ASSUME Count(a, describes) = 0, NEW i \in 1 .. Len(a) PROVE a[i].type # "D"
  <2>1. a[i] \notin describes
    BY <1>8, CountSome
  <2>2. QED
    BY <2>1 DEF describes
<1>9. ASSUME Count(d, descriptions) = 0, NEW i \in 1 .. Len(d) PROVE d[i].type # "t"
  <2>1. d[i] \notin descriptions
    BY <1>9, CountSome
  <2>2. QED
    BY <2>1 DEF descriptions
<1>10. ASSUME c2s.pc \in {"D", "write"}, c2s.msg.type = "D" PROVE Count(b, describes) = 1
  <2>1. c2s.msg \in ToServer /\ b = <<c2s.msg>>
    BY <1>2, <1>10 DEF Shape, TasksShape, HeldC
  <2>2. Count(<<c2s.msg>>, describes) = 1
    BY <1>10, <2>1, CountOne DEF describes
  <2>3. QED
    BY <2>1, <2>2
<1>11. QED
  BY <1>1, <1>2, <1>3, <1>4, <1>6, <1>7, <1>8, <1>9, <1>10

\* The ways in which c2s can come to write a Describe: having looked at it.
LEMMA WritesDescribe ==
  ASSUME Shape, LookInv, setup.toggles = 0, C2S, c2s'.pc = "write", c2s'.msg.type = "D"
  PROVE  C2SDescribe
<1>1. ~C2SRead
  BY DEF C2SRead, LookInv
<1>2. ~C2SRewrite
  BY DEF C2SRewrite, Shape, TasksShape
<1>3. ~C2SPushInjected
  BY DEF C2SPushInjected, Shape, TasksShape
<1>4. ~C2SSuppress
  BY DEF C2SSuppress, after_injection, Shape, TasksShape
<1>5. ~C2SWrite
  BY DEF C2SWrite, Idle
<1>6. ~C2SQuery /\ ~C2SParse /\ ~C2SBind
  <2>1. c2s \in [pc : CPcs, msg : ToServer \cup {None}]
    BY DEF Shape, TasksShape
  <2>2. ASSUME c2s' = [c2s EXCEPT !.pc = "write"], c2s.pc \in {"Q", "P", "B"} PROVE FALSE
    BY <2>1, <2>2 DEF LookInv
  <2>3. QED
    BY <2>2 DEF C2SQuery, C2SParse, C2SBind
<1>7. QED
  BY <1>1, <1>2, <1>3, <1>4, <1>5, <1>6 DEF C2S

\* Every step keeps the names right.
LEMMA DescribeStep ==
  ASSUME Shape, ScriptLeft, UpInv, CountInv, LastInv, OutstandingInv, LookInv, DescribeInv, [Next]_vars
  PROVE  DescribeInv'
<1>1. setup' = setup
  BY SetupKept
<1>2. SUFFICES ASSUME Waits
               PROVE  /\ Count(Up', describes) + Count(Coming', descriptions) <= 1
                      /\ \A i \in 1 .. Len(to_server') : to_server'[i].type = "D" => name[to_server'[i].stmt] = pending_describe'
                      /\ c2s'.pc = "write" /\ c2s'.msg.type = "D" => name[c2s'.msg.stmt] = pending_describe'
                      /\ \A i \in 1 .. Len(Coming') : Coming'[i].type = "t" => name[Coming'[i].stmt] = pending_describe'
                      /\ Filed'
  BY <1>1 DEF DescribeInv, Waits
<1>3. /\ Count(Up, describes) + Count(Coming, descriptions) <= 1
      /\ \A i \in 1 .. Len(to_server) : to_server[i].type = "D" => name[to_server[i].stmt] = pending_describe
      /\ c2s.pc = "write" /\ c2s.msg.type = "D" => name[c2s.msg.stmt] = pending_describe
      /\ \A i \in 1 .. Len(Coming) : Coming[i].type = "t" => name[Coming[i].stmt] = pending_describe
      /\ Filed
  BY <1>2 DEF DescribeInv
<1>4. Count(Up', describes) + Count(Coming', descriptions) <= 1
  BY <1>2, <1>3, DescribeCount
<1>5. PICK co \in Seq(FromServer), co2 \in Seq(FromServer) : co = Coming /\ co2 = Coming'
  BY FlowTypes
<1>6. to_server \in Seq(ToServer) /\ stmt_oids \in [Names -> Stmts \cup {None}]
  BY DEF Shape, WiresShape, SharedShape
<1>7. setup.toggles = 0
  BY <1>2 DEF Waits
<1>8. ASSUME NEW x, co = <<x>> \o co2 PROVE \A i \in 1 .. Len(co2) : i + 1 \in 1 .. Len(co) /\ co2[i] = co[i + 1]
  BY <1>8
<1>9. CASE C2SDescribe
  <2>1. c2s.pc = "D" /\ c2s.msg.type = "D"
    BY <1>9 DEF C2SDescribe, LookInv
  <2>2. Count(HeldC, describes) = 1
    BY <2>1, DescribeParts
  <2>3. Count(to_server, describes) = 0 /\ Count(Coming, descriptions) = 0
    BY <1>3, <2>2, DescribeParts
  <2>4. /\ \A i \in 1 .. Len(to_server) : to_server[i].type # "D"
        /\ \A i \in 1 .. Len(co) : co[i].type # "t"
    BY <1>5, <2>3, DescribeParts
  <2>5. /\ pending_describe' = name[c2s.msg.stmt] /\ to_server' = to_server /\ stmt_oids' = stmt_oids /\ c2s'.msg = c2s.msg
    BY <1>9 DEF C2SDescribe, described, wires, Shape, TasksShape
  <2>6. co2 = co
    <3>1. from_server' = from_server /\ Taken' = Taken
      BY <1>9 DEF C2SDescribe, wires, Taken
    <3>2. QED
      BY <1>5, <3>1 DEF Coming
  <2>7. QED
    BY <1>3, <1>4, <1>5, <2>4, <2>5, <2>6 DEF Filed
<1>10. CASE S2CParameterDescription
  <2>1. s2c.msg.type = "t" /\ co = <<s2c.msg>> \o co2 /\ s2c.msg \in FromServer
    <3>1. Looked
      BY <1>10 DEF Looked
    <3>2. QED
      BY <1>5, <1>10, <3>1, ComingFlow DEF S2CParameterDescription, LookInv, Shape, TasksShape
  <2>2. co[1] = s2c.msg /\ 1 \in 1 .. Len(co)
    BY <2>1
  <2>3. name[s2c.msg.stmt] = pending_describe /\ s2c.msg.stmt \in Stmts
    <3>1. s2c.msg.stmt \in Stmts
      BY <2>1 DEF FromServer
    <3>2. \A i \in 1 .. Len(co) : co[i].type = "t" => name[co[i].stmt] = pending_describe
      BY <1>3, <1>5
    <3>3. QED
      BY <2>1, <2>2, <3>1, <3>2, Zenon
  <2>4. Count(co2, descriptions) = 0 /\ Count(Up, describes) = 0
    <3>1. PICK q \in Seq(FromServer) : q = <<s2c.msg>>
      <4>1. <<s2c.msg>> \in Seq(FromServer)
        BY <2>1
      <4>2. QED
        BY <4>1, Zenon
    <3>2. Count(q, descriptions) = 1
      BY <2>1, <3>1, CountOne DEF descriptions
    <3>3. Count(q \o co2, descriptions) = Count(q, descriptions) + Count(co2, descriptions) /\ Count(co2, descriptions) \in Nat
      BY CountConcat
    <3>4. Count(co, descriptions) = 1 + Count(co2, descriptions)
      BY <2>1, <3>1, <3>2, <3>3
    <3>5. Count(Up, describes) \in Nat
      BY HeldType, CountConcat
    <3>6. QED
      BY <1>3, <1>5, <3>3, <3>4, <3>5
  <2>5. Count(to_server, describes) = 0 /\ Count(HeldC, describes) = 0
    BY <2>4, DescribeParts
  <2>6. /\ \A i \in 1 .. Len(to_server) : to_server[i].type # "D"
        /\ ~(c2s.pc = "write" /\ c2s.msg.type = "D")
    BY <2>5, DescribeParts
  <2>7. \A i \in 1 .. Len(co2) : co2[i].type # "t"
    <3> TAKE i \in 1 .. Len(co2)
    <3>1. co2[i] \notin descriptions /\ co2[i] \in FromServer
      BY <2>4, CountSome
    <3>2. QED
      BY <3>1 DEF descriptions
  <2>8. to_server' = to_server /\ c2s' = c2s
    BY <1>10 DEF S2CParameterDescription, wires
  <2>9. stmt_oids' = [stmt_oids EXCEPT ![name[s2c.msg.stmt]] = s2c.msg.stmt]
    <3>1. pending_describe # None
      BY <2>3, RelayAssumption, NameAssumption
    <3>2. QED
      BY <1>10, <2>3, <3>1 DEF S2CParameterDescription
  <2>10. Filed'
    BY <1>3, <1>6, <2>3, <2>9, NameAssumption DEF Filed
  <2>11. QED
    BY <1>4, <1>5, <2>6, <2>7, <2>8, <2>10
<1>11. CASE ~C2SDescribe /\ ~S2CParameterDescription
  <2>0. pending_describe' = pending_describe
    BY <1>11 DEF Next, C2S, S2C, vars, stmtVars, ClientSend, ClientReceive, Server, C2SRead, C2SRewrite, C2SPushInjected,
       C2SSuppress, C2SQuery, C2SParse, C2SBind, C2SWrite, S2CRead, S2CRowDescription, S2CDataRow, S2CComplete,
       S2CPop, S2CError, S2CForward, BufferFull, Toggle
  <2>1. pending_describe' = pending_describe /\ Filed'
    <3>1. CASE C2SParse
      <4>1. PICK x \in Stmts : x = c2s.msg.stmt
        BY <3>1 DEF C2SParse, Shape, TasksShape, ToServer
      <4>2. stmt_oids' \in {stmt_oids, [stmt_oids EXCEPT ![name[x]] = x]} /\ name[x] \in Names
        BY <3>1, <4>1, NameAssumption DEF C2SParse
      <4>3. QED
        BY <1>3, <1>6, <2>0, <4>2 DEF Filed
    <3>2. CASE ~C2SParse
      <4>1. stmt_oids' = stmt_oids
        BY <1>11, <3>2 DEF Next, C2S, S2C, vars, stmtVars, ClientSend, ClientReceive, Server, C2SRead, C2SRewrite,
           C2SPushInjected, C2SSuppress, C2SQuery, C2SBind, C2SWrite, S2CRead, S2CRowDescription, S2CDataRow,
           S2CComplete, S2CPop, S2CError, S2CForward, BufferFull, Toggle
      <4>2. QED
        BY <1>3, <2>0, <4>1 DEF Filed
    <3>3. QED
      BY <3>1, <3>2
  <2>2. c2s'.pc = "write" /\ c2s'.msg.type = "D" => c2s' = c2s
    <3>1. CASE C2S
      BY <1>7, <1>11, <3>1, WritesDescribe
    <3>2. CASE ~C2S
      BY <3>2 DEF Next, S2C, vars, ClientSend, ClientReceive, Server, S2CRead, S2CParameterDescription, S2CRowDescription,
         S2CDataRow, S2CComplete, S2CPop, S2CError, S2CForward, BufferFull, Toggle
    <3>3. QED
      BY <3>1, <3>2
  <2>3. \A i \in 1 .. Len(to_server') : to_server'[i].type = "D" => name[to_server'[i].stmt] = pending_describe
    <3>1. CASE Server
      <4>1. to_server # <<>> /\ to_server' = Tail(to_server)
        BY <3>1 DEF Server
      <4>2. \A i \in 1 .. Len(to_server') : i + 1 \in 1 .. Len(to_server) /\ to_server'[i] = to_server[i + 1]
        BY <1>6, <4>1
      <4>3. QED
        BY <1>3, <4>2
    <3>2. CASE C2SRewrite
      <4>1. c2s.msg.type = "Q" /\ c2s.msg \in ToServer
        BY <3>2 DEF C2SRewrite, LookInv, Shape, TasksShape
      <4>2. to_server' = Append(to_server, [c2s.msg EXCEPT !.injected = TRUE])
        BY <3>2 DEF C2SRewrite
      <4>3. PICK e \in ToServer : e = [c2s.msg EXCEPT !.injected = TRUE] /\ e.type = "Q"
        <5>1. [c2s.msg EXCEPT !.injected = TRUE] \in ToServer /\ [c2s.msg EXCEPT !.injected = TRUE].type = "Q"
          BY <4>1 DEF ToServer
        <5>2. QED
          BY <5>1, Zenon
      <4>4. QED
        BY <1>3, <1>6, <4>2, <4>3
    <3>3. CASE C2SWrite
      <4>1. c2s.pc = "write" /\ to_server' = Append(to_server, c2s.msg) /\ c2s.msg \in ToServer
        BY <3>3 DEF C2SWrite, Shape, TasksShape
      <4>2. QED
        BY <1>3, <1>6, <4>1
    <3>4. CASE ~Server /\ ~C2SRewrite /\ ~C2SWrite
      <4>1. to_server' = to_server
        BY <1>11, <3>4 DEF Next, C2S, S2C, vars, wires, ClientSend, ClientReceive, C2SRead, C2SPushInjected,
           C2SSuppress, C2SQuery, C2SParse, C2SBind, S2CRead, S2CRowDescription, S2CDataRow, S2CComplete,
           S2CPop, S2CError, S2CForward, BufferFull, Toggle
      <4>2. QED
        BY <1>3, <4>1
    <3>5. QED
      BY <3>1, <3>2, <3>3, <3>4
  <2>4. \A i \in 1 .. Len(co2) : co2[i].type = "t" => name[co2[i].stmt] = pending_describe
    <3>1. CASE Server
      <4>1. PICK m \in ToServer, types \in Seq(ServerTypes), ok \in BOOLEAN, rows \in BOOLEAN :
               /\ m = Head(to_server) /\ Said(m, types) \in Seq(FromServer)
               /\ from_server' = from_server \o Said(m, types)
               /\ Skipped(m, types) \/ Succeeded(m, types, ok, rows) \/ Failed(m, types, ok, rows)
        BY <3>1, ServerStep, ZenonT(60)
      <4>2. types \in {<<>>, Success(m)} \cup Failures(m)
        BY <4>1 DEF Skipped, Succeeded, Failed
      <4>3. PICK r \in Seq(FromServer) : r = Said(m, types)
        BY <4>1
      <4>4. \A i \in 1 .. Len(r) : r[i].type = "t" => m.type = "D" /\ r[i].stmt = m.stmt
        BY <4>2, <4>3, SaidDescribes
      <4>5. m.type = "D" => name[m.stmt] = pending_describe
        <5>1. to_server # <<>> /\ m = to_server[1] /\ 1 \in 1 .. Len(to_server)
          BY <1>6, <3>1, <4>1 DEF Server
        <5>2. QED
          BY <1>3, <5>1
      <4>6. co2 = co \o r
        BY <1>5, <3>1, <4>1, <4>3, ComingFlow
      <4>7. QED
        <5> SUFFICES ASSUME NEW i \in 1 .. Len(co2), co2[i].type = "t" PROVE name[co2[i].stmt] = pending_describe
          OBVIOUS
        <5>1. CASE i <= Len(co)
          <6>1. co2[i] = co[i] /\ i \in 1 .. Len(co)
            BY <4>6, <5>1
          <6>2. QED
            BY <1>3, <1>5, <6>1
        <5>2. CASE ~(i <= Len(co))
          <6>1. co2[i] = r[i - Len(co)] /\ i - Len(co) \in 1 .. Len(r)
            BY <4>6, <5>2
          <6>2. QED
            BY <4>4, <4>5, <6>1
        <5>3. QED
          BY <5>1, <5>2
    <3>2. CASE ~Server
      <4>1. co2 = co \/ \E x : co = <<x>> \o co2
        BY <1>5, <3>2, ComingFlow
      <4>2. CASE co2 = co
        BY <1>3, <1>5, <4>2
      <4>3. ASSUME NEW x, co = <<x>> \o co2
            PROVE  \A i \in 1 .. Len(co2) : co2[i].type = "t" => name[co2[i].stmt] = pending_describe
        BY <1>3, <1>5, <1>8, <4>3
      <4>4. QED
        BY <4>1, <4>2, <4>3
    <3>3. QED
      BY <3>1, <3>2
  <2>5. QED
    BY <1>3, <1>4, <1>5, <2>1, <2>2, <2>3, <2>4
<1>12. QED
  BY <1>9, <1>10, <1>11

(***************************************************************************)
(* The collector.                                                          *)
(***************************************************************************)

Entries == [sql : Stmts, is_error : BOOLEAN, response_values : Seq(Stmts)]
Entry(x, failed, rows) == [sql |-> x, is_error |-> failed, response_values |-> rows]

captured == capture.queries

CaptureShape == capture \in [queries : Seq(Entries), pending_sql : Stmts \cup {None}]

\* QueryStart replaces the statement that is pending.
LEMMA Started ==
  ASSUME CaptureShape, NEW s \in Stmts, Emit(C!QueryStart(s))
  PROVE  captured' = captured /\ capture'.pending_sql = s /\ CaptureShape'
<1>1. C!Collect(capture, C!QueryStart(s)) = [capture EXCEPT !.pending_sql = s]
  BY DEF C!Collect, C!QueryStart
<1>2. capture' = [capture EXCEPT !.pending_sql = s]
  BY <1>1 DEF Emit
<1>3. QED
  BY <1>2 DEF CaptureShape, captured

\* QueryComplete and QueryError record the statement that is pending, if any.
LEMMA Finished ==
  ASSUME CaptureShape, NEW failed \in BOOLEAN, Emit(IF failed THEN C!QueryError ELSE C!QueryComplete)
  PROVE  /\ CaptureShape'
         /\ capture.pending_sql = None => capture' = capture
         /\ capture.pending_sql # None =>
               /\ captured' = Append(captured, Entry(capture.pending_sql, failed, <<>>))
               /\ capture'.pending_sql = None
<1>1. capture' = C!Finish(capture, failed)
  <2>1. CASE failed
    <3>1. C!Collect(capture, C!QueryError) = C!Finish(capture, TRUE)
      BY DEF C!Collect, C!QueryError
    <3>2. QED
      BY <2>1, <3>1 DEF Emit
  <2>2. CASE ~failed
    <3>1. C!Collect(capture, C!QueryComplete) = C!Finish(capture, FALSE)
      BY DEF C!Collect, C!QueryComplete
    <3>2. QED
      BY <2>2, <3>1 DEF Emit
  <2>3. QED
    BY <2>1, <2>2
<1>2. CASE capture.pending_sql = None
  <2>1. capture' = capture
    BY <1>1, <1>2 DEF C!Finish
  <2>2. QED
    BY <1>2, <2>1 DEF CaptureShape
<1>3. CASE capture.pending_sql # None
  <2>1. capture' = [queries |-> Append(captured, Entry(capture.pending_sql, failed, <<>>)), pending_sql |-> None]
    BY <1>1, <1>3 DEF C!Finish, captured, Entry
  <2>2. captured \in Seq(Entries) /\ capture.pending_sql \in Stmts
    BY <1>3 DEF CaptureShape, captured
  <2>3. Entry(capture.pending_sql, failed, <<>>) \in Entries
    <3>1. <<>> \in Seq(Stmts)
      BY Concat
    <3>2. QED
      BY <2>2, <3>1 DEF Entry, Entries
  <2>4. Append(captured, Entry(capture.pending_sql, failed, <<>>)) \in Seq(Entries)
    BY <2>2, <2>3
  <2>5. captured' = Append(captured, Entry(capture.pending_sql, failed, <<>>)) /\ capture'.pending_sql = None
    BY <2>1 DEF captured
  <2>6. CaptureShape'
    BY <2>1, <2>4 DEF CaptureShape
  <2>7. QED
    BY <1>3, <2>5, <2>6
<1>4. QED
  BY <1>2, <1>3

\* QueryReturning attaches rows to the query recorded last.
LEMMA Attached ==
  ASSUME CaptureShape, NEW rows \in Seq(Stmts), Emit(C!QueryReturning(rows))
  PROVE  /\ CaptureShape' /\ capture'.pending_sql = capture.pending_sql
         /\ Len(captured') = Len(captured)
         /\ \A i \in 1 .. Len(captured) :
               captured'[i] = IF i = Len(captured) THEN Entry(captured[i].sql, captured[i].is_error, rows)
                              ELSE captured[i]
<1>1. capture' = C!Attach(capture, rows)
  <2>1. C!Collect(capture, C!QueryReturning(rows)) = C!Attach(capture, rows)
    BY DEF C!Collect, C!QueryReturning
  <2>2. QED
    BY <2>1 DEF Emit
<1>2. captured \in Seq(Entries) /\ capture \in [queries : Seq(Entries), pending_sql : Stmts \cup {None}]
  BY DEF CaptureShape, captured
<1>3. CASE captured = <<>>
  <2>1. capture' = capture
    BY <1>1, <1>3 DEF C!Attach, captured
  <2>2. QED
    BY <1>3, <2>1 DEF CaptureShape, captured
<1>4. CASE captured # <<>>
  <2> DEFINE n == Len(captured)
             e == [captured[n] EXCEPT !.response_values = rows]
  <2>1. n \in 1 .. Len(captured) /\ captured[n] \in Entries
    BY <1>2, <1>4
  <2>2. e \in Entries /\ e = Entry(captured[n].sql, captured[n].is_error, rows)
    BY <2>1 DEF Entries, Entry
  <2>3. capture' = [capture EXCEPT !.queries = [captured EXCEPT ![n] = e]]
    BY <1>1, <1>4 DEF C!Attach, captured
  <2> HIDE DEF e
  <2>4. /\ [captured EXCEPT ![n] = e] \in Seq(Entries) /\ Len([captured EXCEPT ![n] = e]) = Len(captured)
        /\ \A i \in 1 .. Len(captured) : [captured EXCEPT ![n] = e][i] = IF i = n THEN e ELSE captured[i]
    BY <1>2, <2>1, <2>2, ExceptSeq
  <2>5. captured' = [captured EXCEPT ![n] = e] /\ capture'.pending_sql = capture.pending_sql
    BY <1>2, <2>3 DEF captured
  <2>6. CaptureShape'
    BY <1>2, <2>3, <2>4 DEF CaptureShape
  <2>7. QED
    BY <2>2, <2>4, <2>5, <2>6
<1>5. QED
  BY <1>3, <1>4

\* The collector's state keeps its shape.
LEMMA CaptureStep ==
  ASSUME Shape, CaptureShape, [Next]_vars
  PROVE  CaptureShape'
<1>1. CASE C2SSuppress \/ C2SQuery \/ C2SBind
  <2>1. c2s.msg \in ToServer /\ c2s.msg.stmt \in Stmts
    BY <1>1 DEF C2SSuppress, C2SQuery, C2SBind, Shape, TasksShape, ToServer
  <2>2. CASE C2SSuppress \/ C2SQuery
    <3>1. Emit(C!QueryStart(c2s.msg.stmt))
      BY <2>2 DEF C2SSuppress, C2SQuery
    <3>2. QED
      BY <2>1, <3>1, Started
  <2>3. CASE C2SBind
    <3>1. PICK x : x = stmt_cache[name[c2s.msg.stmt]]
      OBVIOUS
    <3>2. x \in Stmts \cup {None}
      BY <2>1, <3>1, NameAssumption DEF Shape, SharedShape
    <3>3. (x \in Stmts /\ Emit(C!QueryStart(x))) \/ capture' = capture
      BY <2>3, <3>1, <3>2 DEF C2SBind
    <3>4. QED
      BY <3>3, Started DEF CaptureShape
  <2>4. QED
    BY <1>1, <2>2, <2>3
<1>2. CASE S2CComplete
  <2>1. Emit(IF FALSE THEN C!QueryError ELSE C!QueryComplete)
    BY <1>2 DEF S2CComplete
  <2>2. QED
    BY <2>1, Finished
<1>3. CASE S2CError
  <2>1. Emit(IF TRUE THEN C!QueryError ELSE C!QueryComplete)
    BY <1>3 DEF S2CError
  <2>2. QED
    BY <2>1, Finished
<1>4. CASE S2CPop
  <2>1. Emit(C!QueryReturning(pending_rows)) \/ capture' = capture
    BY <1>4 DEF S2CPop
  <2>2. pending_rows \in Seq(Stmts)
    BY DEF Shape, SharedShape
  <2>3. QED
    BY <2>1, <2>2, Attached DEF CaptureShape
<1>5. CASE ~C2SSuppress /\ ~C2SQuery /\ ~C2SBind /\ ~S2CComplete /\ ~S2CError /\ ~S2CPop
  <2>1. capture' = capture
    BY <1>5 DEF Next, C2S, S2C, vars, ClientSend, ClientReceive, Server, C2SRead, C2SRewrite, C2SPushInjected,
       C2SParse, C2SDescribe, C2SWrite, S2CRead, S2CParameterDescription, S2CRowDescription, S2CDataRow,
       S2CForward, BufferFull, Toggle
  <2>2. QED
    BY <2>1 DEF CaptureShape
<1>6. QED
  BY <1>1, <1>2, <1>3, <1>4, <1>5

(***************************************************************************)
(* A session of simple queries goes through four stages for each of them.  *)
(***************************************************************************)

Returns(s) == kind[s] \in {"returning", "several"}

\* The query c is what the server did with e.
Right(c, e) ==
    /\ c.sql = e.stmt /\ c.is_error = ~e.ok
    /\ \A j \in DOMAIN c.response_values : c.response_values[j] = c.sql /\ Returns(c.sql)
    /\ e.rows /\ Returns(c.sql) => c.response_values # <<>>

Faithful(queries, outcomes, n) == \A i \in 1 .. n : Right(queries[i], outcomes[i])

Waiting == pending_columns = None /\ pending_rows = <<>>

\* Nothing is asked, and nothing is left to look at but the end of an answer.
Resting ==
    /\ Up = <<>> /\ s2c.pc # "pop" /\ Waiting
    /\ Coming = <<>> \/ \E x \in Stmts : Coming = <<Msg("Z", x)>>
    /\ returning_queue = <<>> /\ capture.pending_sql = None
    /\ Len(captured) = Len(served) /\ Faithful(captured, served, Len(served))

\* The query m is on its way to the server; c2s has looked at it or not.
Asking(m) ==
    /\ Up = <<m>> /\ m.type = "Q" /\ kind[m.stmt] \in OneStatement
    /\ Coming = <<>> /\ s2c.pc # "pop" /\ Waiting
    /\ IF to_proxy # <<>> \/ c2s.pc = "Q"
         THEN returning_queue = <<>> /\ capture.pending_sql = None
         ELSE returning_queue = <<Returns(m.stmt)>> /\ capture.pending_sql = m.stmt
    /\ Len(captured) = Len(served) /\ Faithful(captured, served, Len(served))

\* Rows are kept for the statement they came from, if it has a RETURNING clause.
Collected(x) ==
    /\ \A j \in DOMAIN pending_rows : pending_rows[j] = x
    /\ pending_columns # None \/ pending_rows # <<>> => Returns(x)

\* The server has executed x, and these messages are left to look at.
Answering(x, types) ==
    /\ Up = <<>> /\ Coming = Said([stmt |-> x], types) /\ s2c.pc # "pop"
    /\ returning_queue = <<Returns(x)>> /\ capture.pending_sql = x
    /\ Len(served) = Len(captured) + 1 /\ Faithful(captured, served, Len(captured))
    /\ served[Len(served)].stmt = x /\ Collected(x)
    /\ LET e == served[Len(served)] IN
         \/ types = <<"T", "D", "D", "C", "Z">> /\ e.ok
         \/ types = <<"D", "D", "C", "Z">> /\ e.ok /\ (Returns(x) => pending_columns # None)
         \/ types = <<"D", "C", "Z">> /\ e.ok /\ (Returns(x) => pending_rows # <<>>)
         \/ types = <<"C", "Z">> /\ e.ok /\ (e.rows /\ Returns(x) => pending_rows # <<>>)
         \/ types = <<"E", "Z">> /\ ~e.ok /\ ~e.rows

\* QueryComplete is recorded, QueryReturning is not.
Popping(x) ==
    /\ Up = <<>> /\ Coming = <<Msg("Z", x)>> /\ s2c.pc = "pop"
    /\ returning_queue = <<Returns(x)>> /\ capture.pending_sql = None
    /\ Len(served) = Len(captured) /\ served # <<>> /\ Faithful(captured, served, Len(captured) - 1)
    /\ captured[Len(captured)] = Entry(x, FALSE, <<>>)
    /\ served[Len(served)].stmt = x /\ served[Len(served)].ok /\ Collected(x)
    /\ served[Len(served)].rows /\ Returns(x) => pending_rows # <<>>

PlainInv ==
  Plain =>
    /\ c2s.pc \in {"read", "Q", "write"}
    /\ \/ Resting
       \/ \E m \in ToServer : Asking(m)
       \/ \E x \in Stmts, types \in Seq(ServerTypes) : Answering(x, types)
       \/ \E x \in Stmts : Popping(x)

\* Where nothing is on its way to the server, neither c2s nor the server does
\* anything.
LEMMA NothingUp ==
  ASSUME Shape, Up = <<>>
  PROVE  /\ to_server = <<>> /\ HeldC = <<>> /\ to_proxy = <<>>
         /\ c2s.pc = "read" => ~Server /\ ~C2S
<1>1. PICK a \in Seq(ToServer) : a = to_server
  BY DEF Shape, WiresShape
<1>2. PICK b \in Seq(ToServer) : b = HeldC
  BY HeldType
<1>3. PICK c \in Seq(ToServer) : c = to_proxy
  BY DEF Shape, WiresShape
<1>4. a \o (b \o c) = <<>>
  BY <1>1, <1>2, <1>3 DEF Up
<1>5. Len(a \o (b \o c)) = Len(a) + Len(b) + Len(c)
  BY <1>1, <1>2, <1>3
<1>6. Len(a) = 0 /\ Len(b) = 0 /\ Len(c) = 0
  BY <1>4, <1>5
<1>7. a = <<>> /\ b = <<>> /\ c = <<>>
  BY <1>6
<1>8. c2s.pc = "read" => ~Server /\ ~C2S
  BY <1>1, <1>3, <1>7 DEF Server, C2S, C2SRead, C2SRewrite, C2SPushInjected, C2SSuppress, C2SQuery, C2SParse,
     C2SDescribe, C2SBind, C2SWrite
<1>9. QED
  BY <1>1, <1>2, <1>3, <1>7, <1>8

\* Where one message is, it is in one place.
LEMMA OneUp ==
  ASSUME Shape, NEW m \in ToServer, Up = <<m>>
  PROVE  \/ to_server = <<m>> /\ HeldC = <<>> /\ to_proxy = <<>>
         \/ to_server = <<>> /\ HeldC = <<m>> /\ to_proxy = <<>>
         \/ to_server = <<>> /\ HeldC = <<>> /\ to_proxy = <<m>>
<1>1. PICK a \in Seq(ToServer) : a = to_server
  BY DEF Shape, WiresShape
<1>2. PICK b \in Seq(ToServer) : b = HeldC
  BY HeldType
<1>3. PICK c \in Seq(ToServer) : c = to_proxy
  BY DEF Shape, WiresShape
<1>4. PICK u : u = a \o (b \o c) /\ u = <<m>>
  BY <1>1, <1>2, <1>3 DEF Up
<1>5. Len(a) + Len(b) + Len(c) = 1
  <2>1. Len(a \o (b \o c)) = Len(a) + Len(b) + Len(c)
    OBVIOUS
  <2>2. Len(<<m>>) = 1
    OBVIOUS
  <2>3. QED
    BY <1>4, <2>1, <2>2, Zenon
<1>6. CASE Len(a) = 1 /\ Len(b) = 0 /\ Len(c) = 0
  <2>1. b = <<>> /\ c = <<>>
    BY <1>6
  <2>2. a \o (b \o c) = a
    BY <2>1, ConcatEmptySeq
  <2>3. a = <<m>>
    BY <1>4, <2>2, Zenon
  <2>4. QED
    BY <1>1, <1>2, <1>3, <2>1, <2>3, Zenon
<1>7. CASE Len(a) = 0 /\ Len(b) = 1 /\ Len(c) = 0
  <2>1. a = <<>> /\ c = <<>>
    BY <1>7
  <2>2. a \o (b \o c) = b
    BY <2>1, ConcatEmptySeq
  <2>3. b = <<m>>
    BY <1>4, <2>2, Zenon
  <2>4. QED
    BY <1>1, <1>2, <1>3, <2>1, <2>3, Zenon
<1>8. CASE Len(a) = 0 /\ Len(b) = 0 /\ Len(c) = 1
  <2>1. a = <<>> /\ b = <<>>
    BY <1>8
  <2>2. a \o (b \o c) = c
    BY <2>1, ConcatEmptySeq
  <2>3. c = <<m>>
    BY <1>4, <2>2, Zenon
  <2>4. QED
    BY <1>1, <1>2, <1>3, <2>1, <2>3, Zenon
<1>9. QED
  BY <1>5, <1>6, <1>7, <1>8

\* A client of simple queries sends one at a time.
LEMMA PlainRequest ==
  ASSUME Shape, ScriptLeft, Plain, ClientSend
  PROVE  \E m \in ToServer : Head(script) = <<m>> /\ m.type = "Q" /\ kind[m.stmt] \in OneStatement
<1>1. PICK r \in Seq(ToServer) : /\ r = Head(script) /\ Request(r)
                                 /\ r = setup.script[Len(setup.script) - Len(script) + 1]
  BY SentStep
<1>2. r[1].type = "Q" /\ kind[r[1].stmt] \in OneStatement
  <2>1. Len(setup.script) - Len(script) + 1 \in DOMAIN setup.script
    BY SentStep
  <2>2. QED
    BY <1>1, <2>1 DEF Plain
<1>3. Len(r) = 1
  <2>1. r # <<>> /\ Len(r) \in Nat /\ Len(r) # 0
    BY <1>1 DEF Request
  <2>2. ASSUME r[Len(r)].type = "S", \A i \in 1 .. Len(r) - 1 : r[i].type \in {"P", "B", "D", "Ex"} PROVE FALSE
    <3>1. Len(r) # 1
      BY <1>2, <2>2
    <3>2. 1 \in 1 .. Len(r) - 1
      <4>1. \A n \in Nat : n # 0 /\ n # 1 => 1 \in 1 .. n - 1
        OBVIOUS
      <4>2. QED
        BY <2>1, <3>1, <4>1, Zenon
    <3>3. QED
      BY <1>2, <2>2, <3>2
  <2>3. QED
    BY <1>1, <2>2 DEF Request
<1>4. r = <<r[1]>> /\ r[1] \in ToServer
  BY <1>3
<1>5. QED
  BY <1>1, <1>2, <1>4

\* What neither c2s nor the server nor a look at a message changes.
LEMMA LedgerKept ==
  ASSUME Shape, [Next]_vars, ~Server, ~C2S, ~Looked, ~S2CPop
  PROVE  /\ UNCHANGED <<pending_columns, pending_rows, returning_queue, capture, served, c2s, to_server>>
         /\ ~ClientSend => to_proxy' = to_proxy
         /\ s2c'.pc = "pop" => s2c.pc = "pop"
<1>1. /\ UNCHANGED <<pending_columns, pending_rows, returning_queue, capture, served, c2s, to_server>>
      /\ ~ClientSend => to_proxy' = to_proxy
  BY DEF Looked, Next, S2C, vars, wires, serverVars, correlateVars, ClientSend, ClientReceive, S2CRead, S2CForward,
     BufferFull, Toggle
<1>2. s2c'.pc = "pop" => s2c.pc = "pop"
  <2>1. CASE S2CRead
    BY <2>1 DEF S2CRead
  <2>2. CASE S2CForward
    BY <2>2 DEF S2CForward, Idle
  <2>3. CASE ~S2CRead /\ ~S2CForward
    <3>1. s2c' = s2c
      BY <2>3 DEF Looked, Next, S2C, vars, ClientSend, ClientReceive, BufferFull, Toggle
    <3>2. QED
      BY <3>1
  <2>4. QED
    BY <2>1, <2>2, <2>3
<1>3. QED
  BY <1>1, <1>2

\* s2c looks at the first of what is coming.
LEMMA LooksFirst ==
  ASSUME Shape, LookInv, NEW co \in Seq(FromServer), co = Coming
  PROVE  /\ s2c.pc \in {"t", "T", "D", "C", "E"} => co # <<>> /\ co[1] = s2c.msg /\ co[1].type = s2c.pc
         /\ Looked => s2c.pc \in {"t", "T", "D", "C", "E"}
         /\ S2CRead => co # <<>> /\ co[1] = s2c'.msg
                       /\ (~no_capture => s2c'.pc = IF co[1].type \in {"t", "T", "D", "C", "E"} THEN co[1].type ELSE "forward")
<1>1. from_server \in Seq(FromServer) /\ Taken \in Seq(FromServer)
  BY ComingType DEF Shape, WiresShape
<1>2. ASSUME s2c.pc \in {"t", "T", "D", "C", "E"} PROVE co # <<>> /\ co[1] = s2c.msg /\ co[1].type = s2c.pc
  <2>1. co = <<s2c.msg>> \o from_server
    BY <1>2 DEF Coming, Taken
  <2>2. co # <<>> /\ co[1] = s2c.msg
    BY <1>1, <2>1
  <2>3. QED
    BY <1>2, <2>2 DEF LookInv
<1>3. ASSUME S2CRead
      PROVE  co # <<>> /\ co[1] = s2c'.msg
             /\ (~no_capture => s2c'.pc = IF co[1].type \in {"t", "T", "D", "C", "E"} THEN co[1].type ELSE "forward")
  <2>1. s2c.pc = "read" /\ from_server # <<>> /\ s2c'.msg = Head(from_server)
    BY <1>3 DEF S2CRead
  <2>2. co = from_server
    <3>1. Taken = <<>>
      BY <2>1 DEF Taken
    <3>2. QED
      BY <1>1, <3>1, ConcatEmptySeq DEF Coming
  <2>3. co[1] = s2c'.msg
    BY <1>1, <2>1, <2>2
  <2>4. ~no_capture => s2c'.pc = IF s2c'.msg.type \in {"t", "T", "D", "C", "E"} THEN s2c'.msg.type ELSE "forward"
    BY <1>3 DEF S2CRead
  <2>5. QED
    BY <2>1, <2>2, <2>3, <2>4
<1>4. Looked => s2c.pc \in {"t", "T", "D", "C", "E"}
  BY DEF Looked, S2CParameterDescription, S2CRowDescription, S2CDataRow, S2CComplete, S2CError
<1>5. QED
  BY <1>2, <1>3, <1>4

\* The facts about a session of simple queries that every stage uses.
Calm == Shape /\ ScriptLeft /\ UpInv /\ CountInv /\ LastInv /\ OutstandingInv /\ LookInv /\ CaptureShape
        /\ Plain /\ c2s.pc \in {"read", "Q", "write"}

\* At rest the client may send the next query.
LEMMA RestingStep ==
  ASSUME Calm, Resting, [Next]_vars
  PROVE  c2s' = c2s /\ (Resting' \/ \E m \in ToServer : Asking(m)')
<1>1. Up = <<>> /\ to_server = <<>> /\ HeldC = <<>> /\ to_proxy = <<>> /\ c2s.pc = "read" /\ ~Server /\ ~C2S
  <2>1. Up = <<>>
    BY DEF Resting
  <2>2. to_server = <<>> /\ HeldC = <<>> /\ to_proxy = <<>> /\ (c2s.pc = "read" => ~Server /\ ~C2S)
    BY <2>1, NothingUp DEF Calm
  <2>3. c2s.pc = "read"
    BY <2>2 DEF Calm, HeldC
  <2>4. QED
    BY <2>1, <2>2, <2>3
<1>2. PICK co \in Seq(FromServer), co2 \in Seq(FromServer) : co = Coming /\ co2 = Coming'
  BY FlowTypes DEF Calm
<1>3. co = <<>> \/ \E x \in Stmts : co = <<Msg("Z", x)>>
  BY <1>2 DEF Resting
<1>4. co # <<>> => co[1].type = "Z"
  BY <1>3 DEF Msg
<1>5. ~Looked /\ ~S2CPop
  <2>1. ~Looked
    BY <1>2, <1>4, LooksFirst DEF Calm
  <2>2. QED
    BY <2>1 DEF S2CPop, Resting
<1>6. /\ UNCHANGED <<pending_columns, pending_rows, returning_queue, capture, served, c2s, to_server>>
      /\ ~ClientSend => to_proxy' = to_proxy
      /\ s2c'.pc # "pop"
  BY <1>1, <1>5, LedgerKept DEF Calm, Resting
<1>7. CASE ClientSend
  <2>1. PICK m \in ToServer : Head(script) = <<m>> /\ m.type = "Q" /\ kind[m.stmt] \in OneStatement
    BY <1>7, PlainRequest DEF Calm
  <2>2. Up' = <<m>>
    <3>1. Up' = <<>> \o <<m>>
      BY <1>1, <1>7, <2>1, UpFlow, Apart DEF Calm
    <3>2. QED
      BY <3>1
  <2>3. co = <<>> /\ co2 = co
    <3>1. co = <<>>
      BY <1>2, <1>7, SendsAlone DEF Calm, Plain
    <3>2. ~S2CRead
      BY <1>2, <3>1, LooksFirst DEF Calm
    <3>3. QED
      BY <1>1, <1>2, <1>5, <3>1, <3>2, ComingFlow DEF Calm
  <2>4. to_proxy' # <<>>
    <3>1. to_proxy' = <<>> \o <<m>>
      BY <1>1, <1>7, <2>1 DEF ClientSend
    <3>2. QED
      BY <3>1
  <2>5. Asking(m)'
    BY <1>2, <1>6, <2>1, <2>2, <2>3, <2>4 DEF Asking, Resting, Waiting, captured
  <2>6. QED
    BY <1>6, <2>5
<1>8. CASE ~ClientSend
  <2>1. Up' = <<>>
    BY <1>1, <1>6, <1>8 DEF Up, HeldC
  <2>2. co2 = <<>> \/ co2 = co
    <3>1. CASE S2CRead
      <4>1. co2 = co \/ co = <<s2c'.msg>> \o co2
        BY <1>2, <3>1, ComingFlow DEF Calm
      <4>2. ASSUME co = <<s2c'.msg>> \o co2 PROVE co2 = <<>>
        <5>1. Len(co) = 1 + Len(co2)
          BY <4>2
        <5>2. Len(co) = 0 \/ Len(co) = 1
          <6>1. \A x : Len(<<Msg("Z", x)>>) = 1
            OBVIOUS
          <6>2. Len(<<>>) = 0
            OBVIOUS
          <6>3. QED
            BY <1>3, <6>1, <6>2, Zenon
        <5>3. QED
          BY <5>1, <5>2
      <4>3. QED
        BY <4>1, <4>2
    <3>2. CASE ~S2CRead
      BY <1>1, <1>2, <1>5, <3>2, ComingFlow DEF Calm
    <3>3. QED
      BY <3>1, <3>2
  <2>3. Resting'
    BY <1>2, <1>3, <1>6, <2>1, <2>2 DEF Resting, Waiting, captured
  <2>4. QED
    BY <1>6, <2>3
<1>9. QED
  BY <1>7, <1>8

\* What a flag means to a session of simple queries.
LEMMA PlainReturns ==
  ASSUME Plain, Shape
  PROVE  /\ \A s \in Stmts : has_ret(s) = Returns(s)
         /\ setup.correlate /\ ~setup.implicit
BY SetupFacts DEF Plain, has_ret, Returns, Shape, SetupShape

\* A query on its way is looked at, written and executed.
LEMMA AskingStep ==
  ASSUME Calm, NEW m \in ToServer, Asking(m), [Next]_vars
  PROVE  /\ c2s'.pc \in {"read", "Q", "write"}
         /\ \/ \E k \in ToServer : Asking(k)'
            \/ \E x \in Stmts, types \in Seq(ServerTypes) : Answering(x, types)'
<1>1. Up = <<m>> /\ Coming = <<>> /\ m.type = "Q" /\ kind[m.stmt] \in OneStatement /\ m.stmt \in Stmts
  BY DEF Asking, ToServer
<1>2. \/ to_server = <<m>> /\ HeldC = <<>> /\ to_proxy = <<>>
      \/ to_server = <<>> /\ HeldC = <<m>> /\ to_proxy = <<>>
      \/ to_server = <<>> /\ HeldC = <<>> /\ to_proxy = <<m>>
  BY <1>1, OneUp DEF Calm
<1>3. /\ HeldC = <<>> => c2s.pc = "read"
      /\ HeldC = <<m>> => c2s.pc \in {"Q", "write"} /\ c2s.msg = m
      /\ HeldC # <<>> => c2s.pc \in {"Q", "write"}
      /\ c2s.pc # "read" => HeldC # <<>>
  <2>1. CASE c2s.pc = "read"
    BY <2>1 DEF HeldC
  <2>2. CASE c2s.pc # "read"
    <3>1. HeldC = <<c2s.msg>> /\ c2s.pc \in {"Q", "write"}
      BY <2>2 DEF HeldC, Calm
    <3>2. HeldC # <<>> /\ (HeldC = <<m>> => c2s.msg = m)
      BY <3>1
    <3>3. QED
      BY <2>2, <3>1, <3>2
  <2>3. QED
    BY <2>1, <2>2
<1>4. <<m>> # <<>>
  OBVIOUS
<1>5. ~ClientSend
  BY <1>1, <1>4, SendsAlone DEF Calm, Plain
<1>6. ~S2CRead /\ ~Looked /\ ~S2CPop
  <2>1. PICK co \in Seq(FromServer) : co = Coming
    BY FlowTypes DEF Calm
  <2>2. ~S2CRead /\ ~Looked
    BY <1>1, <2>1, LooksFirst DEF Calm
  <2>3. QED
    BY <2>2 DEF S2CPop, Asking
<1>7. ~Server => Coming' = <<>>
  BY <1>1, <1>6, ComingFlow DEF Calm
<1>8. ~Server => \E k \in ToServer : Up' = <<k>> /\ k.type = "Q" /\ k.stmt = m.stmt
  <2> SUFFICES ASSUME ~Server PROVE \E k \in ToServer : Up' = <<k>> /\ k.type = "Q" /\ k.stmt = m.stmt
    OBVIOUS
  <2>1. PICK up2 \in Seq(ToServer) : up2 = Up'
    BY FlowTypes DEF Calm
  <2>2. Alike(up2, <<m>>)
    BY <1>1, <1>5, <2>1, UpFlow DEF Calm
  <2>3. Len(up2) = 1 /\ up2[1].type = m.type /\ up2[1].stmt = m.stmt
    BY <2>2 DEF Alike
  <2>4. up2 = <<up2[1]>> /\ up2[1] \in ToServer
    BY <2>3, SMTT(30)
  <2>5. QED
    BY <1>1, <2>1, <2>3, <2>4
<1>9. ~Server /\ ~C2S => /\ UNCHANGED <<pending_columns, pending_rows, returning_queue, capture, served, c2s, to_server, to_proxy>>
                         /\ s2c'.pc # "pop"
  BY <1>5, <1>6, LedgerKept DEF Calm, Asking
<1>10. CASE ~Server /\ ~C2S
  <2>1. PICK k \in ToServer : Up' = <<k>> /\ k.type = "Q" /\ k.stmt = m.stmt
    BY <1>8, <1>10
  <2>2. Asking(k)'
    BY <1>1, <1>7, <1>9, <1>10, <2>1 DEF Asking, Waiting, captured
  <2>3. QED
    BY <1>9, <1>10, <2>2 DEF Calm
<1>11. CASE C2S
  <2>0. ~Server
    <3>1. CASE C2SRewrite \/ C2SWrite
      <4>1. c2s' # c2s
        BY <3>1 DEF C2SRewrite, C2SWrite, Idle, Calm, Shape, TasksShape
      <4>2. QED
        BY <4>1 DEF Server
    <3>2. CASE ~C2SRewrite /\ ~C2SWrite
      <4>1. to_server' = to_server
        BY <1>11, <3>2 DEF C2S, C2SRead, C2SPushInjected, C2SSuppress, C2SQuery, C2SParse, C2SDescribe, C2SBind, wires
      <4>2. Server => to_server' # to_server
        <5>1. to_server # <<>> => Tail(to_server) # to_server
          BY DEF Calm, Shape, WiresShape
        <5>2. QED
          BY <5>1 DEF Server
      <4>3. QED
        BY <4>1, <4>2
    <3>3. QED
      BY <3>1, <3>2
  <2>1. PICK k \in ToServer : Up' = <<k>> /\ k.type = "Q" /\ k.stmt = m.stmt
    BY <1>8, <2>0
  <2>2. UNCHANGED <<pending_columns, pending_rows, served, s2c>>
    BY <1>11 DEF C2S, C2SRead, C2SRewrite, C2SPushInjected, C2SSuppress, C2SQuery, C2SParse,
       C2SDescribe, C2SBind, C2SWrite, serverVars, correlateVars
  <2>3. C2SRead \/ C2SQuery \/ C2SWrite
    BY <1>11 DEF C2S, C2SRewrite, C2SPushInjected, C2SSuppress, C2SParse, C2SDescribe, C2SBind, Calm
  <2>4. ASSUME C2SRead PROVE c2s'.pc = "Q" /\ Asking(k)'
    <3>1. c2s.pc = "read" /\ to_proxy # <<>> /\ UNCHANGED <<returning_queue, capture>>
      BY <2>4 DEF C2SRead, correlateVars
    <3>2. Head(to_proxy) = m
      BY <1>2, <3>1
    <3>3. ~no_capture /\ ~Injects(m.stmt)
      BY PlainReturns DEF Calm, Plain, Waits, LookInv, Injects
    <3>4. c2s'.pc = "Q"
      BY <1>1, <2>4, <3>2, <3>3 DEF C2SRead
    <3>5. Asking(k)'
      BY <1>1, <1>7, <2>0, <2>1, <2>2, <3>1, <3>4 DEF Asking, Waiting, captured
    <3>6. QED
      BY <3>4, <3>5
  <2>5. ASSUME C2SQuery PROVE c2s'.pc = "write" /\ Asking(k)'
    <3>1. c2s.pc = "Q" /\ c2s.msg = m /\ to_proxy' = <<>>
      BY <1>2, <1>3, <2>5 DEF C2SQuery, wires
    <3>2. c2s'.pc = "write"
      BY <2>5 DEF C2SQuery, Calm, Shape, TasksShape
    <3>3. returning_queue = <<>> /\ capture.pending_sql = None
      BY <3>1 DEF Asking
    <3>4. returning_queue' = <<Returns(m.stmt)>>
      <4>1. returning_queue' = Append(<<>>, has_ret(m.stmt))
        BY <2>5, <3>1, <3>3, PlainReturns DEF C2SQuery, Push, Calm
      <4>2. has_ret(m.stmt) = Returns(m.stmt)
        BY <1>1, PlainReturns DEF Calm
      <4>3. QED
        BY <4>1, <4>2
    <3>5. captured' = captured /\ capture'.pending_sql = m.stmt
      BY <1>1, <2>5, <3>1, Started DEF C2SQuery, Calm
    <3>6. Asking(k)'
      BY <1>1, <1>7, <2>0, <2>1, <2>2, <3>1, <3>2, <3>4, <3>5 DEF Asking, Waiting
    <3>7. QED
      BY <3>2, <3>6
  <2>6. ASSUME C2SWrite PROVE c2s'.pc = "read" /\ Asking(k)'
    <3>1. c2s.pc = "write" /\ to_proxy = <<>> /\ to_proxy' = <<>> /\ UNCHANGED <<returning_queue, capture>>
      BY <1>2, <1>3, <2>6 DEF C2SWrite, correlateVars
    <3>2. c2s'.pc = "read"
      BY <2>6 DEF C2SWrite, Idle
    <3>3. Asking(k)'
      BY <1>1, <1>7, <2>0, <2>1, <2>2, <3>1, <3>2 DEF Asking, Waiting, captured
    <3>4. QED
      BY <3>2, <3>3
  <2>7. QED
    BY <2>3, <2>4, <2>5, <2>6
<1>12. CASE Server
  <2>1. to_server = <<m>> /\ HeldC = <<>> /\ to_proxy = <<>> /\ c2s.pc = "read"
    BY <1>2, <1>3, <1>12 DEF Server
  <2>2. Up' = <<>> /\ to_proxy' = <<>> /\ c2s' = c2s
    <3>1. UNCHANGED <<to_proxy, c2s>> /\ to_server' = <<>>
      BY <1>12, <2>1 DEF Server
    <3>2. HeldC' = <<>>
      BY <2>1, <3>1 DEF HeldC
    <3>3. QED
      BY <2>1, <3>1, <3>2 DEF Up
  <2>3. UNCHANGED <<pending_columns, pending_rows, returning_queue, capture, s2c>>
    BY <1>12 DEF Server, correlateVars
  <2>4. PICK h \in ToServer, types \in Seq(ServerTypes), ok \in BOOLEAN, rows \in BOOLEAN :
           /\ h = Head(to_server) /\ Said(h, types) \in Seq(FromServer)
           /\ from_server' = from_server \o Said(h, types)
           /\ Outcome(h, ok, rows)
           /\ Skipped(h, types) \/ Succeeded(h, types, ok, rows) \/ Failed(h, types, ok, rows)
    BY <1>12, ServerStep, ZenonT(60) DEF Calm
  <2>5. h = m
    BY <2>1, <2>4
  <2>6. Coming' = Said(m, types)
    <3>1. PICK r \in Seq(FromServer) : r = Said(m, types) /\ from_server' = from_server \o r
      BY <2>4, <2>5
    <3>2. Coming' = Coming \o r
      BY <1>12, <3>1, ComingFlow DEF Calm
    <3>3. QED
      BY <1>1, <3>1, <3>2
  <2>7. Said(m, types) = Said([stmt |-> m.stmt], types)
    BY DEF Said
  <2>8. PICK e \in Served : e = [stmt |-> m.stmt, ok |-> ok, rows |-> rows]
    <3>1. [stmt |-> m.stmt, ok |-> ok, rows |-> rows] \in Served
      BY <1>1 DEF Served
    <3>2. QED
      BY <3>1, Zenon
  <2>9. served' = Append(served, e)
    BY <1>1, <2>4, <2>5, <2>8 DEF Outcome, Executing, OneStatement
  <2>10. served \in Seq(Served) /\ Len(captured) = Len(served)
    BY DEF Calm, Shape, WiresShape, Asking
  <2>11. Len(served') = Len(served) + 1 /\ served'[Len(served')] = e /\ \A i \in 1 .. Len(served) : served'[i] = served[i]
    BY <2>8, <2>9, <2>10
  <2>12. Faithful(captured, served', Len(captured))
    <3>1. Faithful(captured, served, Len(served))
      BY DEF Asking
    <3>2. QED
      BY <2>10, <2>11, <3>1 DEF Faithful
  <2>13. \/ types = <<"T", "D", "D", "C", "Z">> /\ e.ok
         \/ types = <<"C", "Z">> /\ e.ok /\ ~e.rows
         \/ types = <<"E", "Z">> /\ ~e.ok /\ ~e.rows
    <3>1. CASE Succeeded(m, types, ok, rows)
      <4>1. types = Success(m) /\ ok /\ rows = Contains(types, "D")
        BY <3>1 DEF Succeeded
      <4>2. types \in {<<"T", "D", "D", "C", "Z">>, <<"C", "Z">>}
        BY <1>1, <4>1 DEF Success, OneStatement
      <4>3. ~Contains(<<"C", "Z">>, "D")
        BY DEF Contains
      <4>4. QED
        BY <2>8, <4>1, <4>2, <4>3
    <3>2. CASE Failed(m, types, ok, rows)
      <4>1. types \in Failures(m) /\ ~ok /\ rows = Contains(types, "D")
        BY <3>2 DEF Failed
      <4>2. types = <<"E", "Z">>
        BY <1>1, <4>1 DEF Failures, OneStatement
      <4>3. ~Contains(<<"E", "Z">>, "D")
        BY DEF Contains
      <4>4. QED
        BY <2>8, <4>1, <4>2, <4>3
    <3>3. ~Skipped(m, types)
      <4>1. ~skipping
        BY <1>1 DEF Calm, UpInv, Extended
      <4>2. QED
        BY <4>1 DEF Skipped
    <3>4. QED
      BY <2>4, <2>5, <3>1, <3>2, <3>3
  <2>14. /\ returning_queue = <<Returns(m.stmt)>> /\ capture.pending_sql = m.stmt /\ Waiting /\ s2c.pc # "pop"
    BY <2>1, <1>4 DEF Asking
  <2>15. Collected(m.stmt)'
    BY <2>3, <2>14 DEF Collected, Waiting
  <2>16. Answering(m.stmt, types)'
    <3>1. captured' = captured
      BY <2>3 DEF captured
    <3>2. e.stmt = m.stmt
      BY <2>8
    <3>3. QED
      BY <2>2, <2>3, <2>6, <2>7, <2>10, <2>11, <2>12, <2>13, <2>14, <2>15, <3>1, <3>2 DEF Answering
  <2>17. QED
    BY <1>1, <2>1, <2>2, <2>16
<1>13. QED
  BY <1>10, <1>11, <1>12

\* An answer without its first message.
LEMMA SaidRest ==
  ASSUME NEW m, NEW t \in Seq(ServerTypes), NEW u \in Seq(ServerTypes), NEW h, NEW rest \in Seq(FromServer),
         Said(m, t) = <<h>> \o rest, Len(t) = Len(u) + 1, \A i \in 1 .. Len(u) : u[i] = t[i + 1]
  PROVE  h = Msg(t[1], m.stmt) /\ rest = Said(m, u)
<1>1. PICK q : q = Said(m, t)
  OBVIOUS
<1>2. q = <<h>> \o rest
  BY <1>1
<1>3. Len(q) = Len(t) /\ \A i \in 1 .. Len(t) : q[i] = Msg(t[i], m.stmt)
  <2>1. \A n \in Nat : \A f : f = [i \in 1 .. n |-> Msg(t[i], m.stmt)] => Len(f) = n
    OBVIOUS
  <2>2. QED
    BY <1>1, <2>1 DEF Said
<1>4. Len(q) = Len(rest) + 1 /\ q[1] = h /\ \A i \in 1 .. Len(rest) : q[i + 1] = rest[i]
  BY <1>2
<1>5. Len(rest) = Len(u)
  BY <1>3, <1>4
<1>6. \A i \in 1 .. Len(u) : rest[i] = Msg(u[i], m.stmt)
  BY <1>3, <1>4, <1>5
<1>7. rest = [i \in 1 .. Len(u) |-> Msg(u[i], m.stmt)]
  <2>1. rest = [i \in 1 .. Len(rest) |-> rest[i]]
    OBVIOUS
  <2>2. QED
    BY <1>5, <1>6, <2>1
<1>8. 1 \in 1 .. Len(t)
  BY <1>3, <1>4
<1>9. QED
  BY <1>3, <1>4, <1>7, <1>8 DEF Said

\* The answer is looked at message by message.
LEMMA AnsweringStep ==
  ASSUME Calm, NEW x \in Stmts, NEW types \in Seq(ServerTypes), Answering(x, types), [Next]_vars
  PROVE  /\ c2s' = c2s
         /\ \/ Resting' \/ Popping(x)'
            \/ \E rest \in Seq(ServerTypes) : Answering(x, rest)'
<1>1. Up = <<>> /\ to_server = <<>> /\ HeldC = <<>> /\ to_proxy = <<>> /\ c2s.pc = "read" /\ ~Server /\ ~C2S
  <2>1. Up = <<>>
    BY DEF Answering
  <2>2. to_server = <<>> /\ HeldC = <<>> /\ to_proxy = <<>> /\ (c2s.pc = "read" => ~Server /\ ~C2S)
    BY <2>1, NothingUp DEF Calm
  <2>3. c2s.pc = "read"
    BY <2>2 DEF Calm, HeldC
  <2>4. QED
    BY <2>1, <2>2, <2>3
<1>2. PICK co \in Seq(FromServer), co2 \in Seq(FromServer) : co = Coming /\ co2 = Coming'
  BY FlowTypes DEF Calm
<1>3. PICK a : a = [stmt |-> x]
  OBVIOUS
<1>4. a.stmt = x /\ co = Said(a, types)
  BY <1>2, <1>3 DEF Answering
<1>5. Len(types) # 0 /\ types[1] \in {"T", "D", "C", "E"}
  <2>1. CASE types = <<"T", "D", "D", "C", "Z">>
    BY <2>1
  <2>2. CASE types = <<"D", "D", "C", "Z">>
    BY <2>2
  <2>3. CASE types = <<"D", "C", "Z">>
    BY <2>3
  <2>4. CASE types = <<"C", "Z">> \/ types = <<"E", "Z">>
    BY <2>4
  <2>5. QED
    BY <2>1, <2>2, <2>3, <2>4 DEF Answering
<1>6. Len(co) # 0 /\ co[1] = Msg(types[1], x)
  BY <1>4, <1>5 DEF Said
<1>7. ~ClientSend /\ ~S2CPop
  <2>1. co # <<>>
    BY <1>6
  <2>2. ~ClientSend
    BY <1>2, <2>1, SendsAlone DEF Calm, Plain
  <2>3. QED
    BY <2>2 DEF S2CPop, Answering
<1>8. CASE ~Looked
  <2>1. /\ UNCHANGED <<pending_columns, pending_rows, returning_queue, capture, served, c2s, to_server, to_proxy>>
        /\ s2c'.pc # "pop"
    BY <1>1, <1>7, <1>8, LedgerKept DEF Calm, Answering
  <2>2. co2 = co
    <3>1. CASE S2CRead
      <4>1. s2c'.pc \in {"t", "T", "D", "C", "E"}
        <5>1. ~no_capture
          BY DEF Calm, LookInv, Plain, Waits
        <5>2. co[1].type \in {"T", "D", "C", "E"}
          BY <1>5, <1>6 DEF Msg
        <5>3. QED
          BY <1>2, <3>1, <5>1, <5>2, LooksFirst DEF Calm
      <4>2. QED
        BY <1>2, <3>1, <4>1, ComingFlow DEF Calm
    <3>2. CASE ~S2CRead
      BY <1>1, <1>2, <1>8, <3>2, ComingFlow DEF Calm
    <3>3. QED
      BY <3>1, <3>2
  <2>3. Up' = <<>>
    BY <1>1, <2>1 DEF Up, HeldC
  <2>4. Collected(x)'
    BY <2>1 DEF Answering, Collected
  <2>5. Answering(x, types)'
    BY <1>2, <2>1, <2>2, <2>3, <2>4 DEF Answering, captured
  <2>6. QED
    BY <2>1, <2>5
<1>9. CASE Looked
  <2>1. co = <<s2c.msg>> \o co2
    BY <1>2, <1>9, ComingFlow DEF Calm
  <2>2. s2c.msg = Msg(types[1], x) /\ s2c.pc = types[1] /\ s2c.msg.stmt = x
    <3>1. co[1] = s2c.msg /\ co[1].type = s2c.pc
      BY <1>2, <1>9, LooksFirst DEF Calm
    <3>2. QED
      BY <1>6, <3>1 DEF Msg
  <2>3. ASSUME NEW u \in Seq(ServerTypes), Len(types) = Len(u) + 1, \A i \in 1 .. Len(u) : u[i] = types[i + 1]
        PROVE  co2 = Said(a, u)
    <3>1. Said(a, types) = <<s2c.msg>> \o co2
      BY <1>4, <2>1
    <3>2. QED
      BY <2>3, <3>1, SaidRest, ZenonT(60)
  <2>4. UNCHANGED <<c2s, to_server, to_proxy, served>>
    BY <1>9 DEF Looked, S2CParameterDescription, S2CRowDescription, S2CDataRow, S2CComplete, S2CError, wires, serverVars
  <2>5. Up' = <<>>
    BY <1>1, <2>4 DEF Up, HeldC
  <2>6. s2c \in [pc : SPcs, msg : FromServer \cup {None}] /\ pending_rows \in Seq(Stmts)
    BY DEF Calm, Shape, TasksShape, SharedShape
  <2>7. /\ returning_queue = <<Returns(x)>> /\ capture.pending_sql = x /\ x # None
        /\ Len(served) = Len(captured) + 1 /\ Faithful(captured, served, Len(captured))
        /\ served[Len(served)].stmt = x /\ Collected(x)
    BY RelayAssumption DEF Answering
  <2>8. CASE types[1] = "T"
    <3>1. types = <<"T", "D", "D", "C", "Z">> /\ served[Len(served)].ok
      BY <2>8 DEF Answering
    <3>2. S2CRowDescription
      BY <1>9, <2>2, <2>8 DEF Looked, S2CParameterDescription, S2CDataRow, S2CComplete, S2CError
    <3>3. s2c'.pc = "forward" /\ UNCHANGED <<returning_queue, capture>>
      BY <2>6, <3>2 DEF S2CRowDescription
    <3>4. IF Returns(x) THEN pending_columns' = x /\ pending_rows' = <<>>
          ELSE UNCHANGED <<pending_columns, pending_rows>>
      <4>1. Due(returning_queue) = Returns(x)
        <5>1. \A b \in BOOLEAN : Due(<<b>>) = b
          <6>1. \A b : Head(<<b>>) = b /\ <<b>> # <<>>
            OBVIOUS
          <6>2. QED
            BY <6>1, Zenon DEF Due
        <5>2. Returns(x) \in BOOLEAN
          BY DEF Returns
        <5>3. QED
          BY <2>7, <5>1, <5>2, Zenon
      <4>2. QED
        BY <2>2, <3>2, <4>1 DEF S2CRowDescription
    <3>5. Collected(x)' /\ (Returns(x) => pending_columns' # None)
      BY <2>7, <3>4 DEF Collected
    <3>6. PICK u \in Seq(ServerTypes) : u = <<"D", "D", "C", "Z">>
      <4>1. <<"D", "D", "C", "Z">> \in Seq(ServerTypes)
        BY DEF ServerTypes
      <4>2. QED
        BY <4>1, Zenon
    <3>7. co2 = Said(a, u)
      <4>1. Len(types) = Len(u) + 1 /\ \A i \in 1 .. Len(u) : u[i] = types[i + 1]
        BY <3>1, <3>6
      <4>2. QED
        BY <2>3, <4>1
    <3>8. Answering(x, u)'
      BY <1>2, <1>3, <2>4, <2>5, <2>7, <3>1, <3>3, <3>5, <3>6, <3>7 DEF Answering, captured
    <3>9. QED
      BY <2>4, <3>8
  <2>9. CASE types[1] = "D"
    <3>1. /\ served[Len(served)].ok
          /\ \/ types = <<"D", "D", "C", "Z">> /\ (Returns(x) => pending_columns # None)
             \/ types = <<"D", "C", "Z">> /\ (Returns(x) => pending_rows # <<>>)
      BY <2>9 DEF Answering
    <3>2. S2CDataRow
      BY <1>9, <2>2, <2>9 DEF Looked, S2CParameterDescription, S2CRowDescription, S2CComplete, S2CError
    <3>3. s2c'.pc = "forward" /\ UNCHANGED <<returning_queue, capture, pending_columns>>
      BY <2>6, <3>2 DEF S2CDataRow
    <3>4. pending_rows' = IF pending_columns # None /\ HasSpace(pending_rows) THEN Append(pending_rows, x) ELSE pending_rows
      BY <2>2, <3>2 DEF S2CDataRow
    <3>5. pending_rows # <<>> \/ pending_columns # None => pending_rows' # <<>>
      <4>1. ~HasSpace(pending_rows) => pending_rows # <<>>
        BY <2>6, RelayAssumption DEF HasSpace
      <4>2. Append(pending_rows, x) # <<>>
        BY <2>6, SMTT(30)
      <4>3. QED
        BY <3>4, <4>1, <4>2
    <3>6. Collected(x)'
      <4>1. CASE pending_rows' = pending_rows
        BY <2>7, <3>3, <4>1 DEF Collected
      <4>2. CASE pending_rows' = Append(pending_rows, x) /\ pending_columns # None
        <5>1. \A j \in DOMAIN pending_rows' : pending_rows'[j] = x
          BY <2>6, <2>7, <4>2 DEF Collected
        <5>2. QED
          BY <2>7, <3>3, <4>2, <5>1 DEF Collected
      <4>3. QED
        BY <3>4, <4>1, <4>2
    <3>7. \E u \in Seq(ServerTypes) :
             /\ Len(types) = Len(u) + 1 /\ \A i \in 1 .. Len(u) : u[i] = types[i + 1]
             /\ \/ u = <<"D", "C", "Z">> /\ (Returns(x) => pending_rows' # <<>>)
                \/ u = <<"C", "Z">> /\ (Returns(x) => pending_rows' # <<>>)
      <4>1. <<"D", "C", "Z">> \in Seq(ServerTypes) /\ <<"C", "Z">> \in Seq(ServerTypes)
        BY DEF ServerTypes
      <4>2. CASE types = <<"D", "D", "C", "Z">> /\ (Returns(x) => pending_columns # None)
        <5>1. PICK u \in Seq(ServerTypes) : u = <<"D", "C", "Z">>
          BY <4>1
        <5>2. Len(types) = Len(u) + 1 /\ \A i \in 1 .. Len(u) : u[i] = types[i + 1]
          BY <4>2, <5>1
        <5>3. QED
          BY <3>5, <4>2, <5>1, <5>2
      <4>3. CASE types = <<"D", "C", "Z">> /\ (Returns(x) => pending_rows # <<>>)
        <5>1. PICK u \in Seq(ServerTypes) : u = <<"C", "Z">>
          BY <4>1
        <5>2. Len(types) = Len(u) + 1 /\ \A i \in 1 .. Len(u) : u[i] = types[i + 1]
          BY <4>3, <5>1
        <5>3. QED
          BY <3>5, <4>3, <5>1, <5>2
      <4>4. QED
        BY <3>1, <4>2, <4>3
    <3>8. PICK u \in Seq(ServerTypes) :
             /\ Len(types) = Len(u) + 1 /\ \A i \in 1 .. Len(u) : u[i] = types[i + 1]
             /\ \/ u = <<"D", "C", "Z">> /\ (Returns(x) => pending_rows' # <<>>)
                \/ u = <<"C", "Z">> /\ (Returns(x) => pending_rows' # <<>>)
      BY <3>7
    <3>9. co2 = Said(a, u)
      BY <2>3, <3>8
    <3>10. Answering(x, u)'
      BY <1>2, <1>3, <2>4, <2>5, <2>7, <3>1, <3>3, <3>6, <3>8, <3>9 DEF Answering, captured
    <3>11. QED
      BY <2>4, <3>10
  <2>10. CASE types[1] \in {"C", "E"}
    <3>1. PICK u \in Seq(ServerTypes) : u = <<"Z">>
      <4>1. <<"Z">> \in Seq(ServerTypes)
        BY DEF ServerTypes
      <4>2. QED
        BY <4>1, Zenon
    <3>2. co2 = Said(a, u)
      <4>1. types \in {<<"C", "Z">>, <<"E", "Z">>}
        BY <2>10 DEF Answering
      <4>2. Len(types) = 2 /\ types[2] = "Z"
        BY <4>1
      <4>3. Len(types) = Len(u) + 1 /\ \A i \in 1 .. Len(u) : u[i] = types[i + 1]
        BY <3>1, <4>2
      <4>4. QED
        BY <2>3, <4>3
    <3>3. co2 = <<Msg("Z", x)>>
      BY <1>4, <3>1, <3>2 DEF Said
    <3>4. captured \in Seq(Entries) /\ \A e \in Entries : /\ Len(Append(captured, e)) = Len(captured) + 1
                                                          /\ Append(captured, e)[Len(captured) + 1] = e
                                                          /\ \A i \in 1 .. Len(captured) : Append(captured, e)[i] = captured[i]
      <4>1. captured \in Seq(Entries)
        BY DEF Calm, CaptureShape, captured
      <4>2. QED
        BY <4>1
    <3>0. Entry(x, FALSE, <<>>) \in Entries /\ Entry(x, TRUE, <<>>) \in Entries
      <4>1. <<>> \in Seq(Stmts)
        BY Concat
      <4>2. QED
        BY <4>1 DEF Entry, Entries
    <3>5. CASE types[1] = "C"
      <4>1. served[Len(served)].ok /\ (served[Len(served)].rows /\ Returns(x) => pending_rows # <<>>)
        BY <3>5 DEF Answering
      <4>2. S2CComplete
        BY <1>9, <2>2, <3>5 DEF Looked, S2CParameterDescription, S2CRowDescription, S2CDataRow, S2CError
      <4>3. s2c'.pc = "pop" /\ UNCHANGED <<returning_queue, pending_columns, pending_rows>>
        BY <2>6, <4>2 DEF S2CComplete, correlateVars
      <4>4. captured' = Append(captured, Entry(x, FALSE, <<>>)) /\ capture'.pending_sql = None
        <5>1. Emit(IF FALSE THEN C!QueryError ELSE C!QueryComplete)
          BY <4>2 DEF S2CComplete
        <5>2. QED
          BY <2>7, <5>1, Finished DEF Calm
      <4>5. /\ Len(captured') = Len(captured) + 1 /\ captured'[Len(captured')] = Entry(x, FALSE, <<>>)
            /\ \A i \in 1 .. Len(captured) : captured'[i] = captured[i]
        BY <3>0, <3>4, <4>4, Zenon
      <4>6. Faithful(captured', served, Len(captured') - 1)
        BY <2>7, <3>4, <4>5 DEF Faithful
      <4>7. Collected(x)'
        BY <2>7, <4>3 DEF Collected
      <4>8. served # <<>>
        BY <2>7, <3>4
      <4>9. Popping(x)'
        BY <1>2, <2>4, <2>5, <2>7, <3>3, <3>4, <4>1, <4>3, <4>4, <4>5, <4>6, <4>7, <4>8 DEF Popping
      <4>10. QED
        BY <2>4, <4>9
    <3>6. CASE types[1] = "E"
      <4>1. ~served[Len(served)].ok /\ ~served[Len(served)].rows
        BY <3>6 DEF Answering
      <4>2. S2CError
        BY <1>9, <2>2, <3>6 DEF Looked, S2CParameterDescription, S2CRowDescription, S2CDataRow, S2CComplete
      <4>3. s2c'.pc = "forward" /\ returning_queue' = <<>> /\ pending_columns' = None /\ pending_rows' = <<>>
        BY <2>6, <2>7, <4>2 DEF S2CError, Rest
      <4>4. captured' = Append(captured, Entry(x, TRUE, <<>>)) /\ capture'.pending_sql = None
        <5>1. Emit(IF TRUE THEN C!QueryError ELSE C!QueryComplete)
          BY <4>2 DEF S2CError
        <5>2. QED
          BY <2>7, <5>1, Finished DEF Calm
      <4>5. /\ Len(captured') = Len(served) /\ captured'[Len(served)] = Entry(x, TRUE, <<>>)
            /\ \A i \in 1 .. Len(captured) : captured'[i] = captured[i]
        BY <2>7, <3>0, <3>4, <4>4, Zenon
      <4>6. Right(Entry(x, TRUE, <<>>), served[Len(served)])
        <5>1. \A c : c = Entry(x, TRUE, <<>>) => c.sql = x /\ c.is_error = TRUE /\ c.response_values = <<>>
          BY DEF Entry
        <5>2. PICK c : c = Entry(x, TRUE, <<>>) /\ c.sql = x /\ c.is_error = TRUE /\ c.response_values = <<>>
          BY <5>1
        <5>3. \A j \in DOMAIN c.response_values : c.response_values[j] = c.sql /\ Returns(c.sql)
          <6>1. DOMAIN <<>> = {}
            OBVIOUS
          <6>2. QED
            BY <5>2, <6>1, Zenon
        <5>4. c.is_error = ~served[Len(served)].ok
          BY <4>1, <5>2
        <5>5. Right(c, served[Len(served)])
          BY <2>7, <4>1, <5>2, <5>3, <5>4 DEF Right
        <5>6. QED
          BY <5>2, <5>5
      <4>7. Faithful(captured', served, Len(served))
        <5> SUFFICES ASSUME NEW i \in 1 .. Len(served) PROVE Right(captured'[i], served[i])
          BY DEF Faithful
        <5>1. i = Len(served) \/ i \in 1 .. Len(captured)
          <6>1. Len(captured) \in Nat /\ Len(served) = Len(captured) + 1
            BY <2>7, <3>4
          <6>2. \A n \in Nat : \A j \in 1 .. n + 1 : j = n + 1 \/ j \in 1 .. n
            OBVIOUS
          <6>3. QED
            BY <6>1, <6>2, Zenon
        <5>2. QED
          BY <2>7, <4>5, <4>6, <5>1 DEF Faithful
      <4>8. Resting'
        BY <1>2, <2>4, <2>5, <3>3, <4>3, <4>4, <4>5, <4>7 DEF Resting, Waiting
      <4>9. QED
        BY <2>4, <4>8
    <3>7. QED
      BY <2>10, <3>5, <3>6
  <2>11. QED
    BY <1>5, <2>8, <2>9, <2>10
<1>10. QED
  BY <1>8, <1>9

\* The rows of a RETURNING clause are attached to the query recorded last,
\* which is the one they came from.
LEMMA PoppingStep ==
  ASSUME Calm, NEW x \in Stmts, Popping(x), [Next]_vars
  PROVE  c2s' = c2s /\ (Resting' \/ Popping(x)')
<1>1. Up = <<>> /\ to_server = <<>> /\ HeldC = <<>> /\ to_proxy = <<>> /\ c2s.pc = "read" /\ ~Server /\ ~C2S
  <2>1. Up = <<>>
    BY DEF Popping
  <2>2. to_server = <<>> /\ HeldC = <<>> /\ to_proxy = <<>> /\ (c2s.pc = "read" => ~Server /\ ~C2S)
    BY <2>1, NothingUp DEF Calm
  <2>3. c2s.pc = "read"
    BY <2>2 DEF Calm, HeldC
  <2>4. QED
    BY <2>1, <2>2, <2>3
<1>2. s2c.pc = "pop" /\ Coming = <<Msg("Z", x)>>
  BY DEF Popping
<1>3. ~S2CRead /\ ~S2CForward /\ ~Looked
  BY <1>2 DEF S2CRead, S2CForward, Looked, S2CParameterDescription, S2CRowDescription, S2CDataRow, S2CComplete, S2CError
<1>4. ~ClientSend
  <2>1. <<Msg("Z", x)>> # <<>>
    OBVIOUS
  <2>2. QED
    BY <1>2, <2>1, SendsAlone DEF Calm, Plain
<1>5. Coming' = Coming
  BY <1>1, <1>3, ComingFlow DEF Calm
<1>6. CASE ~S2CPop
  <2>1. UNCHANGED <<pending_columns, pending_rows, returning_queue, capture, served, c2s, to_server, to_proxy>>
    BY <1>1, <1>3, <1>4, <1>6, LedgerKept DEF Calm
  <2>2. s2c' = s2c
    BY <1>1, <1>3, <1>4, <1>6 DEF Looked, Next, S2C, vars, ClientReceive, BufferFull, Toggle
  <2>3. Up' = <<>>
    BY <1>1, <2>1 DEF Up, HeldC
  <2>4. Collected(x)'
    BY <2>1 DEF Popping, Collected
  <2>5. Popping(x)'
    BY <1>2, <1>5, <2>1, <2>2, <2>3, <2>4 DEF Popping, captured
  <2>6. QED
    BY <2>1, <2>5
<1>7. CASE S2CPop
  <2>1. UNCHANGED <<served, c2s, to_server, to_proxy>> /\ s2c'.pc = "forward"
    BY <1>7 DEF S2CPop, wires, serverVars, Calm, Shape, TasksShape
  <2>2. Up' = <<>>
    BY <1>1, <2>1 DEF Up, HeldC
  <2>3. /\ returning_queue = <<Returns(x)>> /\ capture.pending_sql = None
        /\ Len(served) = Len(captured) /\ served # <<>> /\ Faithful(captured, served, Len(captured) - 1)
        /\ captured[Len(captured)] = Entry(x, FALSE, <<>>)
        /\ served[Len(served)].stmt = x /\ served[Len(served)].ok /\ Collected(x)
        /\ served[Len(served)].rows /\ Returns(x) => pending_rows # <<>>
    BY DEF Popping
  <2>4. Due(returning_queue) = Returns(x) /\ returning_queue' = <<>>
    <3>1. \A b \in BOOLEAN : Due(<<b>>) = b
      <4>1. \A b : Head(<<b>>) = b /\ <<b>> # <<>>
        OBVIOUS
      <4>2. QED
        BY <4>1, Zenon DEF Due
    <3>2. Returns(x) \in BOOLEAN
      BY DEF Returns
    <3>3. Due(returning_queue) = Returns(x)
      BY <2>3, <3>1, <3>2, Zenon
    <3>4. returning_queue' = <<>>
      BY <1>7, <2>3 DEF S2CPop, Rest
    <3>5. QED
      BY <3>3, <3>4
  <2>5. pending_columns' = None /\ pending_rows' = <<>>
    <3>1. CASE Returns(x)
      BY <1>7, <2>4, <3>1 DEF S2CPop
    <3>2. CASE ~Returns(x)
      BY <1>7, <2>3, <2>4, <3>2 DEF S2CPop, Collected
    <3>3. QED
      BY <3>1, <3>2
  <2>6. captured \in Seq(Entries) /\ served \in Seq(Served) /\ pending_rows \in Seq(Stmts)
    BY DEF Calm, CaptureShape, captured, Shape, WiresShape, SharedShape
  <2>7. Len(served) \in 1 .. Len(served)
    BY <2>3, <2>6
  <2>8. PICK e : e = served[Len(served)] /\ e.stmt = x /\ e.ok
    BY <2>3
  <2>9. ASSUME NEW rows, \A j \in DOMAIN rows : rows[j] = x /\ Returns(x), e.rows /\ Returns(x) => rows # <<>>
        PROVE  Right(Entry(x, FALSE, rows), e)
    <3>1. \A c : c = Entry(x, FALSE, rows) => c.sql = x /\ c.is_error = FALSE /\ c.response_values = rows
      BY DEF Entry
    <3>2. PICK c : c = Entry(x, FALSE, rows) /\ c.sql = x /\ c.is_error = FALSE /\ c.response_values = rows
      BY <3>1
    <3>3. c.is_error = ~e.ok
      BY <2>8, <3>2
    <3>4. Right(c, e)
      BY <2>8, <2>9, <3>2, <3>3 DEF Right
    <3>5. QED
      BY <3>2, <3>4
  <2>10. ASSUME Len(captured') = Len(captured), Right(captured'[Len(served)], e), capture'.pending_sql = None,
                \A i \in 1 .. Len(captured) - 1 : captured'[i] = captured[i]
         PROVE  Resting'
    <3>1. Faithful(captured', served, Len(served))
      <4> SUFFICES ASSUME NEW i \in 1 .. Len(served) PROVE Right(captured'[i], served[i])
        BY DEF Faithful
      <4>1. i = Len(served) \/ i \in 1 .. Len(captured) - 1
        <5>1. \A n \in Nat : \A j \in 1 .. n : j = n \/ j \in 1 .. n - 1
          OBVIOUS
        <5>2. Len(served) \in Nat /\ Len(captured) = Len(served)
          BY <2>3, <2>6
        <5>3. QED
          BY <5>1, <5>2, Zenon
      <4>2. QED
        BY <2>3, <2>8, <2>10, <4>1 DEF Faithful
    <3>2. QED
      BY <1>2, <1>5, <2>1, <2>2, <2>3, <2>4, <2>5, <2>10, <3>1 DEF Resting, Waiting
  <2>11. CASE Returns(x) /\ pending_rows # <<>>
    <3>1. Emit(C!QueryReturning(pending_rows))
      BY <1>7, <2>4, <2>11 DEF S2CPop
    <3>2. /\ capture'.pending_sql = capture.pending_sql /\ Len(captured') = Len(captured)
          /\ \A i \in 1 .. Len(captured) :
                captured'[i] = IF i = Len(captured) THEN Entry(captured[i].sql, captured[i].is_error, pending_rows)
                               ELSE captured[i]
      BY <2>6, <3>1, Attached DEF Calm
    <3>3. captured'[Len(served)] = Entry(x, FALSE, pending_rows)
      <4>1. captured[Len(captured)].sql = x /\ captured[Len(captured)].is_error = FALSE
        BY <2>3 DEF Entry
      <4>2. Len(captured) \in 1 .. Len(captured)
        BY <2>3, <2>7
      <4>3. QED
        BY <2>3, <3>2, <4>1, <4>2
    <3>4. Right(Entry(x, FALSE, pending_rows), e)
      BY <2>3, <2>9, <2>11 DEF Collected
    <3>5. \A i \in 1 .. Len(captured) - 1 : captured'[i] = captured[i]
      BY <2>6, <3>2
    <3>6. QED
      BY <2>1, <2>3, <2>10, <3>2, <3>3, <3>4, <3>5
  <2>12. CASE ~(Returns(x) /\ pending_rows # <<>>)
    <3>1. capture' = capture
      BY <1>7, <2>4, <2>12 DEF S2CPop
    <3>2. captured' = captured
      BY <3>1 DEF captured
    <3>3. Right(Entry(x, FALSE, <<>>), e)
      <4>1. DOMAIN <<>> = {}
        OBVIOUS
      <4>2. \A j \in DOMAIN <<>> : <<>>[j] = x /\ Returns(x)
        BY <4>1
      <4>3. e.rows /\ Returns(x) => <<>> # <<>>
        BY <2>3, <2>8, <2>12
      <4>4. QED
        BY <2>9, <4>2, <4>3
    <3>4. QED
      BY <2>1, <2>3, <2>10, <3>1, <3>2, <3>3
  <2>13. QED
    BY <2>11, <2>12
<1>8. QED
  BY <1>6, <1>7

\* Every step goes from stage to stage.
LEMMA PlainStep ==
  ASSUME Shape, ScriptLeft, UpInv, CountInv, LastInv, OutstandingInv, LookInv, CaptureShape, PlainInv, [Next]_vars
  PROVE  PlainInv'
<1>1. setup' = setup
  BY SetupKept
<1>2. SUFFICES ASSUME Plain
               PROVE  /\ c2s'.pc \in {"read", "Q", "write"}
                      /\ \/ Resting'
                         \/ \E m \in ToServer : Asking(m)'
                         \/ \E x \in Stmts, types \in Seq(ServerTypes) : Answering(x, types)'
                         \/ \E x \in Stmts : Popping(x)'
  BY <1>1 DEF PlainInv, Plain, Waits
<1>3. Calm
  BY <1>2 DEF Calm, PlainInv
<1>4. CASE Resting
  BY <1>3, <1>4, RestingStep DEF Calm
<1>5. ASSUME NEW m \in ToServer, Asking(m)
      PROVE  /\ c2s'.pc \in {"read", "Q", "write"}
             /\ \/ \E k \in ToServer : Asking(k)'
                \/ \E x \in Stmts, types \in Seq(ServerTypes) : Answering(x, types)'
  BY <1>3, <1>5, AskingStep
<1>6. ASSUME NEW x \in Stmts, NEW types \in Seq(ServerTypes), Answering(x, types)
      PROVE  /\ c2s'.pc \in {"read", "Q", "write"}
             /\ \/ Resting' \/ Popping(x)'
                \/ \E rest \in Seq(ServerTypes) : Answering(x, rest)'
  BY <1>3, <1>6, AnsweringStep DEF Calm
<1>7. ASSUME NEW x \in Stmts, Popping(x) PROVE c2s'.pc \in {"read", "Q", "write"} /\ (Resting' \/ Popping(x)')
  BY <1>3, <1>7, PoppingStep DEF Calm
<1>8. QED
  BY <1>2, <1>4, <1>5, <1>6, <1>7 DEF PlainInv

\* What CapturedFaithful says of the queries, where Returns is has_returning.
PlainFaithful ==
    /\ Len(captured) <= Len(served)
    /\ \A i \in DOMAIN captured :
          /\ captured[i].sql = served[i].stmt
          /\ captured[i].is_error = ~served[i].ok
          /\ \A j \in DOMAIN captured[i].response_values :
                captured[i].response_values[j] = captured[i].sql /\ Returns(captured[i].sql)
    /\ Quiescent =>
          /\ Len(captured) = Len(served)
          /\ \A i \in DOMAIN captured :
                served[i].rows /\ Returns(captured[i].sql) => captured[i].response_values # <<>>

\* Right of every query says it, whatever is on its way.
LEMMA AllFaithful ==
  ASSUME captured \in Seq(Entries), served \in Seq(Served),
         Len(captured) = Len(served), Faithful(captured, served, Len(served))
  PROVE  PlainFaithful
<1>1. \A i \in DOMAIN captured : Right(captured[i], served[i])
  BY DEF Faithful
<1>2. QED
  BY <1>1 DEF Right, PlainFaithful

\* A session of simple queries is faithful in each of its stages; where
\* nothing moves it is in one where every answer is filed.
LEMMA QuietFaithful ==
  ASSUME Plain, PlainInv, captured \in Seq(Entries), served \in Seq(Served),
         Quiescent => Coming = <<>> /\ s2c.pc # "pop"
  PROVE  PlainFaithful
<1>1. CASE Resting
  BY <1>1, AllFaithful DEF Resting
<1>2. ASSUME NEW m \in ToServer, Asking(m)
      PROVE  PlainFaithful
  BY <1>2, AllFaithful DEF Asking
<1>3. ASSUME NEW x \in Stmts, NEW types \in Seq(ServerTypes), Answering(x, types)
      PROVE  PlainFaithful
  <2>1. Len(captured) \in Nat /\ Len(served) = Len(captured) + 1
    BY <1>3 DEF Answering
  <2>2. Faithful(captured, served, Len(captured))
    BY <1>3 DEF Answering
  <2>3. \A i \in DOMAIN captured : Right(captured[i], served[i])
    BY <2>1, <2>2 DEF Faithful
  <2>4. ~Quiescent
    <3>1. Len(Coming) # 0
      <4>1. Coming = Said([stmt |-> x], types)
        BY <1>3 DEF Answering
      <4>2. Len(types) # 0
        <5>1. \/ types = <<"T", "D", "D", "C", "Z">> \/ types = <<"D", "D", "C", "Z">>
              \/ types = <<"D", "C", "Z">> \/ types = <<"C", "Z">> \/ types = <<"E", "Z">>
          BY <1>3, Zenon DEF Answering
        <5>2. /\ Len(<<"T", "D", "D", "C", "Z">>) # 0 /\ Len(<<"D", "D", "C", "Z">>) # 0
              /\ Len(<<"D", "C", "Z">>) # 0
          OBVIOUS
        <5>3. Len(<<"C", "Z">>) # 0 /\ Len(<<"E", "Z">>) # 0
          OBVIOUS
        <5>4. QED
          BY <5>1, <5>2, <5>3, Zenon
      <4>3. QED
        BY <4>1, <4>2 DEF Said
    <3>2. Len(<<>>) = 0
      OBVIOUS
    <3>3. QED
      BY <3>1, <3>2
  <2>5. QED
    BY <2>1, <2>3, <2>4 DEF Right, PlainFaithful
<1>4. ASSUME NEW x \in Stmts, Popping(x)
      PROVE  PlainFaithful
  <2>1. Len(captured) \in Nat /\ Len(captured) = Len(served) /\ served # <<>>
    BY <1>4 DEF Popping
  <2>2. Faithful(captured, served, Len(captured) - 1)
    BY <1>4 DEF Popping
  <2>3. captured[Len(captured)] = Entry(x, FALSE, <<>>)
    BY <1>4 DEF Popping
  <2>4. served[Len(served)].stmt = x /\ served[Len(served)].ok
    BY <1>4 DEF Popping
  <2>5. \A c : c = Entry(x, FALSE, <<>>) =>
                 c.sql = x /\ c.is_error = FALSE /\ c.response_values = <<>>
    BY DEF Entry
  <2>6. DOMAIN <<>> = {}
    OBVIOUS
  <2>7. \A i \in DOMAIN captured : i # Len(captured) => Right(captured[i], served[i])
    BY <2>1, <2>2 DEF Faithful
  <2>8. ~Quiescent
    BY <1>4 DEF Popping
  <2>9. \A i \in DOMAIN captured :
          /\ captured[i].sql = served[i].stmt
          /\ captured[i].is_error = ~served[i].ok
          /\ \A j \in DOMAIN captured[i].response_values :
                captured[i].response_values[j] = captured[i].sql /\ Returns(captured[i].sql)
    <3>1. SUFFICES ASSUME NEW i \in DOMAIN captured
                   PROVE  /\ captured[i].sql = served[i].stmt
                          /\ captured[i].is_error = ~served[i].ok
                          /\ \A j \in DOMAIN captured[i].response_values :
                                captured[i].response_values[j] = captured[i].sql /\ Returns(captured[i].sql)
      OBVIOUS
    <3>2. CASE i # Len(captured)
      BY <2>7, <3>2 DEF Right
    <3>3. CASE i = Len(captured)
      <4>1. captured[i].sql = x /\ captured[i].is_error = FALSE /\ captured[i].response_values = <<>>
        BY <2>3, <2>5, <3>3, Zenon
      <4>2. served[i].stmt = x /\ served[i].ok
        BY <2>1, <2>4, <3>3
      <4>3. served[i].ok = TRUE
        <5>1. served[i] \in Served
          BY <2>1
        <5>2. QED
          BY <4>2, <5>1 DEF Served
      <4>4. QED
        BY <2>6, <4>1, <4>2, <4>3
    <3>4. QED
      BY <3>2, <3>3
  <2>10. QED
    BY <2>1, <2>8, <2>9 DEF PlainFaithful
<1>5. QED
  BY <1>1, <1>2, <1>3, <1>4 DEF PlainInv

\* What a client that waits has captured is what the server did: the relay
\* tasks agree through pending_describe, returning_queue and the event channel
\* although each of them reads its messages when it likes
\* (relay_client_to_server, relay_server_to_client, run_collector).
THEOREM CapturedCorrect == Spec => []CapturedFaithful
<1> DEFINE IInv == Balance /\ LookInv /\ LastInv /\ DescribeInv /\ CaptureShape /\ PlainInv
<1>1. Init => IInv
  <2> SUFFICES ASSUME Init PROVE IInv
    OBVIOUS
  <2>1. Balance /\ Up = <<>> /\ from_server = <<>> /\ s2c = Idle
    BY BalanceInit
  <2>2. Coming = <<>>
    <3>1. Taken = <<>>
      BY <2>1 DEF Taken, Idle
    <3>2. <<>> \o <<>> = <<>>
      OBVIOUS
    <3>3. QED
      BY <2>1, <3>1, <3>2 DEF Coming
  <2>3. LastInv
    BY <2>2 DEF LastInv
  <2>4. LookInv
    BY DEF Init, Idle, LookInv
  <2>5. DescribeInv
    <3>1. Count(Up, describes) = 0 /\ Count(Coming, descriptions) = 0
      BY <2>1, <2>2, CountEmpty
    <3>2. to_server = <<>> /\ c2s.pc = "read" /\ \A n \in Names : stmt_oids[n] = None
      BY DEF Init, Idle
    <3>3. QED
      BY <2>2, <3>1, <3>2 DEF DescribeInv, Filed
  <2>6. capture = [queries |-> <<>>, pending_sql |-> None]
    BY DEF Init, C!NewSession
  <2>7. CaptureShape
    <3>1. <<>> \in Seq(Entries)
      BY Concat
    <3>2. QED
      BY <2>6, <3>1 DEF CaptureShape
  <2>8. PlainInv
    <3>1. captured = <<>> /\ served = <<>> /\ Len(<<>>) = 0 /\ capture.pending_sql = None
      BY <2>6 DEF captured, Init
    <3>2. Faithful(captured, served, Len(served))
      BY <3>1 DEF Faithful
    <3>3. Resting
      BY <2>1, <2>2, <3>1, <3>2 DEF Resting, Waiting, Init, Idle
    <3>4. QED
      BY <3>3 DEF PlainInv, Init, Idle
  <2>9. QED
    BY <2>1, <2>3, <2>4, <2>5, <2>7, <2>8
<1>2. IInv /\ [Next]_vars => IInv'
  <2> SUFFICES ASSUME IInv, [Next]_vars PROVE IInv'
    OBVIOUS
  <2>1. Balance'
    BY BalanceStep
  <2>2. LookInv' /\ LastInv' /\ CaptureShape'
    BY LookStep, LastStep, CaptureStep DEF Balance
  <2>3. DescribeInv'
    BY DescribeStep DEF Balance
  <2>4. PlainInv'
    BY PlainStep DEF Balance
  <2>5. QED
    BY <2>1, <2>2, <2>3, <2>4
<1>3. IInv => CapturedFaithful
  <2> SUFFICES ASSUME IInv PROVE CapturedFaithful
    OBVIOUS
  <2>1. Waits => Filed
    BY DEF DescribeInv
  <2>2. captured \in Seq(Entries) /\ served \in Seq(Served)
    BY DEF Balance, Shape, WiresShape, CaptureShape, captured
  <2>3. Quiescent => Up = <<>> /\ Coming = <<>> /\ s2c.pc # "pop"
    <3>1. ASSUME Quiescent PROVE HeldC = <<>> /\ Taken = <<>> /\ to_server = <<>> /\ to_proxy = <<>> /\ from_server = <<>>
      BY <3>1 DEF Quiescent, HeldC, Taken
    <3>2. <<>> \o <<>> = <<>>
      OBVIOUS
    <3>3. QED
      BY <3>1, <3>2 DEF Up, Coming, Quiescent
  <2>4. CASE ~Plain
    BY <2>1, <2>4 DEF CapturedFaithful, Filed
  <2>5. CASE Plain
    <3>1. \A s \in Stmts : has_ret(s) = Returns(s)
      BY <2>5, PlainReturns DEF Balance
    <3>2. PlainFaithful
      BY <2>2, <2>3, <2>5, QuietFaithful
    <3>3. \A i \in DOMAIN captured : captured[i].sql \in Stmts
      <4>1. SUFFICES ASSUME NEW i \in DOMAIN captured PROVE captured[i].sql \in Stmts
        OBVIOUS
      <4>2. PICK q \in Seq(Entries) : q = captured
        BY <2>2, Zenon
      <4>3. \A k \in DOMAIN q : q[k].sql \in Stmts
        <5>1. \A k \in DOMAIN q : q[k] \in Entries
          OBVIOUS
        <5>2. \A c \in Entries : c.sql \in Stmts
          BY DEF Entries
        <5>3. QED
          BY <5>1, <5>2, Zenon
      <4>4. QED
        BY <4>1, <4>2, <4>3, Zenon
    <3>4. QED
      BY <2>1, <3>1, <3>2, <3>3 DEF CapturedFaithful, Filed, PlainFaithful, captured
  <2>6. QED
    BY <2>4, <2>5
<1>4. QED
  BY <1>1, <1>2, <1>3, PTL DEF Spec
=============================================================================
