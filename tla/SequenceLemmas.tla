--------------------------- MODULE SequenceLemmas ---------------------------
(***************************************************************************)
(* Facts on numbers, sequences and FlattenSeq that several of the proofs   *)
(* cite.  The library's induction theorems take an operator as parameter;  *)
(* here the least number that is not in a set takes their place.           *)
(***************************************************************************)
EXTENDS Integers, Sequences, SequencesExt, SequenceTheorems, WellFoundedInduction, TLAPS

----------------------------------------------------------------------------
(* Numbers and sequences *)

LEMMA LeastNat ==
    ASSUME NEW T, T \subseteq Nat, T # {}
    PROVE  \E m \in T : \A n \in T : m <= n
<1> DEFINE R == OpToRel(<, Nat)
<1>1. PICK m \in T : \A n \in T : ~ (<<n, m>> \in R)
  BY NatLessThanWellFounded, WFMin
<1>2. \A k, n \in Nat : <<n, k>> \in R <=> n < k
  BY DEF OpToRel
<1> HIDE DEF R
<1>3. ASSUME NEW n \in T
      PROVE  m <= n
  <2>1. ~ (n < m)
    BY <1>1, <1>2, Zenon
  <2>2. n \in Nat /\ m \in Nat
    OBVIOUS
  <2>3. QED
    BY <2>1, <2>2
<1>4. QED
  BY <1>3

\* What is true at 0 and goes on from one number to the next is true up to n.
LEMMA Upwards ==
    ASSUME NEW n \in Nat, NEW G, 0 \in G, \A k \in 1 .. n : k - 1 \in G => k \in G
    PROVE  \A k \in 0 .. n : k \in G
<1> DEFINE T == {k \in 0 .. n : k \notin G}
<1>1. CASE T = {}
  BY <1>1
<1>2. CASE T # {}
  <2>1. T \subseteq Nat
    <3>1. T \subseteq 0 .. n
      BY Zenon
    <3>2. 0 .. n \subseteq Nat
      OBVIOUS
    <3>3. QED
      BY <3>1, <3>2, Zenon
  <2>2. PICK m \in T : \A i \in T : m <= i
    BY <1>2, <2>1, LeastNat, Zenon
  <2>3. m \in 0 .. n /\ m \notin G
    OBVIOUS
  <2>4. m # 0
    BY <2>3
  <2>5. m \in 1 .. n /\ m - 1 \in 0 .. n /\ ~(m <= m - 1)
    BY <2>3, <2>4
  <2>6. m - 1 \notin G
    BY <2>3, <2>5
  <2>7. m - 1 \in T
    BY <2>5, <2>6
  <2>8. QED
    BY <2>2, <2>5, <2>7
<1>3. QED
  BY <1>1, <1>2

\* Three texts, joined in either order.
ThreeAlike(a, b, c) == (a \o b) \o c = a \o (b \o c)

LEMMA ThreeTexts ==
    ASSUME NEW S, NEW a \in Seq(S), NEW b \in Seq(S), NEW c \in Seq(S)
    PROVE  ThreeAlike(a, b, c)
BY ConcatAssociative DEF ThreeAlike

LEMMA Associative == \A S : \A a, b, c \in Seq(S) : ThreeAlike(a, b, c)
BY ThreeTexts, Zenon

LEMMA SeqSame ==
    ASSUME NEW S, NEW a \in Seq(S), NEW b \in Seq(S), Len(a) = Len(b),
           \A i \in 1 .. Len(a) : a[i] = b[i]
    PROVE  a = b
BY LenProperties

LEMMA FirstOf ==
    ASSUME NEW S, NEW q \in Seq(S), q # <<>>
    PROVE  /\ Head(q) = q[1] /\ q[1] \in S /\ Len(q) \in Nat \ {0} /\ 1 \in 1 .. Len(q)
           /\ Tail(q) \in Seq(S) /\ Len(Tail(q)) = Len(q) - 1
           /\ \A i \in 1 .. Len(q) - 1 : Tail(q)[i] = q[i + 1]
BY HeadTailProperties, LenProperties, EmptySeq

\* All but the last, and the last.
LEMMA LastOf ==
    ASSUME NEW S, NEW q \in Seq(S), q # <<>>
    PROVE  Front(q) \in Seq(S) /\ Last(q) \in S /\ q = Append(Front(q), Last(q)) /\ Last(q) = q[Len(q)]
<1>1. Len(q) \in Nat /\ Len(q) # 0 /\ \A i \in 1 .. Len(q) : q[i] \in S
  BY LenProperties, ElementOfSeq, EmptySeq
<1>2. PICK p, l : p = SubSeq(q, 1, Len(q) - 1) /\ l = q[Len(q)]
  OBVIOUS
<1>3. /\ 1 \in Int /\ Len(q) - 1 \in Int /\ Len(q) \in 1 .. Len(q)
      /\ \A i \in 1 .. Len(q) - 1 : q[i] \in S
  BY <1>1
<1>4. /\ p \in Seq(S) /\ Len(p) = IF 1 <= Len(q) - 1 THEN (Len(q) - 1) - 1 + 1 ELSE 0
      /\ \A i \in 1 .. (Len(q) - 1) - 1 + 1 : p[i] = q[1 + i - 1]
  BY <1>2, <1>3, SubSeqProperties
<1>5. /\ Len(p) = Len(q) - 1 /\ (Len(q) - 1) - 1 + 1 = Len(q) - 1
      /\ \A i \in 1 .. Len(q) - 1 : 1 + i - 1 = i
  <2>1. PICK n, k : n = Len(q) /\ k = Len(p)
    OBVIOUS
  <2>2. n \in Nat /\ n # 0 /\ k = IF 1 <= n - 1 THEN (n - 1) - 1 + 1 ELSE 0
    BY <1>1, <1>4, <2>1
  <2>3. k = n - 1 /\ (n - 1) - 1 + 1 = n - 1 /\ \A i \in 1 .. n - 1 : 1 + i - 1 = i
    BY <2>2
  <2>4. QED
    BY <2>1, <2>3
<1>6. \A i \in 1 .. Len(q) - 1 : p[i] = q[i]
  BY <1>4, <1>5
<1>7. PICK a : a = Append(p, l)
  OBVIOUS
<1>8. l \in S
  BY <1>1, <1>2, <1>3
<1>9. /\ a \in Seq(S) /\ Len(a) = Len(p) + 1 /\ (\A i \in 1 .. Len(p) : a[i] = p[i])
      /\ a[Len(p) + 1] = l
  BY <1>4, <1>7, <1>8, AppendProperties
<1>10. Len(a) = Len(q)
  BY <1>1, <1>5, <1>9
<1>11. ASSUME NEW i \in 1 .. Len(q)
       PROVE  q[i] = a[i]
  <2>1. i = Len(q) \/ i \in 1 .. Len(q) - 1
    BY <1>1
  <2>2. Len(p) + 1 = Len(q)
    BY <1>1, <1>5
  <2>3. QED
    BY <1>2, <1>5, <1>6, <1>9, <2>1, <2>2
<1>12. q = a
  BY <1>9, <1>10, <1>11, SeqSame
<1>13. QED
  BY <1>2, <1>4, <1>7, <1>8, <1>12 DEF Front, Last

\* x in front of t.
LEMMA InFront ==
    ASSUME NEW S, NEW x \in S, NEW t \in Seq(S)
    PROVE  /\ <<x>> \o t \in Seq(S) /\ Len(<<x>> \o t) = Len(t) + 1
           /\ <<x>> \o t # <<>> /\ (<<x>> \o t)[1] = x /\ Head(<<x>> \o t) = x
           /\ \A i \in 2 .. Len(t) + 1 : (<<x>> \o t)[i] = t[i - 1]
           /\ Tail(<<x>> \o t) = t
<1>1. <<x>> \in Seq(S) /\ Len(<<x>>) = 1 /\ <<x>>[1] = x /\ Len(t) \in Nat
  BY LenProperties
<1>2. PICK c : c = <<x>> \o t
  OBVIOUS
<1>3. c \in Seq(S) /\ Len(c) = 1 + Len(t)
      /\ \A i \in 1 .. 1 + Len(t) : c[i] = IF i <= 1 THEN <<x>>[i] ELSE t[i - 1]
  BY <1>1, <1>2, ConcatProperties
<1>4. /\ c # <<>> /\ 1 \in 1 .. 1 + Len(t) /\ 1 <= 1
      /\ \A i \in 2 .. Len(t) + 1 : i \in 1 .. 1 + Len(t) /\ ~(i <= 1)
  BY <1>1, <1>3
<1>5. c[1] = x /\ \A i \in 2 .. Len(t) + 1 : c[i] = t[i - 1]
  BY <1>1, <1>3, <1>4
<1>6. PICK d : d = Tail(c)
  OBVIOUS
<1>7. d \in Seq(S) /\ Len(d) = Len(c) - 1 /\ Head(c) = c[1]
      /\ \A i \in 1 .. Len(c) - 1 : d[i] = c[i + 1]
  BY <1>3, <1>4, <1>6, FirstOf
<1>8. d = t
  <2>1. Len(d) = Len(t)
    BY <1>1, <1>3, <1>7
  <2>2. \A i \in 1 .. Len(t) : i \in 1 .. Len(c) - 1 /\ i + 1 \in 2 .. Len(t) + 1 /\ (i + 1) - 1 = i
    BY <1>1, <1>3
  <2>3. \A i \in 1 .. Len(t) : d[i] = t[i]
    BY <1>5, <1>7, <2>2
  <2>4. QED
    BY <1>7, <2>1, <2>3, SeqSame
<1>9. QED
  BY <1>1, <1>2, <1>3, <1>4, <1>5, <1>6, <1>7, <1>8

\* The whole of a text, and nothing of it.
LEMMA WholePart ==
    ASSUME NEW S, NEW q \in Seq(S)
    PROVE  SubSeq(q, 1, Len(q)) = q /\ SubSeq(q, 1, 0) = <<>>
BY SubSeqFull, SubSeqEmpty

----------------------------------------------------------------------------
(* A sequence of texts, joined *)

\* f[i] is the text of the first i elements of q.
Flattens(q, f) == f = [i \in 1 .. Len(q) |-> IF i = 1 THEN q[i] ELSE f[i - 1] \o q[i]]
Flattening(q) == CHOOSE f : Flattens(q, f)

LEMMA FlattenedIs == \A q : FlattenSeq(q) = IF Len(q) = 0 THEN q ELSE Flattening(q)[Len(q)]
BY Zenon DEF FlattenSeq, Flattening, Flattens

LEMMA FlattensUnique ==
    ASSUME NEW q, Len(q) \in Nat, NEW f, NEW g, Flattens(q, f), Flattens(q, g)
    PROVE  f = g
<1> DEFINE T == {i \in 1 .. Len(q) : f[i] # g[i]}
<1>1. /\ f = [i \in 1 .. Len(q) |-> f[i]] /\ g = [i \in 1 .. Len(q) |-> g[i]]
      /\ \A i \in 1 .. Len(q) : /\ f[i] = IF i = 1 THEN q[i] ELSE f[i - 1] \o q[i]
                                /\ g[i] = IF i = 1 THEN q[i] ELSE g[i - 1] \o q[i]
  BY DEF Flattens
<1>2. CASE T = {}
  BY <1>1, <1>2
<1>3. CASE T # {}
  <2>1. T \subseteq Nat
    <3>1. T \subseteq 1 .. Len(q)
      BY Zenon
    <3>2. 1 .. Len(q) \subseteq Nat
      OBVIOUS
    <3>3. QED
      BY <3>1, <3>2, Zenon
  <2>2. PICK m \in T : \A i \in T : m <= i
    BY <1>3, <2>1, LeastNat, Zenon
  <2>3. m \in 1 .. Len(q) /\ f[m] # g[m]
    OBVIOUS
  <2>4. m # 1 => m - 1 \in 1 .. Len(q) /\ ~(m <= m - 1)
    BY <2>3
  <2>5. m # 1 => f[m - 1] = g[m - 1]
    BY <2>2, <2>4
  <2>6. f[m] = (IF m = 1 THEN q[m] ELSE f[m - 1] \o q[m])
    BY <1>1, <2>3, Zenon
  <2>7. g[m] = (IF m = 1 THEN q[m] ELSE g[m - 1] \o q[m])
    BY <1>1, <2>3, Zenon
  <2>8. f[m] = g[m]
    <3>1. CASE m = 1
      BY <2>6, <2>7, <3>1
    <3>2. CASE m # 1
      <4>1. f[m - 1] = g[m - 1]
        BY <2>5, <3>2
      <4>2. f[m] = f[m - 1] \o q[m] /\ g[m] = g[m - 1] \o q[m]
        BY <2>6, <2>7, <3>2, Zenon
      <4>3. QED
        BY <4>1, <4>2
    <3>3. QED
      BY <3>1, <3>2
  <2>9. QED
    BY <2>3, <2>8
<1>4. QED
  BY <1>2, <1>3

LEMMA FlattensExists ==
    ASSUME NEW q, Len(q) \in Nat
    PROVE  \E f : Flattens(q, f)
<1> DEFINE Part(n, f) == f = [i \in 1 .. n |-> IF i = 1 THEN q[i] ELSE f[i - 1] \o q[i]]
           T == {n \in 0 .. Len(q) : ~ \E f : Part(n, f)}
<1>1. CASE T = {}
  <2>1. Len(q) \in 0 .. Len(q)
    OBVIOUS
  <2>2. \E f : Part(Len(q), f)
    BY <1>1, <2>1
  <2>3. QED
    BY <2>2 DEF Flattens
<1>2. CASE T # {}
  <2>1. T \subseteq Nat
    <3>1. T \subseteq 0 .. Len(q)
      BY Zenon
    <3>2. 0 .. Len(q) \subseteq Nat
      OBVIOUS
    <3>3. QED
      BY <3>1, <3>2, Zenon
  <2>2. PICK m \in T : \A i \in T : m <= i
    BY <1>2, <2>1, LeastNat, Zenon
  <2>3. m \in 0 .. Len(q) /\ ~ \E f : Part(m, f)
    OBVIOUS
  <2>4. CASE m = 0
    <3> DEFINE g == [i \in 1 .. m |-> <<>>]
    <3>1. \A i \in 1 .. m : FALSE
      BY <2>4
    <3>2. Part(m, g)
      BY <3>1
    <3>3. QED
      BY <2>3, <3>2
  <2>5. CASE m # 0
    <3>1. m - 1 \in 0 .. Len(q) /\ ~(m <= m - 1)
      BY <2>3, <2>5
    <3>2. PICK f : Part(m - 1, f)
      BY <2>2, <3>1
    <3> DEFINE g == [i \in 1 .. m |-> IF i = m THEN (IF i = 1 THEN q[i] ELSE f[m - 1] \o q[m]) ELSE f[i]]
    <3>3. \A i \in 1 .. m - 1 : f[i] = IF i = 1 THEN q[i] ELSE f[i - 1] \o q[i]
      BY <3>2
    <3>4. ASSUME NEW i \in 1 .. m
          PROVE  g[i] = IF i = 1 THEN q[i] ELSE g[i - 1] \o q[i]
      <4>1. CASE i = 1
        <5>1. g[i] = IF i = m THEN q[i] ELSE f[i]
          BY <4>1
        <5>2. i # m => i \in 1 .. m - 1
          BY <2>3, <4>1
        <5> HIDE DEF g
        <5>3. QED
          BY <3>3, <4>1, <5>1, <5>2
      <4>2. CASE i = m /\ i # 1
        <5>1. i - 1 \in 1 .. m /\ i - 1 # m
          BY <2>3, <4>2
        <5>2. g[i - 1] = f[m - 1] /\ g[i] = f[m - 1] \o q[m]
          BY <4>2, <5>1
        <5> HIDE DEF g
        <5>3. QED
          BY <4>2, <5>2
      <4>3. CASE i # m /\ i # 1
        <5>1. i \in 1 .. m - 1 /\ i - 1 \in 1 .. m /\ i - 1 # m
          BY <2>3, <4>3
        <5>2. g[i] = f[i] /\ g[i - 1] = f[i - 1]
          BY <4>3, <5>1
        <5> HIDE DEF g
        <5>3. QED
          BY <3>3, <4>3, <5>1, <5>2
      <4>4. QED
        BY <4>1, <4>2, <4>3
    <3>5. g = [i \in 1 .. m |-> g[i]]
      OBVIOUS
    <3>6. Part(m, g)
      <4> HIDE DEF g
      <4>1. QED
        BY <3>4, <3>5
    <3>7. QED
      BY <2>3, <3>6
  <2>6. QED
    BY <2>4, <2>5
<1>3. QED
  BY <1>1, <1>2

LEMMA FlatteningIs ==
    ASSUME NEW q, Len(q) \in Nat
    PROVE  /\ Flattens(q, Flattening(q))
           /\ \A i \in 1 .. Len(q) : Flattening(q)[i] = IF i = 1 THEN q[i] ELSE Flattening(q)[i - 1] \o q[i]
<1>1. Flattens(q, Flattening(q))
  BY FlattensExists, Zenon DEF Flattening
<1>2. PICK f : f = Flattening(q)
  OBVIOUS
<1>3. f = [i \in 1 .. Len(q) |-> IF i = 1 THEN q[i] ELSE f[i - 1] \o q[i]]
  BY <1>1, <1>2 DEF Flattens
<1>4. \A i \in 1 .. Len(q) : f[i] = IF i = 1 THEN q[i] ELSE f[i - 1] \o q[i]
  BY <1>3
<1>5. QED
  BY <1>1, <1>2, <1>4

\* What is joined is a text.
LEMMA FlatType ==
    ASSUME NEW U, NEW q \in Seq(Seq(U))
    PROVE  /\ FlattenSeq(q) \in Seq(U)
           /\ \A i \in 1 .. Len(q) : Flattening(q)[i] \in Seq(U)
<1>1. Len(q) \in Nat /\ (Len(q) = 0 => q = <<>>) /\ \A i \in 1 .. Len(q) : q[i] \in Seq(U)
  BY LenProperties, ElementOfSeq, EmptySeq
<1>2. PICK f : f = Flattening(q)
  OBVIOUS
<1>3. \A i \in 1 .. Len(q) : f[i] = IF i = 1 THEN q[i] ELSE f[i - 1] \o q[i]
  BY <1>1, <1>2, FlatteningIs
<1> DEFINE T == {i \in 1 .. Len(q) : f[i] \notin Seq(U)}
<1>4. T = {}
  <2>1. SUFFICES ASSUME T # {}
                 PROVE  FALSE
    OBVIOUS
  <2>2. T \subseteq Nat
    <3>1. T \subseteq 1 .. Len(q)
      BY Zenon
    <3>2. 1 .. Len(q) \subseteq Nat
      OBVIOUS
    <3>3. QED
      BY <3>1, <3>2, Zenon
  <2>3. PICK m \in T : \A i \in T : m <= i
    BY <2>1, <2>2, LeastNat, Zenon
  <2>4. m \in 1 .. Len(q) /\ f[m] \notin Seq(U)
    OBVIOUS
  <2>5. m # 1 => m - 1 \in 1 .. Len(q) /\ ~(m <= m - 1)
    BY <2>4
  <2>6. m # 1 => f[m - 1] \in Seq(U)
    BY <2>3, <2>5
  <2>7. m # 1 => f[m] = f[m - 1] \o q[m]
    BY <1>3, <2>4
  <2>8. m # 1 => f[m] \in Seq(U)
    BY <1>1, <2>4, <2>6, <2>7, ConcatProperties
  <2>9. m = 1 => f[m] \in Seq(U)
    BY <1>1, <1>3, <2>4
  <2>10. QED
    BY <2>4, <2>8, <2>9
<1>5. FlattenSeq(q) = IF Len(q) = 0 THEN q ELSE f[Len(q)]
  BY <1>2, FlattenedIs
<1>6. Len(q) # 0 => Len(q) \in 1 .. Len(q)
  BY <1>1
<1>7. QED
  <2>1. \A i \in 1 .. Len(q) : f[i] \in Seq(U)
    BY <1>4
  <2> HIDE DEF T
  <2>2. FlattenSeq(q) \in Seq(U)
    BY <1>1, <1>5, <1>6, <2>1, EmptySeq
  <2>3. QED
    BY <1>2, <2>1, <2>2

LEMMA FlatEmpty == FlattenSeq(<<>>) = <<>>
<1>1. Len(<<>>) = 0
  OBVIOUS
<1>2. QED
  BY <1>1, FlattenedIs

\* One more text at the end.
LEMMA FlatAppend ==
    ASSUME NEW U, NEW q \in Seq(Seq(U)), NEW t \in Seq(U)
    PROVE  FlattenSeq(Append(q, t)) = FlattenSeq(q) \o t
<1>1. PICK a : a = Append(q, t)
  OBVIOUS
<1>2. Len(q) \in Nat /\ (Len(q) = 0 => q = <<>>) /\ Len(a) = Len(q) + 1
      /\ (\A i \in 1 .. Len(q) : a[i] = q[i]) /\ a[Len(q) + 1] = t
  BY <1>1, LenProperties, AppendProperties, EmptySeq
<1>3. PICK f, g : f = Flattening(q) /\ g = Flattening(a)
  OBVIOUS
<1>4. Len(a) \in Nat
  BY <1>2
<1>5. /\ Flattens(q, f)
      /\ \A i \in 1 .. Len(a) : g[i] = IF i = 1 THEN a[i] ELSE g[i - 1] \o a[i]
  BY <1>2, <1>3, <1>4, FlatteningIs
<1> DEFINE h == [i \in 1 .. Len(q) |-> g[i]]
<1>6. ASSUME NEW i \in 1 .. Len(q)
      PROVE  h[i] = IF i = 1 THEN q[i] ELSE h[i - 1] \o q[i]
  <2>1. i \in 1 .. Len(a) /\ a[i] = q[i] /\ (i # 1 => i - 1 \in 1 .. Len(q))
    BY <1>2
  <2>2. h[i] = g[i] /\ (i # 1 => h[i - 1] = g[i - 1])
    BY <2>1
  <2> HIDE DEF h
  <2>3. QED
    BY <1>5, <2>1, <2>2
<1>7. Flattens(q, h)
  <2>1. h = [i \in 1 .. Len(q) |-> h[i]]
    OBVIOUS
  <2> HIDE DEF h
  <2>2. QED
    BY <1>6, <2>1 DEF Flattens
<1>8. f = h
  <2> HIDE DEF h
  <2>1. QED
    BY <1>2, <1>5, <1>7, FlattensUnique
<1>9. FlattenSeq(q) = (IF Len(q) = 0 THEN q ELSE f[Len(q)]) /\ FlattenSeq(a) = g[Len(a)]
  <2>1. Len(a) # 0
    BY <1>2
  <2>2. QED
    BY <1>3, <2>1, FlattenedIs
<1>10. CASE Len(q) = 0
  <2>1. Len(a) = 1 /\ 1 \in 1 .. Len(a) /\ a[1] = t
    BY <1>2, <1>10
  <2>2. g[1] = t
    BY <1>5, <2>1
  <2>3. FlattenSeq(q) = <<>>
    BY <1>2, <1>9, <1>10
  <2>4. <<>> \o t = t
    BY ConcatEmptySeq
  <2>5. QED
    BY <1>1, <1>9, <2>1, <2>2, <2>3, <2>4
<1>11. CASE Len(q) # 0
  <2>1. Len(a) \in 1 .. Len(a) /\ Len(a) # 1 /\ Len(a) - 1 = Len(q) /\ Len(q) \in 1 .. Len(q)
    BY <1>2, <1>11
  <2>2. g[Len(a)] = g[Len(q)] \o a[Len(a)]
    BY <1>5, <2>1
  <2>3. f[Len(q)] = g[Len(q)] /\ a[Len(a)] = t
    BY <1>2, <1>8, <2>1
  <2>4. QED
    BY <1>1, <1>9, <1>11, <2>2, <2>3
<1>12. QED
  BY <1>10, <1>11

\* More text in the last one.
LEMMA FlatReplaceLast ==
    ASSUME NEW U, NEW q \in Seq(Seq(U)), q # <<>>, NEW t \in Seq(U)
    PROVE  /\ Front(q) \o <<Last(q) \o t>> \in Seq(Seq(U))
           /\ FlattenSeq(Front(q) \o <<Last(q) \o t>>) = FlattenSeq(q) \o t
<1>1. PICK p, l : p = Front(q) /\ l = Last(q)
  OBVIOUS
<1>2. p \in Seq(Seq(U)) /\ l \in Seq(U) /\ q = Append(p, l)
  BY <1>1, LastOf
<1>3. l \o t \in Seq(U)
  BY <1>2, ConcatProperties
<1>4. p \o <<l \o t>> = Append(p, l \o t) /\ Append(p, l \o t) \in Seq(Seq(U))
  BY <1>2, <1>3, AppendIsConcat, AppendProperties
<1>5. FlattenSeq(q) = FlattenSeq(p) \o l /\ FlattenSeq(Append(p, l \o t)) = FlattenSeq(p) \o (l \o t)
  BY <1>2, <1>3, FlatAppend
<1>6. FlattenSeq(p) \in Seq(U)
  BY <1>2, FlatType
<1>7. FlattenSeq(p) \o (l \o t) = (FlattenSeq(p) \o l) \o t
  BY <1>2, <1>6, ConcatAssociative, SMTT(30)
<1>8. QED
  BY <1>1, <1>4, <1>5, <1>7

\* The first text, and the rest.
LEMMA FlatHead ==
    ASSUME NEW U, NEW q \in Seq(Seq(U)), q # <<>>
    PROVE  FlattenSeq(q) = Head(q) \o FlattenSeq(Tail(q))
<1>0. \A a, b, c \in Seq(U) : (a \o b) \o c = a \o (b \o c)
  <2>1. \A a, b, c \in Seq(U) : ThreeAlike(a, b, c)
    BY Associative, Zenon
  <2>2. QED
    BY <2>1, Zenon DEF ThreeAlike
<1>1. PICK r, h : r = Tail(q) /\ h = Head(q)
  OBVIOUS
<1>2. /\ Len(q) \in Nat \ {0} /\ r \in Seq(Seq(U)) /\ Len(r) = Len(q) - 1 /\ h = q[1] /\ h \in Seq(U)
      /\ \A i \in 1 .. Len(q) - 1 : r[i] = q[i + 1]
  BY <1>1, FirstOf
<1>3. Len(r) \in Nat /\ (Len(r) = 0 => r = <<>>) /\ \A i \in 1 .. Len(r) : r[i] \in Seq(U)
  BY <1>2, LenProperties, ElementOfSeq, EmptySeq
<1>4. PICK f : f = Flattening(r)
  OBVIOUS
<1>5. \A i \in 1 .. Len(r) : f[i] \in Seq(U) /\ f[i] = IF i = 1 THEN r[i] ELSE f[i - 1] \o r[i]
  BY <1>2, <1>3, <1>4, FlatteningIs, FlatType
<1> DEFINE g == [i \in 1 .. Len(q) |-> IF i = 1 THEN h ELSE h \o f[i - 1]]
<1>6. ASSUME NEW i \in 1 .. Len(q)
      PROVE  g[i] = IF i = 1 THEN q[i] ELSE g[i - 1] \o q[i]
  <2>1. CASE i = 1
    <3>1. g[i] = h
      BY <2>1
    <3> HIDE DEF g
    <3>2. QED
      BY <1>2, <2>1, <3>1
  <2>2. CASE i = 2
    <3>1. 1 \in 1 .. Len(q) /\ 1 \in 1 .. Len(r) /\ i # 1 /\ i - 1 = 1 /\ 1 \in 1 .. Len(q) - 1 /\ 1 + 1 = i
      BY <1>2, <2>2
    <3>2. g[i] = h \o f[1] /\ g[1] = h
      BY <2>2, <3>1
    <3> HIDE DEF g
    <3>3. f[1] = q[i]
      BY <1>2, <1>5, <3>1
    <3>4. QED
      BY <3>1, <3>2, <3>3
  <2>3. CASE i # 1 /\ i # 2
    <3>1. /\ i - 1 \in 1 .. Len(q) /\ i - 1 # 1 /\ i - 1 \in 1 .. Len(r) /\ (i - 1) - 1 \in 1 .. Len(r)
          /\ i - 1 \in 1 .. Len(q) - 1 /\ (i - 1) + 1 = i
      BY <1>2, <2>3
    <3>2. g[i] = h \o f[i - 1] /\ g[i - 1] = h \o f[(i - 1) - 1]
      BY <2>3, <3>1
    <3> HIDE DEF g
    <3>3. f[i - 1] = f[(i - 1) - 1] \o r[i - 1] /\ r[i - 1] = q[i]
      BY <1>2, <1>5, <3>1
    <3>4. f[(i - 1) - 1] \in Seq(U) /\ r[i - 1] \in Seq(U)
      BY <1>3, <1>5, <3>1
    <3>5. (h \o f[(i - 1) - 1]) \o r[i - 1] = h \o (f[(i - 1) - 1] \o r[i - 1])
      <4>1. PICK x, y : x = f[(i - 1) - 1] /\ y = r[i - 1]
        OBVIOUS
      <4>2. h \in Seq(U) /\ x \in Seq(U) /\ y \in Seq(U)
        BY <1>2, <3>4, <4>1
      <4>3. (h \o x) \o y = h \o (x \o y)
        BY <4>2, <1>0
      <4>4. QED
        BY <4>1, <4>3
    <3>6. QED
      BY <2>3, <3>2, <3>3, <3>5
  <2>4. QED
    BY <2>1, <2>2, <2>3
<1>7. g = [i \in 1 .. Len(q) |-> g[i]]
  OBVIOUS
<1>8. 1 \in 1 .. Len(q) => g[1] = h
  OBVIOUS
<1>9. Len(q) \in 1 .. Len(q) /\ Len(q) # 1 => g[Len(q)] = h \o f[Len(q) - 1]
  OBVIOUS
<1> HIDE DEF g
<1>10. Flattens(q, g)
  BY <1>6, <1>7 DEF Flattens
<1>11. Flattens(q, Flattening(q))
  BY <1>2, FlatteningIs
<1>12. Flattening(q) = g
  <2>1. Len(q) \in Nat
    BY <1>2
  <2>2. QED
    BY <1>10, <1>11, <2>1, FlattensUnique
<1>13. FlattenSeq(q) = g[Len(q)] /\ FlattenSeq(r) = IF Len(r) = 0 THEN r ELSE f[Len(r)]
  <2>1. Len(q) # 0
    BY <1>2
  <2>2. QED
    BY <1>4, <1>12, <2>1, FlattenedIs
<1>14. CASE Len(q) = 1
  <2>1. Len(r) = 0 /\ 1 \in 1 .. Len(q)
    BY <1>2, <1>14
  <2>2. FlattenSeq(r) = <<>> /\ FlattenSeq(q) = h
    BY <1>3, <1>8, <1>13, <1>14, <2>1
  <2>3. h \o <<>> = h
    BY <1>2, ConcatEmptySeq
  <2>4. QED
    BY <1>1, <2>2, <2>3
<1>15. CASE Len(q) # 1
  <2>1. Len(q) \in 1 .. Len(q) /\ Len(r) # 0 /\ Len(q) - 1 = Len(r)
    BY <1>2, <1>15
  <2>2. FlattenSeq(r) = f[Len(r)] /\ FlattenSeq(q) = h \o f[Len(r)]
    BY <1>9, <1>13, <1>15, <2>1
  <2>3. QED
    BY <1>1, <2>2
<1>16. QED
  BY <1>14, <1>15

LEMMA ListIs ==
    ASSUME NEW S, NEW n \in Nat, NEW q \in [1 .. n -> S]
    PROVE  q \in Seq(S) /\ Len(q) = n
OBVIOUS

LEMMA FlatOne ==
    ASSUME NEW U, NEW t \in Seq(U)
    PROVE  FlattenSeq(<<t>>) = t
<1>1. <<>> \in Seq(Seq(U)) /\ Append(<<>>, t) = <<t>> /\ <<>> \in Seq(U)
  BY EmptySeq
<1>2. FlattenSeq(<<t>>) = <<>> \o t
  BY <1>1, FlatAppend, FlatEmpty
<1>3. QED
  BY <1>2, ConcatEmptySeq

\* A list has more elements at its end, one at a time.
LEMMA PartAppend ==
    ASSUME NEW S, NEW q \in Seq(S), NEW k \in 1 .. Len(q)
    PROVE  /\ SubSeq(q, 1, k - 1) \in Seq(S) /\ q[k] \in S
           /\ SubSeq(q, 1, k) = Append(SubSeq(q, 1, k - 1), q[k])
<1>1. Len(q) \in Nat /\ q[k] \in S /\ \A i \in 1 .. Len(q) : q[i] \in S
  BY LenProperties, ElementOfSeq
<1>2. PICK p, r : p = SubSeq(q, 1, k - 1) /\ r = SubSeq(q, 1, k)
  OBVIOUS
<1>3. p \in Seq(S) /\ Len(p) = k - 1 /\ \A i \in 1 .. k - 1 : p[i] = q[i]
  BY <1>1, <1>2
<1>4. r \in Seq(S) /\ Len(r) = k /\ \A i \in 1 .. k : r[i] = q[i]
  BY <1>1, <1>2
<1>5. PICK a : a = Append(p, q[k])
  OBVIOUS
<1>6. /\ a \in Seq(S) /\ Len(a) = Len(p) + 1 /\ (\A i \in 1 .. Len(p) : a[i] = p[i])
      /\ a[Len(p) + 1] = q[k]
  BY <1>1, <1>3, <1>5, AppendProperties
<1>7. Len(a) = k /\ \A i \in 1 .. k : r[i] = a[i]
  <2>1. Len(p) + 1 = k /\ \A i \in 1 .. k : i = k \/ i \in 1 .. k - 1
    BY <1>1, <1>3
  <2>2. QED
    BY <1>3, <1>4, <1>6, <2>1
<1>8. a = r
  BY <1>4, <1>6, <1>7, SeqSame
<1>9. QED
  BY <1>1, <1>2, <1>3, <1>5, <1>8

\* One list of texts behind another.
LEMMA FlatBoth ==
    ASSUME NEW U, NEW a \in Seq(Seq(U)), NEW b \in Seq(Seq(U))
    PROVE  FlattenSeq(a \o b) = FlattenSeq(a) \o FlattenSeq(b)
<1>0. Len(b) \in Nat /\ FlattenSeq(a) \in Seq(U)
  BY LenProperties, FlatType
<1> DEFINE G == {k \in 0 .. Len(b) : FlattenSeq(a \o SubSeq(b, 1, k)) = FlattenSeq(a) \o FlattenSeq(SubSeq(b, 1, k))}
<1>1. 0 \in G
  <2>1. SubSeq(b, 1, 0) = <<>> /\ 0 \in 0 .. Len(b)
    BY <1>0, WholePart
  <2>2. a \o <<>> = a /\ FlattenSeq(a) \o <<>> = FlattenSeq(a)
    BY <1>0, ConcatEmptySeq
  <2>3. QED
    BY <2>1, <2>2, FlatEmpty
<1>2. ASSUME NEW k \in 1 .. Len(b), k - 1 \in G
      PROVE  k \in G
  <2>1. PICK p : p = SubSeq(b, 1, k - 1)
    OBVIOUS
  <2>2. p \in Seq(Seq(U)) /\ b[k] \in Seq(U) /\ SubSeq(b, 1, k) = Append(p, b[k])
    BY <2>1, PartAppend
  <2>3. a \o Append(p, b[k]) = Append(a \o p, b[k]) /\ a \o p \in Seq(Seq(U))
    <3>1. <<b[k]>> \in Seq(Seq(U)) /\ a \o p \in Seq(Seq(U))
      BY <2>2, ConcatProperties
    <3>2. Append(p, b[k]) = p \o <<b[k]>> /\ Append(a \o p, b[k]) = (a \o p) \o <<b[k]>>
      BY <2>2, <3>1, AppendIsConcat
    <3>3. (a \o p) \o <<b[k]>> = a \o (p \o <<b[k]>>)
      <4>1. PICK z, V : z = <<b[k]>> /\ V = Seq(U)
        OBVIOUS
      <4>2. z \in Seq(V) /\ p \in Seq(V) /\ a \in Seq(V)
        BY <2>2, <3>1, <4>1
      <4>3. (a \o p) \o z = a \o (p \o z)
        <5>1. ThreeAlike(a, p, z)
          BY <4>2, Associative, Zenon
        <5>2. QED
          BY <5>1, Zenon DEF ThreeAlike
      <4>4. QED
        BY <4>1, <4>3, Zenon
    <3>4. QED
      BY <3>1, <3>2, <3>3, Zenon
  <2>4. FlattenSeq(a \o p) = FlattenSeq(a) \o FlattenSeq(p)
    BY <1>2, <2>1
  <2>5. FlattenSeq(a \o Append(p, b[k])) = (FlattenSeq(a) \o FlattenSeq(p)) \o b[k]
    <3>1. FlattenSeq(Append(a \o p, b[k])) = FlattenSeq(a \o p) \o b[k]
      BY <2>2, <2>3, FlatAppend
    <3>2. QED
      BY <2>3, <2>4, <3>1, Zenon
  <2>6. FlattenSeq(Append(p, b[k])) = FlattenSeq(p) \o b[k] /\ FlattenSeq(p) \in Seq(U)
    BY <2>2, FlatAppend, FlatType
  <2>7. (FlattenSeq(a) \o FlattenSeq(p)) \o b[k] = FlattenSeq(a) \o (FlattenSeq(p) \o b[k])
    <3>1. PICK x, y, z : x = FlattenSeq(a) /\ y = FlattenSeq(p) /\ z = b[k]
      OBVIOUS
    <3>2. x \in Seq(U) /\ y \in Seq(U) /\ z \in Seq(U)
      BY <1>0, <2>2, <2>6, <3>1
    <3>3. (x \o y) \o z = x \o (y \o z)
      <4>1. ThreeAlike(x, y, z)
        BY <3>2, Associative, Zenon
      <4>2. QED
        BY <4>1, Zenon DEF ThreeAlike
    <3>4. QED
      BY <3>1, <3>3, Zenon
  <2>8. k \in 0 .. Len(b)
    BY <1>0
  <2>9. QED
    BY <2>2, <2>5, <2>6, <2>7, <2>8
<1>3. Len(b) \in G
  <2> HIDE DEF G
  <2>1. \A k \in 0 .. Len(b) : k \in G
    BY <1>0, <1>1, <1>2, Upwards
  <2>2. QED
    BY <1>0, <2>1
<1>4. SubSeq(b, 1, Len(b)) = b
  BY WholePart
<1>5. QED
  BY <1>3, <1>4

\* Each unit of s by itself.
Singles(s) == [i \in 1 .. Len(s) |-> <<s[i]>>]

LEMMA FlatSingles ==
    ASSUME NEW U, NEW s \in Seq(U)
    PROVE  Singles(s) \in Seq(Seq(U)) /\ FlattenSeq(Singles(s)) = s
<1>1. Len(s) \in Nat /\ \A i \in 1 .. Len(s) : s[i] \in U /\ <<s[i]>> \in Seq(U)
  BY LenProperties, ElementOfSeq
<1>2. PICK q : q = Singles(s)
  OBVIOUS
<1>3. q \in Seq(Seq(U)) /\ Len(q) = Len(s) /\ \A i \in 1 .. Len(s) : q[i] = <<s[i]>>
  <2>1. q = [i \in 1 .. Len(s) |-> <<s[i]>>]
    BY <1>2 DEF Singles
  <2>2. q \in [1 .. Len(s) -> Seq(U)]
    BY <1>1, <2>1
  <2>3. QED
    BY <1>1, <2>1, <2>2
<1> DEFINE G == {k \in 0 .. Len(s) : FlattenSeq(SubSeq(q, 1, k)) = SubSeq(s, 1, k)}
<1>4. 0 \in G
  <2>1. SubSeq(q, 1, 0) = <<>> /\ SubSeq(s, 1, 0) = <<>>
    BY <1>3, WholePart
  <2>2. FlattenSeq(SubSeq(q, 1, 0)) = SubSeq(s, 1, 0)
    BY <2>1, FlatEmpty, Zenon
  <2>3. 0 \in 0 .. Len(s)
    BY <1>1
  <2>4. QED
    BY <2>2, <2>3
<1>5. ASSUME NEW k \in 1 .. Len(s), k - 1 \in G
      PROVE  k \in G
  <2>1. PICK p, r : p = SubSeq(q, 1, k - 1) /\ r = SubSeq(s, 1, k - 1)
    OBVIOUS
  <2>2. p \in Seq(Seq(U)) /\ SubSeq(q, 1, k) = Append(p, q[k])
    BY <1>3, <2>1, PartAppend
  <2>3. r \in Seq(U) /\ SubSeq(s, 1, k) = Append(r, s[k])
    BY <2>1, PartAppend
  <2>4. FlattenSeq(Append(p, q[k])) = FlattenSeq(p) \o <<s[k]>>
    BY <1>1, <1>3, <2>2, FlatAppend
  <2>5. FlattenSeq(p) = r
    BY <1>5, <2>1
  <2>6. r \o <<s[k]>> = Append(r, s[k])
    BY <1>1, <2>3, AppendIsConcat
  <2>7. k \in 0 .. Len(s)
    BY <1>1
  <2>8. QED
    BY <2>2, <2>3, <2>4, <2>5, <2>6, <2>7
<1>6. Len(s) \in G
  <2> HIDE DEF G
  <2>1. \A k \in 0 .. Len(s) : k \in G
    BY <1>1, <1>4, <1>5, Upwards
  <2>2. QED
    BY <1>1, <2>1
<1>7. SubSeq(q, 1, Len(q)) = q /\ SubSeq(s, 1, Len(s)) = s
  BY <1>3, WholePart
<1>8. QED
  BY <1>2, <1>3, <1>6, <1>7

============================================================================
