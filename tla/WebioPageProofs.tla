---------------------------- MODULE WebioPageProofs ----------------------------
(***************************************************************************)
(* The text of a page with its includes: whatever runs out, what is queued *)
(* is in its order; and when nothing ran out, all of it is there.          *)
(***************************************************************************)
EXTENDS WebioReplyProofs

----------------------------------------------------------------------------
(* Parts of texts *)

\* e gives each unit of s its place in t.
Embeds(s, t, e) ==
    /\ e \in [1 .. Len(s) -> 1 .. Len(t)]
    /\ \A i, j \in 1 .. Len(s) : i < j => e[i] < e[j]
    /\ \A i \in 1 .. Len(s) : s[i] = t[e[i]]
PartOf(s, t) == \E e : Embeds(s, t, e)

LEMMA PartIsWithin ==
    ASSUME NEW S, NEW s \in Seq(S), NEW t \in Seq(S), PartOf(s, t)
    PROVE  Within(s, t)
<1>1. Len(s) \in Nat /\ Len(t) \in Nat
  BY LenProperties
<1> PICK f : Found(s, t, f)
  BY FindingIs
<1>2. /\ Within(s, t) <=> f[Len(t)] = Len(s)
      /\ f[0] = 0
      /\ \A k \in 0 .. Len(t) : f[k] \in 0 .. Len(s)
      /\ \A k \in 1 .. Len(t) : k - 1 \in 0 .. Len(t) /\ f[k] = OneOn(s, t, k, f[k - 1])
  BY DEF Found
<1> PICK e : Embeds(s, t, e)
  BY DEF PartOf
<1>3. /\ \A i \in 1 .. Len(s) : e[i] \in 1 .. Len(t) /\ s[i] = t[e[i]]
      /\ \A i, j \in 1 .. Len(s) : i < j => e[i] < e[j]
  BY DEF Embeds
<1> DEFINE G == {k \in 0 .. Len(t) : \A i \in 1 .. Len(s) : e[i] <= k => i <= f[k]}
<1>4. 0 \in G
  <2>1. \A i \in 1 .. Len(s) : ~(e[i] <= 0)
    BY <1>3
  <2>2. QED
    BY <1>1, <2>1
<1>5. ASSUME NEW k \in 1 .. Len(t), k - 1 \in G
      PROVE  k \in G
  <2>1. PICK n : n = f[k - 1]
    OBVIOUS
  <2>2. k \in 0 .. Len(t) /\ n \in 0 .. Len(s) /\ f[k] = OneOn(s, t, k, n)
    BY <1>1, <1>2, <2>1
  <2>3. \A i \in 1 .. Len(s) : e[i] <= k - 1 => i <= n
    BY <1>5, <2>1
  <2>4. n <= f[k] /\ f[k] \in Nat
    BY <1>1, <2>2 DEF OneOn
  <2>5. ASSUME NEW i \in 1 .. Len(s), e[i] <= k
        PROVE  i <= f[k]
    <3>1. e[i] \in 1 .. Len(t) /\ i \in Nat /\ k \in Nat
      BY <1>1, <1>3
    <3>2. CASE e[i] <= k - 1
      BY <1>1, <2>2, <2>3, <2>4, <3>1, <3>2
    <3>3. CASE ~(e[i] <= k - 1)
      <4>1. e[i] = k
        BY <2>5, <3>1, <3>3
      <4>2. i - 1 <= n
        <5>1. CASE i = 1
          BY <1>1, <2>2, <5>1
        <5>2. CASE i # 1
          <6>1. i - 1 \in 1 .. Len(s) /\ i - 1 < i
            BY <1>1, <5>2
          <6>2. e[i - 1] < e[i] /\ e[i - 1] \in 1 .. Len(t)
            BY <1>3, <6>1
          <6>3. e[i - 1] <= k - 1
            BY <1>1, <4>1, <6>2
          <6>4. QED
            BY <2>3, <6>1, <6>3
        <5>3. QED
          BY <5>1, <5>2
      <4>3. CASE i <= n
        BY <1>1, <2>2, <2>4, <4>3
      <4>4. CASE ~(i <= n)
        <5>1. n + 1 = i /\ n < Len(s)
          BY <1>1, <2>2, <4>2, <4>4
        <5>2. s[n + 1] = t[k]
          BY <1>3, <4>1, <5>1
        <5>3. f[k] = i
          BY <2>2, <5>1, <5>2 DEF OneOn
        <5>4. QED
          BY <1>1, <5>3
      <4>5. QED
        BY <4>3, <4>4
    <3>4. QED
      BY <3>2, <3>3
  <2>6. QED
    BY <2>2, <2>5
<1>6. \A k \in 0 .. Len(t) : k \in G
  <2> HIDE DEF G
  <2>1. QED
    BY <1>1, <1>4, <1>5, Upwards
<1>7. f[Len(t)] = Len(s)
  <2>1. Len(t) \in 0 .. Len(t)
    BY <1>1
  <2>2. \A i \in 1 .. Len(s) : e[i] <= Len(t) => i <= f[Len(t)]
    BY <1>6, <2>1
  <2>3. f[Len(t)] \in 0 .. Len(s)
    BY <1>2, <2>1
  <2>4. CASE Len(s) = 0
    BY <2>3, <2>4
  <2>5. CASE Len(s) # 0
    <3>1. Len(s) \in 1 .. Len(s)
      BY <1>1, <2>5
    <3>2. e[Len(s)] <= Len(t)
      BY <1>1, <1>3, <3>1
    <3>3. Len(s) <= f[Len(t)]
      BY <2>2, <3>1, <3>2
    <3>4. QED
      BY <1>1, <2>3, <3>3
  <2>6. QED
    BY <2>4, <2>5
<1>8. QED
  BY <1>2, <1>7

LEMMA PartOfItself ==
    ASSUME NEW S, NEW s \in Seq(S)
    PROVE  PartOf(s, s)
<1>1. Len(s) \in Nat
  BY LenProperties
<1>2. PICK e : e = [i \in 1 .. Len(s) |-> i]
  OBVIOUS
<1>3. Embeds(s, s, e)
  BY <1>1, <1>2 DEF Embeds
<1>4. QED
  BY <1>3 DEF PartOf

LEMMA PartOfPart ==
    ASSUME NEW s, NEW t, NEW u, PartOf(s, t), PartOf(t, u)
    PROVE  PartOf(s, u)
<1> PICK e : Embeds(s, t, e)
  BY DEF PartOf
<1> PICK f : Embeds(t, u, f)
  BY DEF PartOf
<1>1. PICK g : g = [i \in 1 .. Len(s) |-> f[e[i]]]
  OBVIOUS
<1>2. \A i \in 1 .. Len(s) : e[i] \in 1 .. Len(t) /\ g[i] = f[e[i]] /\ f[e[i]] \in 1 .. Len(u)
  BY <1>1 DEF Embeds
<1>3. g \in [1 .. Len(s) -> 1 .. Len(u)]
  BY <1>1, <1>2
<1>4. \A i, j \in 1 .. Len(s) : i < j => g[i] < g[j]
  BY <1>2 DEF Embeds
<1>5. \A i \in 1 .. Len(s) : s[i] = u[g[i]]
  BY <1>2 DEF Embeds
<1>6. QED
  BY <1>3, <1>4, <1>5 DEF Embeds, PartOf

\* Parts of two texts, one behind the other.
LEMMA PartsJoined ==
    ASSUME NEW S, NEW a \in Seq(S), NEW b \in Seq(S), NEW c \in Seq(S), NEW d \in Seq(S),
           PartOf(a, b), PartOf(c, d)
    PROVE  PartOf(a \o c, b \o d)
<1> PICK e : Embeds(a, b, e)
  BY DEF PartOf
<1> PICK f : Embeds(c, d, f)
  BY DEF PartOf
<1>1. PICK v, w : v = a \o c /\ w = b \o d
  OBVIOUS
<1>2. /\ Len(a) \in Nat /\ Len(b) \in Nat /\ Len(c) \in Nat /\ Len(d) \in Nat
      /\ v \in Seq(S) /\ Len(v) = Len(a) + Len(c) /\ w \in Seq(S) /\ Len(w) = Len(b) + Len(d)
      /\ \A i \in 1 .. Len(a) + Len(c) : v[i] = IF i <= Len(a) THEN a[i] ELSE c[i - Len(a)]
      /\ \A i \in 1 .. Len(b) + Len(d) : w[i] = IF i <= Len(b) THEN b[i] ELSE d[i - Len(b)]
  BY <1>1, ConcatProperties, LenProperties
<1>3. /\ \A i \in 1 .. Len(a) : e[i] \in 1 .. Len(b) /\ a[i] = b[e[i]]
      /\ \A i, j \in 1 .. Len(a) : i < j => e[i] < e[j]
      /\ \A i \in 1 .. Len(c) : f[i] \in 1 .. Len(d) /\ c[i] = d[f[i]]
      /\ \A i, j \in 1 .. Len(c) : i < j => f[i] < f[j]
  BY DEF Embeds
<1>4. PICK g : g = [i \in 1 .. Len(v) |-> IF i <= Len(a) THEN e[i] ELSE Len(b) + f[i - Len(a)]]
  OBVIOUS
<1>5. ASSUME NEW i \in 1 .. Len(v)
      PROVE  \/ i \in 1 .. Len(a) /\ g[i] = e[i] /\ g[i] \in 1 .. Len(b) /\ v[i] = a[i] /\ i <= Len(a)
             \/ /\ i - Len(a) \in 1 .. Len(c) /\ g[i] = Len(b) + f[i - Len(a)] /\ f[i - Len(a)] \in 1 .. Len(d)
                /\ v[i] = c[i - Len(a)] /\ ~(i <= Len(a))
  <2>1. CASE i <= Len(a)
    <3>1. i \in 1 .. Len(a) /\ i \in 1 .. Len(a) + Len(c)
      BY <1>2, <2>1
    <3>2. QED
      BY <1>2, <1>3, <1>4, <2>1, <3>1
  <2>2. CASE ~(i <= Len(a))
    <3>1. i - Len(a) \in 1 .. Len(c) /\ i \in 1 .. Len(a) + Len(c)
      BY <1>2, <2>2
    <3>2. QED
      BY <1>2, <1>3, <1>4, <2>2, <3>1
  <2>3. QED
    BY <2>1, <2>2
<1>6. g \in [1 .. Len(v) -> 1 .. Len(w)]
  <2>1. ASSUME NEW i \in 1 .. Len(v)
        PROVE  g[i] \in 1 .. Len(w)
    <3>1. g[i] \in 1 .. Len(b) \/ (g[i] = Len(b) + f[i - Len(a)] /\ f[i - Len(a)] \in 1 .. Len(d))
      BY <1>5
    <3>2. QED
      BY <1>2, <3>1
  <2>2. QED
    BY <1>4, <2>1
<1>7. ASSUME NEW i \in 1 .. Len(v), NEW j \in 1 .. Len(v), i < j
      PROVE  g[i] < g[j]
  <2>1. CASE j <= Len(a)
    <3>1. i <= Len(a)
      BY <1>2, <1>7, <2>1
    <3>2. QED
      BY <1>3, <1>5, <1>7, <2>1, <3>1
  <2>2. CASE ~(j <= Len(a)) /\ i <= Len(a)
    <3>1. g[i] \in 1 .. Len(b) /\ g[j] = Len(b) + f[j - Len(a)] /\ f[j - Len(a)] \in 1 .. Len(d)
      BY <1>5, <2>2
    <3>2. QED
      BY <1>2, <3>1, SMTT(30)
  <2>3. CASE ~(j <= Len(a)) /\ ~(i <= Len(a))
    <3>1. /\ g[i] = Len(b) + f[i - Len(a)] /\ f[i - Len(a)] \in 1 .. Len(d) /\ i - Len(a) \in 1 .. Len(c)
          /\ g[j] = Len(b) + f[j - Len(a)] /\ f[j - Len(a)] \in 1 .. Len(d) /\ j - Len(a) \in 1 .. Len(c)
      BY <1>5, <2>3
    <3>2. i - Len(a) < j - Len(a)
      BY <1>2, <1>7
    <3>3. f[i - Len(a)] < f[j - Len(a)]
      BY <1>3, <3>1, <3>2
    <3>4. QED
      BY <1>2, <3>1, <3>3, SMTT(30)
  <2>4. QED
    BY <2>1, <2>2, <2>3
<1>8. ASSUME NEW i \in 1 .. Len(v)
      PROVE  v[i] = w[g[i]]
  <2>1. CASE i <= Len(a)
    <3>1. e[i] \in 1 .. Len(b) /\ g[i] = e[i] /\ v[i] = a[i] /\ a[i] = b[e[i]]
      BY <1>3, <1>5, <2>1
    <3>2. e[i] \in 1 .. Len(b) + Len(d) /\ e[i] <= Len(b)
      BY <1>2, <3>1
    <3>3. QED
      BY <1>2, <3>1, <3>2
  <2>2. CASE ~(i <= Len(a))
    <3>1. PICK k : k = f[i - Len(a)]
      OBVIOUS
    <3>2. k \in 1 .. Len(d) /\ g[i] = Len(b) + k /\ v[i] = c[i - Len(a)] /\ c[i - Len(a)] = d[k]
      BY <1>3, <1>5, <2>2, <3>1
    <3>3. Len(b) + k \in 1 .. Len(b) + Len(d) /\ ~(Len(b) + k <= Len(b)) /\ (Len(b) + k) - Len(b) = k
      BY <1>2, <3>2
    <3>4. QED
      BY <1>2, <3>2, <3>3
  <2>3. QED
    BY <2>1, <2>2
<1>9. Embeds(v, w, g)
  BY <1>6, <1>7, <1>8 DEF Embeds
<1>10. QED
  BY <1>1, <1>9 DEF PartOf

LEMMA NothingIsPart ==
    ASSUME NEW S, NEW t \in Seq(S)
    PROVE  PartOf(<<>>, t)
<1>1. Len(<<>>) = 0 /\ \A i \in 1 .. 0 : FALSE
  OBVIOUS
<1>2. PICK e : e = [i \in 1 .. 0 |-> 1]
  OBVIOUS
<1>3. e \in [1 .. 0 -> 1 .. Len(t)]
  BY <1>1, <1>2
<1>4. Embeds(<<>>, t, e)
  BY <1>1, <1>3 DEF Embeds
<1>5. QED
  BY <1>4 DEF PartOf

\* The end of a text, and its beginning.
LEMMA EndsArePart ==
    ASSUME NEW S, NEW a \in Seq(S), NEW b \in Seq(S)
    PROVE  PartOf(b, a \o b) /\ PartOf(a, a \o b)
<1>1. <<>> \in Seq(S) /\ <<>> \o b = b /\ a \o <<>> = a
  BY EmptySeq, ConcatEmptySeq
<1>2. PartOf(<<>> \o b, a \o b)
  BY <1>1, NothingIsPart, PartOfItself, PartsJoined
<1>3. PartOf(a \o <<>>, a \o b)
  BY <1>1, NothingIsPart, PartOfItself, PartsJoined
<1>4. QED
  BY <1>1, <1>2, <1>3

----------------------------------------------------------------------------
(* Lists of texts *)

\* The texts of q from the p-th on.
From(q, p) == FlattenSeq(SubSeq(q, p, Len(q)))

LEMMA FromIs ==
    ASSUME NEW U, NEW q \in Seq(Seq(U)), NEW p \in Nat \ {0}
    PROVE  /\ From(q, p) \in Seq(U)
           /\ From(q, 1) = FlattenSeq(q)
           /\ p > Len(q) => From(q, p) = <<>>
           /\ p <= Len(q) => q[p] \in Seq(U) /\ From(q, p) = q[p] \o From(q, p + 1)
<1>1. Len(q) \in Nat /\ \A i \in 1 .. Len(q) : q[i] \in Seq(U)
  BY LenProperties, ElementOfSeq
<1>2. \A i \in Nat \ {0} :
         /\ SubSeq(q, i, Len(q)) \in Seq(Seq(U))
         /\ Len(SubSeq(q, i, Len(q))) = IF i <= Len(q) THEN Len(q) - i + 1 ELSE 0
         /\ \A j \in 1 .. Len(q) - i + 1 : SubSeq(q, i, Len(q))[j] = q[i + j - 1]
  <2>1. ASSUME NEW i \in Nat \ {0}
        PROVE  /\ SubSeq(q, i, Len(q)) \in Seq(Seq(U))
               /\ Len(SubSeq(q, i, Len(q))) = IF i <= Len(q) THEN Len(q) - i + 1 ELSE 0
               /\ \A j \in 1 .. Len(q) - i + 1 : SubSeq(q, i, Len(q))[j] = q[i + j - 1]
    <3>1. i \in Int /\ Len(q) \in Int /\ \A j \in i .. Len(q) : q[j] \in Seq(U)
      BY <1>1
    <3>2. QED
      BY <3>1, SubSeqProperties
  <2>2. QED
    BY <2>1
<1>3. PICK r, t : r = SubSeq(q, p, Len(q)) /\ t = SubSeq(q, p + 1, Len(q))
  OBVIOUS
<1>4. /\ r \in Seq(Seq(U)) /\ Len(r) = IF p <= Len(q) THEN Len(q) - p + 1 ELSE 0
      /\ \A j \in 1 .. Len(q) - p + 1 : r[j] = q[p + j - 1]
      /\ t \in Seq(Seq(U)) /\ Len(t) = IF p + 1 <= Len(q) THEN Len(q) - p ELSE 0
      /\ \A j \in 1 .. Len(q) - p : t[j] = q[p + j]
  <2>1. p + 1 \in Nat \ {0} /\ Len(q) - (p + 1) + 1 = Len(q) - p /\ \A j \in 1 .. Len(q) - p : p + 1 + j - 1 = p + j
    BY <1>1
  <2>2. QED
    BY <1>2, <1>3, <2>1
<1>5. From(q, p) \in Seq(U)
  BY <1>3, <1>4, FlatType DEF From
<1>6. From(q, 1) = FlattenSeq(q)
  BY WholePart DEF From
<1>7. p > Len(q) => From(q, p) = <<>>
  <2>1. SUFFICES ASSUME p > Len(q)
                 PROVE  From(q, p) = <<>>
    OBVIOUS
  <2>2. Len(r) = 0
    BY <1>1, <1>4, <2>1
  <2>3. r = <<>>
    BY <1>4, <2>2, EmptySeq
  <2>4. QED
    BY <1>3, <2>3, FlatEmpty DEF From
<1>8. p <= Len(q) => q[p] \in Seq(U) /\ From(q, p) = q[p] \o From(q, p + 1)
  <2>1. SUFFICES ASSUME p <= Len(q)
                 PROVE  q[p] \in Seq(U) /\ From(q, p) = q[p] \o From(q, p + 1)
    OBVIOUS
  <2>2. Len(r) = Len(q) - p + 1 /\ 1 \in 1 .. Len(q) - p + 1 /\ p + 1 - 1 = p /\ p \in 1 .. Len(q) /\ Len(r) # 0
    BY <1>1, <1>4, <2>1
  <2>3. r # <<>> /\ r[1] = q[p] /\ q[p] \in Seq(U)
    BY <1>1, <1>4, <2>2
  <2>4. /\ Head(r) = r[1] /\ Tail(r) \in Seq(Seq(U)) /\ Len(Tail(r)) = Len(r) - 1
        /\ \A i \in 1 .. Len(r) - 1 : Tail(r)[i] = r[i + 1]
    BY <1>4, <2>3, FirstOf
  <2>5. Len(Tail(r)) = Len(q) - p /\ Len(t) = Len(q) - p
    BY <1>1, <1>4, <2>1, <2>2, <2>4, SMTT(30)
  <2>6. \A i \in 1 .. Len(q) - p : Tail(r)[i] = t[i]
    <3>1. \A i \in 1 .. Len(q) - p : i \in 1 .. Len(r) - 1 /\ i + 1 \in 1 .. Len(q) - p + 1 /\ p + (i + 1) - 1 = p + i
      BY <1>1, <2>2
    <3>2. QED
      BY <1>4, <2>4, <3>1
  <2>7. Tail(r) = t
    BY <1>4, <2>4, <2>5, <2>6, SeqSame
  <2>8. FlattenSeq(r) = q[p] \o FlattenSeq(t)
    BY <1>4, <2>3, <2>4, <2>7, FlatHead
  <2>9. QED
    BY <1>3, <2>3, <2>8 DEF From
<1>9. QED
  BY <1>5, <1>6, <1>7, <1>8

LEMMA FromLater ==
    ASSUME NEW U, NEW q \in Seq(Seq(U)), NEW p \in Nat \ {0}, NEW r \in Nat, p <= r
    PROVE  PartOf(From(q, r), From(q, p))
<1>1. PICK n : n = r - p
  OBVIOUS
<1>2. n \in Nat /\ p + n = r /\ Len(q) \in Nat
  BY <1>1, LenProperties
<1> DEFINE G == {k \in 0 .. n : PartOf(From(q, p + k), From(q, p))}
<1>3. 0 \in G
  <2>1. p + 0 = p /\ 0 \in 0 .. n
    BY <1>2
  <2>2. From(q, p) \in Seq(U)
    BY FromIs
  <2>3. QED
    BY <2>1, <2>2, PartOfItself
<1>4. ASSUME NEW k \in 1 .. n, k - 1 \in G
      PROVE  k \in G
  <2>1. PICK i : i = p + (k - 1)
    OBVIOUS
  <2>2. i \in Nat \ {0} /\ i + 1 = p + k /\ k \in 0 .. n /\ i + 1 \in Nat \ {0}
    BY <1>2, <2>1
  <2>3. PartOf(From(q, i), From(q, p))
    BY <1>4, <2>1
  <2>4. From(q, i + 1) \in Seq(U) /\ From(q, i) \in Seq(U)
    BY <2>2, FromIs
  <2>5. CASE i <= Len(q)
    <3>1. q[i] \in Seq(U) /\ From(q, i) = q[i] \o From(q, i + 1)
      BY <2>2, <2>5, FromIs
    <3>2. PartOf(From(q, i + 1), From(q, i))
      BY <2>4, <3>1, EndsArePart
    <3>3. QED
      BY <2>2, <2>3, <3>2, PartOfPart
  <2>6. CASE ~(i <= Len(q))
    <3>1. i + 1 > Len(q)
      BY <1>2, <2>2, <2>6
    <3>2. From(q, i + 1) = <<>> /\ From(q, p) \in Seq(U)
      BY <2>2, <3>1, FromIs
    <3>3. QED
      BY <2>2, <3>2, NothingIsPart
  <2>7. QED
    BY <2>5, <2>6
<1>5. n \in G
  <2> HIDE DEF G
  <2>1. \A k \in 0 .. n : k \in G
    BY <1>2, <1>3, <1>4, Upwards
  <2>2. QED
    BY <1>2, <2>1
<1>6. QED
  BY <1>2, <1>5

----------------------------------------------------------------------------
(* What the files become *)

TextIn(page, n) == IF n = "page" THEN page ELSE Text[n]

\* Piece and Expansion, with the page they are for and the depth.
PieceIn(raw, page, n, p, inner) ==
    LET t   == TextIn(page, n)
        own == <<UnitName(n, p)>>
    IN  IF n \in Routines THEN own
        ELSE IF Begins(t, p) THEN IF raw THEN own ELSE <<>>
        ELSE IF p > 1 /\ Begins(t, p - 1)
        THEN (IF raw THEN own ELSE <<>>) \o (IF t[p - 1].to \in Name THEN inner[t[p - 1].to] ELSE <<>>)
        ELSE own
Pieces(raw, page, n, inner) == [p \in 1 .. Len(TextIn(page, n)) |-> PieceIn(raw, page, n, p, inner)]
Nothing == [n \in Name \cup {"page"} |-> <<>>]
Expands(raw, page, depth, f) ==
    f = [d \in 0 .. depth |->
           [n \in Name \cup {"page"} |-> IF d = 0 THEN <<>> ELSE FlattenSeq(Pieces(raw, page, n, f[d - 1]))]]
Expanded(raw, page, depth) == CHOOSE f : Expands(raw, page, depth, f)

LEMMA ExpandIs == \A raw : Expand(raw) = Expanded(raw, req.page, Depth)[Depth]["page"]
BY Zenon DEF Expand, Expansion, Expanded, Expands, Pieces, PieceIn, Piece, TextIn, TextOf

LEMMA ExpandIsNext == \A raw : Expand(raw)' = Expanded(raw, req'.page, Depth')[Depth']["page"]
BY Zenon DEF Expand, Expansion, Expanded, Expands, Pieces, PieceIn, Piece, TextIn, TextOf

LEMMA ExpandsExists ==
    ASSUME NEW raw, NEW page, NEW depth \in Nat
    PROVE  Expands(raw, page, depth, Expanded(raw, page, depth))
<1> DEFINE G == {n \in 0 .. depth : \E f : Expands(raw, page, n, f)}
           At(d, f) == [n \in Name \cup {"page"} |->
                          IF d = 0 THEN <<>> ELSE FlattenSeq(Pieces(raw, page, n, f[d - 1]))]
<1>1. 0 \in G
  <2> DEFINE g == [d \in 0 .. 0 |-> Nothing]
  <2>1. ASSUME NEW d \in 0 .. 0
        PROVE  g[d] = At(d, g)
    <3>1. d = 0
      OBVIOUS
    <3>2. QED
      BY <3>1 DEF Nothing
  <2>2. g = [d \in 0 .. 0 |-> g[d]]
    OBVIOUS
  <2> HIDE DEF g
  <2>3. g = [d \in 0 .. 0 |-> At(d, g)]
    <3> HIDE DEF At
    <3>1. QED
      BY <2>1, <2>2
  <2>4. \E f : Expands(raw, page, 0, f)
    BY <2>3 DEF Expands
  <2>5. QED
    BY <2>4
<1>2. ASSUME NEW n \in 1 .. depth, n - 1 \in G
      PROVE  n \in G
  <2>1. PICK f : Expands(raw, page, n - 1, f)
    BY <1>2
  <2> DEFINE g == [d \in 0 .. n |-> IF d = n THEN At(n, f) ELSE f[d]]
  <2>2. /\ n \in Nat /\ n # 0 /\ n \in 0 .. depth /\ n - 1 \in 0 .. n /\ n - 1 # n /\ n \in 0 .. n
        /\ \A d \in 0 .. n : d # n => d \in 0 .. n - 1 /\ (d # 0 => d - 1 \in 0 .. n /\ d - 1 # n)
    BY <1>2
  <2>3. \A d \in 0 .. n - 1 : f[d] = At(d, f)
    BY <2>1 DEF Expands
  <2>4. ASSUME NEW d \in 0 .. n
        PROVE  g[d] = At(d, g)
    <3>1. d # 0 => g[d - 1] = f[d - 1]
      <4> HIDE DEF At
      <4>1. QED
        BY <2>2
    <3>2. g[d] = At(d, f)
      <4> HIDE DEF At
      <4>1. QED
        BY <2>2, <2>3
    <3>3. At(d, f) = At(d, g)
      <4> HIDE DEF g
      <4>1. QED
        BY <3>1
    <3>4. QED
      BY <3>2, <3>3
  <2>5. g = [d \in 0 .. n |-> g[d]]
    OBVIOUS
  <2> HIDE DEF g
  <2>6. g = [d \in 0 .. n |-> At(d, g)]
    <3> HIDE DEF At
    <3>1. QED
      BY <2>4, <2>5
  <2>7. \E h : Expands(raw, page, n, h)
    BY <2>6 DEF Expands
  <2>8. QED
    BY <2>2, <2>7
<1>3. depth \in G
  <2> HIDE DEF G
  <2>1. \A k \in 0 .. depth : k \in G
    BY <1>1, <1>2, Upwards
  <2>2. QED
    BY <2>1
<1>4. \E f : Expands(raw, page, depth, f)
  BY <1>3
<1>5. QED
  BY <1>4 DEF Expanded


LEMMA TextInIs ==
    ASSUME NEW page \in Seq(Unit), NEW n \in Name \cup {"page"}
    PROVE  TextIn(page, n) \in Seq(Unit) /\ Len(TextIn(page, n)) \in Nat
<1>1. n # "page" => Text[n] \in Seq(Unit)
  BY TextAssumption
<1>2. TextIn(page, n) \in Seq(Unit)
  BY <1>1 DEF TextIn
<1>3. QED
  BY <1>2, LenProperties

Texts == [Name \cup {"page"} -> Seq(Sent)]

LEMMA UnitIsSent ==
    ASSUME NEW n \in Name \cup {"page"}, NEW p \in Int
    PROVE  UnitName(n, p) \in Sent /\ <<UnitName(n, p)>> \in Seq(Sent)
<1>1. UnitName(n, p) \in Sent
  BY DEF Sent
<1>2. QED
  BY <1>1

LEMMA PiecesAre ==
    ASSUME NEW raw \in BOOLEAN, NEW page \in Seq(Unit), NEW n \in Name \cup {"page"}, NEW inner \in Texts
    PROVE  /\ Pieces(raw, page, n, inner) \in Seq(Seq(Sent))
           /\ Len(Pieces(raw, page, n, inner)) = Len(TextIn(page, n)) /\ Len(TextIn(page, n)) \in Nat
           /\ \A p \in 1 .. Len(TextIn(page, n)) : Pieces(raw, page, n, inner)[p] = PieceIn(raw, page, n, p, inner)
<1>1. PICK t : t = TextIn(page, n)
  OBVIOUS
<1>2. t \in Seq(Unit) /\ Len(t) \in Nat /\ <<>> \in Seq(Sent)
  BY <1>1, TextInIs, EmptySeq
<1>3. ASSUME NEW p \in 1 .. Len(t)
      PROVE  PieceIn(raw, page, n, p, inner) \in Seq(Sent)
  <2>1. <<UnitName(n, p)>> \in Seq(Sent)
    BY <1>2, UnitIsSent
  <2>2. PICK own : own = <<UnitName(n, p)>>
    OBVIOUS
  <2>3. own \in Seq(Sent)
    BY <2>1, <2>2
  <2>4. PICK x, y : /\ x = (IF raw THEN own ELSE <<>>)
                    /\ y = (IF t[p - 1].to \in Name THEN inner[t[p - 1].to] ELSE <<>>)
    OBVIOUS
  <2>5. x \in Seq(Sent) /\ y \in Seq(Sent)
    BY <1>2, <2>3, <2>4 DEF Texts
  <2>6. x \o y \in Seq(Sent)
    BY <2>5, ConcatProperties
  <2>7. PieceIn(raw, page, n, p, inner) =
           IF n \in Routines THEN own
           ELSE IF Begins(t, p) THEN x ELSE IF p > 1 /\ Begins(t, p - 1) THEN x \o y ELSE own
    BY <1>1, <2>2, <2>4, Zenon DEF PieceIn
  <2>8. QED
    BY <2>3, <2>5, <2>6, <2>7
<1>4. PICK q : q = Pieces(raw, page, n, inner)
  OBVIOUS
<1>5. q = [p \in 1 .. Len(t) |-> PieceIn(raw, page, n, p, inner)]
  BY <1>1, <1>4 DEF Pieces
<1>6. q \in [1 .. Len(t) -> Seq(Sent)]
  BY <1>3, <1>5
<1>7. q \in Seq(Seq(Sent)) /\ Len(q) = Len(t)
  BY <1>2, <1>5, <1>6
<1>8. QED
  BY <1>1, <1>2, <1>4, <1>5, <1>7

LEMMA LevelsAre ==
    ASSUME NEW raw \in BOOLEAN, NEW page \in Seq(Unit), NEW depth \in Nat,
           NEW f, f = Expanded(raw, page, depth)
    PROVE  /\ \A d \in 0 .. depth : f[d] \in Texts
           /\ \A d \in 1 .. depth : d - 1 \in 0 .. depth
           /\ \A d \in 1 .. depth, n \in Name \cup {"page"} :
                 f[d][n] = FlattenSeq(Pieces(raw, page, n, f[d - 1]))
<1>1. Expands(raw, page, depth, f)
  BY ExpandsExists
<1>2. \A d \in 0 .. depth :
         f[d] = [n \in Name \cup {"page"} |-> IF d = 0 THEN <<>> ELSE FlattenSeq(Pieces(raw, page, n, f[d - 1]))]
  BY <1>1 DEF Expands
<1>3. \A d \in 1 .. depth : d - 1 \in 0 .. depth /\ d \in 0 .. depth /\ d # 0
  OBVIOUS
<1> DEFINE G == {d \in 0 .. depth : f[d] \in Texts}
<1>4. 0 \in G
  <2>1. 0 \in 0 .. depth
    OBVIOUS
  <2>2. PICK g : g = f[0]
    OBVIOUS
  <2>3. g = [n \in Name \cup {"page"} |-> IF 0 = 0 THEN <<>> ELSE FlattenSeq(Pieces(raw, page, n, f[0 - 1]))]
    BY <1>2, <2>1, <2>2
  <2>4. \A n \in Name \cup {"page"} : g[n] \in Seq(Sent)
    BY <2>3, EmptySeq
  <2>5. g \in Texts
    BY <2>3, <2>4 DEF Texts
  <2>6. QED
    BY <2>1, <2>2, <2>5
<1>5. ASSUME NEW d \in 1 .. depth, d - 1 \in G
      PROVE  d \in G
  <2>1. f[d - 1] \in Texts
    BY <1>5
  <2>2. ASSUME NEW n \in Name \cup {"page"}
        PROVE  FlattenSeq(Pieces(raw, page, n, f[d - 1])) \in Seq(Sent)
    <3>1. Pieces(raw, page, n, f[d - 1]) \in Seq(Seq(Sent))
      BY <2>1, PiecesAre
    <3>2. QED
      BY <3>1, FlatType
  <2>3. PICK g : g = f[d]
    OBVIOUS
  <2>4. g = [n \in Name \cup {"page"} |-> IF d = 0 THEN <<>> ELSE FlattenSeq(Pieces(raw, page, n, f[d - 1]))]
    BY <1>2, <1>3, <2>3
  <2>5. \A n \in Name \cup {"page"} : g[n] \in Seq(Sent)
    BY <1>3, <2>2, <2>4
  <2>6. g \in Texts
    BY <2>4, <2>5 DEF Texts
  <2>7. QED
    BY <1>3, <2>3, <2>6
<1>6. \A d \in 0 .. depth : d \in G
  <2> HIDE DEF G
  <2>1. QED
    BY <1>4, <1>5, Upwards
<1>7. \A d \in 1 .. depth, n \in Name \cup {"page"} : f[d][n] = FlattenSeq(Pieces(raw, page, n, f[d - 1]))
  BY <1>2, <1>3, ZenonT(60)
<1>8. QED
  BY <1>3, <1>6, <1>7

\* What a C routine prints is its own text.
RoutineText(n) == [i \in 1 .. Len(Text[n]) |-> UnitName(n, i)]

LEMMA RoutineIs ==
    ASSUME NEW raw \in BOOLEAN, NEW page \in Seq(Unit), NEW n \in Routines, NEW inner \in Texts
    PROVE  /\ RoutineText(n) \in Seq(Sent)
           /\ FlattenSeq(Pieces(raw, page, n, inner)) = RoutineText(n)
<1>1. n \in Name /\ n # "page" /\ n \in Name \cup {"page"}
  BY TextAssumption
<1>2. TextIn(page, n) = Text[n]
  BY <1>1 DEF TextIn
<1>3. Len(Text[n]) \in Nat
  BY <1>1, <1>2, TextInIs
<1>4. PICK s : s = RoutineText(n)
  OBVIOUS
<1>5. s = [i \in 1 .. Len(Text[n]) |-> UnitName(n, i)]
  BY <1>4 DEF RoutineText
<1>6. \A i \in 1 .. Len(Text[n]) : UnitName(n, i) \in Sent
  BY <1>1, <1>3, UnitIsSent
<1>7. s \in Seq(Sent) /\ Len(s) = Len(Text[n]) /\ \A i \in 1 .. Len(s) : s[i] = UnitName(n, i)
  BY <1>3, <1>5, <1>6
<1>8. \A p \in 1 .. Len(Text[n]) : PieceIn(raw, page, n, p, inner) = <<UnitName(n, p)>>
  BY <1>1 DEF PieceIn
<1>9. Pieces(raw, page, n, inner) = Singles(s)
  BY <1>2, <1>7, <1>8 DEF Pieces, Singles
<1>10. QED
  BY <1>4, <1>7, <1>9, FlatSingles

\* A place has its own unit, and behind a directive there is the file it names.
LEMMA RawPieces ==
    ASSUME NEW page \in Seq(Unit), NEW n \in (Name \cup {"page"}) \ Routines, NEW inner \in Texts,
           NEW p \in 1 .. Len(TextIn(page, n))
    PROVE  /\ \E x \in Seq(Sent) : PieceIn(TRUE, page, n, p, inner) = <<UnitName(n, p)>> \o x
           /\ p > 1 /\ Begins(TextIn(page, n), p - 1) /\ TextIn(page, n)[p - 1].to \in Name
                 => PieceIn(TRUE, page, n, p, inner) = <<UnitName(n, p)>> \o inner[TextIn(page, n)[p - 1].to]
<1>1. PICK t, own : t = TextIn(page, n) /\ own = <<UnitName(n, p)>>
  OBVIOUS
<1>2. t \in Seq(Unit) /\ Len(t) \in Nat
  BY <1>1, TextInIs
<1>3. own \in Seq(Sent) /\ <<>> \in Seq(Sent) /\ own \o <<>> = own
  <2>1. n \in Name \cup {"page"} /\ p \in Int
    BY <1>1, <1>2
  <2>2. own \in Seq(Sent)
    BY <1>1, <2>1, UnitIsSent
  <2>3. QED
    BY <2>2, EmptySeq, ConcatEmptySeq
<1>4. PICK y : y = IF t[p - 1].to \in Name THEN inner[t[p - 1].to] ELSE <<>>
  OBVIOUS
<1>5. y \in Seq(Sent)
  BY <1>3, <1>4 DEF Texts
<1>6. PieceIn(TRUE, page, n, p, inner) =
         IF Begins(t, p) THEN own ELSE IF p > 1 /\ Begins(t, p - 1) THEN own \o y ELSE own
  BY <1>1, <1>4, Zenon DEF PieceIn
<1>7. ~(Begins(t, p) /\ Begins(t, p - 1) /\ p > 1)
  <2>1. p \in Int /\ (p - 1) + 1 = p
    BY <1>1, <1>2
  <2>2. Begins(t, p) => t[p].is = "start"
    BY DEF Begins
  <2>3. Begins(t, p - 1) => t[p].is = "end"
    BY <2>1 DEF Begins
  <2>4. QED
    BY <2>2, <2>3
<1>8. QED
  BY <1>1, <1>3, <1>4, <1>5, <1>6, <1>7

LEMMA CleanPieces ==
    ASSUME NEW page \in Seq(Unit), NEW n \in (Name \cup {"page"}) \ Routines, NEW inner \in Texts,
           NEW p \in 1 .. Len(TextIn(page, n))
    PROVE  /\ Begins(TextIn(page, n), p) => PieceIn(FALSE, page, n, p, inner) = <<>>
           /\ p > 1 /\ Begins(TextIn(page, n), p - 1)
                 => PieceIn(FALSE, page, n, p, inner) =
                       IF TextIn(page, n)[p - 1].to \in Name THEN inner[TextIn(page, n)[p - 1].to] ELSE <<>>
           /\ ~Begins(TextIn(page, n), p) /\ ~(p > 1 /\ Begins(TextIn(page, n), p - 1))
                 => PieceIn(FALSE, page, n, p, inner) = <<UnitName(n, p)>>
<1>1. PICK t, own : t = TextIn(page, n) /\ own = <<UnitName(n, p)>>
  OBVIOUS
<1>2. t \in Seq(Unit) /\ Len(t) \in Nat
  BY <1>1, TextInIs
<1>4. PICK y : y = IF t[p - 1].to \in Name THEN inner[t[p - 1].to] ELSE <<>>
  OBVIOUS
<1>5. y \in Seq(Sent) /\ <<>> \o y = y
  <2>1. y \in Seq(Sent)
    BY <1>4, EmptySeq DEF Texts
  <2>2. QED
    BY <2>1, ConcatEmptySeq
<1>6. PieceIn(FALSE, page, n, p, inner) =
         IF Begins(t, p) THEN <<>> ELSE IF p > 1 /\ Begins(t, p - 1) THEN <<>> \o y ELSE own
  BY <1>1, <1>4, Zenon DEF PieceIn
<1>7. ~(Begins(t, p) /\ Begins(t, p - 1) /\ p > 1)
  <2>1. p \in Int /\ (p - 1) + 1 = p
    BY <1>1, <1>2
  <2>2. Begins(t, p) => t[p].is = "start"
    BY DEF Begins
  <2>3. Begins(t, p - 1) => t[p].is = "end"
    BY <2>1 DEF Begins
  <2>4. QED
    BY <2>2, <2>3
<1>8. QED
  BY <1>1, <1>4, <1>5, <1>6, <1>7

----------------------------------------------------------------------------
(* What is unread of the open files *)

\* The texts of the open files from the places ps on, innermost file first; left file
\* slots are free.
RestOf(raw, page, E, left, fs, ps) ==
    [i \in 1 .. Len(fs) |-> From(Pieces(raw, page, fs[i].name, E[left + i - 1]), ps[i])]

\* The levels of the open files exist.
Levels(raw, page, E, left, fs) ==
    /\ raw \in BOOLEAN /\ page \in Seq(Unit) /\ left \in Nat /\ fs \in Seq(OpenFile)
    /\ \E depth \in Nat : depth >= left + Len(fs) /\ E = Expanded(raw, page, depth)

LEMMA RestIs ==
    ASSUME NEW raw, NEW page, NEW E, NEW left, NEW fs, Levels(raw, page, E, left, fs),
           NEW ps \in Seq(Nat \ {0}), Len(ps) = Len(fs)
    PROVE  /\ RestOf(raw, page, E, left, fs, ps) \in Seq(Seq(Sent))
           /\ Len(RestOf(raw, page, E, left, fs, ps)) = Len(fs)
           /\ FlattenSeq(RestOf(raw, page, E, left, fs, ps)) \in Seq(Sent)
<1>1. /\ raw \in BOOLEAN /\ page \in Seq(Unit) /\ left \in Nat /\ fs \in Seq(OpenFile) /\ Len(fs) \in Nat
  BY LenProperties DEF Levels
<1>2. PICK depth \in Nat : depth >= left + Len(fs) /\ E = Expanded(raw, page, depth)
  BY DEF Levels
<1>3. ASSUME NEW i \in 1 .. Len(fs)
      PROVE  From(Pieces(raw, page, fs[i].name, E[left + i - 1]), ps[i]) \in Seq(Sent)
  <2>1. left + i - 1 \in 0 .. depth
    BY <1>1, <1>2
  <2>2. E[left + i - 1] \in Texts
    BY <1>1, <1>2, <2>1, LevelsAre
  <2>3. fs[i] \in OpenFile /\ ps[i] \in Nat \ {0}
    BY <1>1, ElementOfSeq
  <2>4. fs[i].name \in Name \cup {"page"}
    BY <2>3 DEF OpenFile
  <2>5. Pieces(raw, page, fs[i].name, E[left + i - 1]) \in Seq(Seq(Sent))
    BY <1>1, <2>2, <2>4, PiecesAre
  <2>6. QED
    BY <2>3, <2>5, FromIs
<1>4. PICK q : q = RestOf(raw, page, E, left, fs, ps)
  OBVIOUS
<1>5. q = [i \in 1 .. Len(fs) |-> From(Pieces(raw, page, fs[i].name, E[left + i - 1]), ps[i])]
  BY <1>4 DEF RestOf
<1>6. q \in [1 .. Len(fs) -> Seq(Sent)]
  BY <1>3, <1>5
<1>7. q \in Seq(Seq(Sent)) /\ Len(q) = Len(fs)
  <2>1. PICK n \in Nat : n = Len(fs)
    BY <1>1
  <2>2. q \in [1 .. n -> Seq(Sent)]
    BY <1>6, <2>1
  <2>3. QED
    BY <2>1, <2>2, ListIs
<1>8. FlattenSeq(q) \in Seq(Sent)
  BY <1>7, FlatType
<1>9. QED
  BY <1>4, <1>7, <1>8

\* The innermost file, and those around it.
HeadRest(raw, page, E, left, fs, ps, q) ==
    /\ q \in Seq(Seq(Sent)) /\ ps[1] \in Nat \ {0} /\ From(q, ps[1]) \in Seq(Sent)
    /\ Levels(raw, page, E, left + 1, Tail(fs)) /\ Tail(ps) \in Seq(Nat \ {0}) /\ Len(Tail(ps)) = Len(Tail(fs))
    /\ FlattenSeq(RestOf(raw, page, E, left + 1, Tail(fs), Tail(ps))) \in Seq(Sent)
    /\ FlattenSeq(RestOf(raw, page, E, left, fs, ps)) =
          From(q, ps[1]) \o FlattenSeq(RestOf(raw, page, E, left + 1, Tail(fs), Tail(ps)))

LEMMA RestHead ==
    ASSUME NEW raw, NEW page, NEW E, NEW left, NEW fs, Levels(raw, page, E, left, fs), fs # <<>>,
           NEW ps \in Seq(Nat \ {0}), Len(ps) = Len(fs),
           NEW q, q = Pieces(raw, page, fs[1].name, E[left])
    PROVE  HeadRest(raw, page, E, left, fs, ps, q)
<1>1. /\ raw \in BOOLEAN /\ page \in Seq(Unit) /\ left \in Nat /\ fs \in Seq(OpenFile)
  BY DEF Levels
<1>2. PICK depth \in Nat : depth >= left + Len(fs) /\ E = Expanded(raw, page, depth)
  BY DEF Levels
<1>3. PICK gs, rs : gs = Tail(fs) /\ rs = Tail(ps)
  OBVIOUS
<1>4. /\ fs[1] \in OpenFile /\ Len(fs) \in Nat \ {0} /\ gs \in Seq(OpenFile) /\ Len(gs) = Len(fs) - 1
      /\ \A i \in 1 .. Len(fs) - 1 : gs[i] = fs[i + 1]
  BY <1>1, <1>3, FirstOf
<1>5. ps # <<>>
  BY <1>4, EmptySeq
<1>6. /\ ps[1] \in Nat \ {0} /\ rs \in Seq(Nat \ {0}) /\ Len(rs) = Len(fs) - 1
      /\ \A i \in 1 .. Len(fs) - 1 : rs[i] = ps[i + 1]
  BY <1>3, <1>5, FirstOf
<1>7. left + 1 \in Nat /\ depth >= (left + 1) + Len(gs) /\ left \in 0 .. depth
  BY <1>1, <1>2, <1>4
<1>8. Levels(raw, page, E, left + 1, gs)
  BY <1>1, <1>2, <1>4, <1>7 DEF Levels
<1>9. E[left] \in Texts /\ fs[1].name \in Name \cup {"page"}
  <2>1. E[left] \in Texts
    BY <1>1, <1>2, <1>7, LevelsAre
  <2>2. QED
    BY <1>4, <2>1 DEF OpenFile
<1>10. q \in Seq(Seq(Sent)) /\ From(q, ps[1]) \in Seq(Sent)
  <2>1. q \in Seq(Seq(Sent))
    BY <1>1, <1>9, PiecesAre
  <2>2. QED
    BY <1>6, <2>1, FromIs
<1>11. PICK a, b : a = RestOf(raw, page, E, left, fs, ps) /\ b = RestOf(raw, page, E, left + 1, gs, rs)
  OBVIOUS
<1>12. /\ a \in Seq(Seq(Sent)) /\ Len(a) = Len(fs)
       /\ b \in Seq(Seq(Sent)) /\ Len(b) = Len(gs) /\ FlattenSeq(b) \in Seq(Sent)
  <2>1. a \in Seq(Seq(Sent)) /\ Len(a) = Len(fs)
    BY <1>11, RestIs
  <2>2. Len(rs) = Len(gs)
    BY <1>4, <1>6
  <2>3. b \in Seq(Seq(Sent)) /\ Len(b) = Len(gs) /\ FlattenSeq(b) \in Seq(Sent)
    BY <1>6, <1>8, <1>11, <2>2, RestIs
  <2>4. QED
    BY <2>1, <2>3
<1>13. a[1] = From(q, ps[1])
  <2>1. a = [i \in 1 .. Len(fs) |-> From(Pieces(raw, page, fs[i].name, E[left + i - 1]), ps[i])]
    BY <1>11 DEF RestOf
  <2>2. 1 \in 1 .. Len(fs) /\ left + 1 - 1 = left
    BY <1>1, <1>4
  <2>3. QED
    BY <2>1, <2>2
<1>14. a # <<>>
  BY <1>4, <1>12, EmptySeq
<1>15. PICK c : c = Tail(a)
  OBVIOUS
<1>16. c \in Seq(Seq(Sent)) /\ Len(c) = Len(a) - 1 /\ (\A i \in 1 .. Len(a) - 1 : c[i] = a[i + 1])
  BY <1>12, <1>14, <1>15, FirstOf
<1>17. c = b
  <2>1. a = [i \in 1 .. Len(fs) |-> From(Pieces(raw, page, fs[i].name, E[left + i - 1]), ps[i])]
    BY <1>11 DEF RestOf
  <2>2. b = [i \in 1 .. Len(gs) |-> From(Pieces(raw, page, gs[i].name, E[left + 1 + i - 1]), rs[i])]
    BY <1>11 DEF RestOf
  <2>3. Len(c) = Len(b) /\ Len(b) = Len(fs) - 1 /\ Len(gs) = Len(fs) - 1 /\ Len(c) = Len(fs) - 1
    BY <1>4, <1>12, <1>16
  <2>4. ASSUME NEW i \in 1 .. Len(c)
        PROVE  c[i] = b[i]
    <3>1. i \in 1 .. Len(fs) - 1 /\ i + 1 \in 1 .. Len(fs) /\ i \in 1 .. Len(gs) /\ i \in 1 .. Len(a) - 1
      BY <1>4, <1>12, <2>3
    <3>2. left + 1 + i - 1 = left + (i + 1) - 1
      BY <1>1, <3>1
    <3>3. c[i] = a[i + 1] /\ gs[i] = fs[i + 1] /\ rs[i] = ps[i + 1]
      BY <1>4, <1>6, <1>16, <3>1
    <3>4. a[i + 1] = From(Pieces(raw, page, fs[i + 1].name, E[left + (i + 1) - 1]), ps[i + 1])
      BY <2>1, <3>1
    <3>5. b[i] = From(Pieces(raw, page, gs[i].name, E[left + 1 + i - 1]), rs[i])
      BY <2>2, <3>1
    <3>6. QED
      BY <3>2, <3>3, <3>4, <3>5
  <2>5. QED
    BY <1>12, <1>16, <2>3, <2>4, SeqSame
<1>18. FlattenSeq(a) = a[1] \o FlattenSeq(c)
  BY <1>12, <1>14, <1>15, FlatHead
<1>19. QED
  BY <1>3, <1>4, <1>6, <1>8, <1>10, <1>11, <1>12, <1>13, <1>17, <1>18 DEF HeadRest

\* Only the names of the files matter.
LEMMA RestSame ==
    ASSUME NEW raw, NEW page, NEW E, NEW left, NEW fs, NEW gs, NEW ps, Len(gs) = Len(fs),
           \A i \in 1 .. Len(fs) : gs[i].name = fs[i].name
    PROVE  RestOf(raw, page, E, left, gs, ps) = RestOf(raw, page, E, left, fs, ps)
BY DEF RestOf

----------------------------------------------------------------------------
(* The text queued *)

Kept(q) == [i \in 1 .. Len(q) |-> IF q[i] = Junk THEN <<>> ELSE <<q[i]>>]

LEMMA KeptIs ==
    ASSUME NEW q \in Seq(Sent)
    PROVE  Kept(q) \in Seq(Seq(Sent)) /\ Len(Kept(q)) = Len(q) /\ NoJunk(q) = FlattenSeq(Kept(q)) /\ NoJunk(q) \in Seq(Sent)
<1>1. Len(q) \in Nat /\ \A i \in 1 .. Len(q) : q[i] \in Sent
  BY LenProperties, ElementOfSeq
<1>2. PICK k : k = Kept(q)
  OBVIOUS
<1>3. k = [i \in 1 .. Len(q) |-> IF q[i] = Junk THEN <<>> ELSE <<q[i]>>]
  BY <1>2 DEF Kept
<1>4. \A i \in 1 .. Len(q) : k[i] \in Seq(Sent)
  BY <1>1, <1>3, EmptySeq
<1>5. k \in [1 .. Len(q) -> Seq(Sent)]
  BY <1>3, <1>4
<1>6. PICK n \in Nat : n = Len(q)
  BY <1>1
<1>7. k \in Seq(Seq(Sent)) /\ Len(k) = n
  BY <1>5, <1>6, ListIs
<1>8. NoJunk(q) = FlattenSeq(k)
  BY <1>2, Zenon DEF NoJunk, Kept
<1>9. QED
  BY <1>2, <1>6, <1>7, <1>8, FlatType

LEMMA NoJunkBoth ==
    ASSUME NEW a \in Seq(Sent), NEW b \in Seq(Sent)
    PROVE  NoJunk(a \o b) = NoJunk(a) \o NoJunk(b)
<1>1. PICK c : c = a \o b
  OBVIOUS
<1>2. /\ Len(a) \in Nat /\ Len(b) \in Nat /\ c \in Seq(Sent) /\ Len(c) = Len(a) + Len(b)
      /\ \A i \in 1 .. Len(a) + Len(b) : c[i] = IF i <= Len(a) THEN a[i] ELSE b[i - Len(a)]
  BY <1>1, ConcatProperties, LenProperties
<1>3. PICK x, y, z : x = Kept(a) /\ y = Kept(b) /\ z = Kept(c)
  OBVIOUS
<1>4. /\ x = [i \in 1 .. Len(a) |-> IF a[i] = Junk THEN <<>> ELSE <<a[i]>>]
      /\ y = [i \in 1 .. Len(b) |-> IF b[i] = Junk THEN <<>> ELSE <<b[i]>>]
      /\ z = [i \in 1 .. Len(c) |-> IF c[i] = Junk THEN <<>> ELSE <<c[i]>>]
  BY <1>3 DEF Kept
<1>5. /\ x \in Seq(Seq(Sent)) /\ Len(x) = Len(a) /\ NoJunk(a) = FlattenSeq(x)
      /\ y \in Seq(Seq(Sent)) /\ Len(y) = Len(b) /\ NoJunk(b) = FlattenSeq(y)
      /\ z \in Seq(Seq(Sent)) /\ Len(z) = Len(c) /\ NoJunk(c) = FlattenSeq(z)
  BY <1>2, <1>3, KeptIs
<1>6. PICK w, V : w = x \o y /\ V = Seq(Sent)
  OBVIOUS
<1>7. /\ w \in Seq(V) /\ Len(w) = Len(x) + Len(y)
      /\ \A i \in 1 .. Len(x) + Len(y) : w[i] = IF i <= Len(x) THEN x[i] ELSE y[i - Len(x)]
  <2>1. x \in Seq(V) /\ y \in Seq(V)
    BY <1>5, <1>6
  <2>2. QED
    BY <1>6, <2>1, ConcatProperties
<1>8. Len(w) = Len(z)
  BY <1>2, <1>5, <1>7
<1>9. ASSUME NEW i \in 1 .. Len(z)
      PROVE  z[i] = w[i]
  <2>1. i \in 1 .. Len(c) /\ i \in 1 .. Len(a) + Len(b) /\ i \in 1 .. Len(x) + Len(y)
    BY <1>2, <1>5
  <2>2. CASE i <= Len(a)
    <3>1. i \in 1 .. Len(a) /\ c[i] = a[i] /\ w[i] = x[i]
      BY <1>2, <1>5, <1>7, <2>1, <2>2
    <3>2. QED
      BY <1>4, <2>1, <3>1
  <2>3. CASE ~(i <= Len(a))
    <3>1. i - Len(a) \in 1 .. Len(b) /\ c[i] = b[i - Len(a)] /\ w[i] = y[i - Len(a)]
      BY <1>2, <1>5, <1>7, <2>1, <2>3
    <3>2. QED
      BY <1>4, <2>1, <3>1
  <2>4. QED
    BY <2>2, <2>3
<1>10. z = w
  <2>1. z \in Seq(V)
    BY <1>5, <1>6
  <2>2. QED
    BY <1>7, <1>8, <1>9, <2>1, SeqSame
<1>11. FlattenSeq(w) = FlattenSeq(x) \o FlattenSeq(y)
  BY <1>5, <1>6, FlatBoth
<1>12. QED
  BY <1>1, <1>5, <1>10, <1>11

LEMMA NoJunkSame ==
    ASSUME NEW s \in Seq(Sent), \A i \in 1 .. Len(s) : s[i] # Junk
    PROVE  NoJunk(s) = s
<1>1. Kept(s) = Singles(s)
  BY DEF Kept, Singles
<1>2. QED
  BY <1>1, KeptIs, FlatSingles

LEMMA OneUnit ==
    ASSUME NEW u \in Sent
    PROVE  <<u>> \in Seq(Sent) /\ NoJunk(<<u>>) = IF u = Junk THEN <<>> ELSE <<u>>
<1>1. PICK s, k : s = <<u>> /\ k = Kept(s)
  OBVIOUS
<1>2. s \in Seq(Sent) /\ Len(s) = 1 /\ s[1] = u /\ 1 .. Len(s) = {1}
  BY <1>1
<1>3. u # Junk => NoJunk(s) = s
  <2>1. ASSUME u # Junk
        PROVE  NoJunk(s) = s
    <3>1. \A i \in 1 .. Len(s) : s[i] # Junk
      BY <1>2, <2>1
    <3>2. QED
      BY <1>2, <3>1, NoJunkSame
  <2>2. QED
    BY <2>1
<1>4. u = Junk => NoJunk(s) = <<>>
  <2>1. ASSUME u = Junk
        PROVE  NoJunk(s) = <<>>
    <3>1. k = [i \in 1 .. Len(s) |-> IF s[i] = Junk THEN <<>> ELSE <<s[i]>>]
      BY <1>1 DEF Kept
    <3>2. k = [i \in 1 .. 1 |-> <<>>]
      BY <1>2, <2>1, <3>1
    <3>3. k = <<<<>>>>
      BY <3>2
    <3>4. NoJunk(s) = FlattenSeq(k)
      BY <1>1, <1>2, KeptIs
    <3>5. <<>> \in Seq(Sent)
      BY EmptySeq
    <3>6. QED
      BY <3>3, <3>4, <3>5, FlatOne
  <2>2. QED
    BY <2>1
<1>5. QED
  BY <1>1, <1>2, <1>3, <1>4

LEMMA PlaceIsNoJunk ==
    ASSUME NEW n, NEW p \in Nat \ {0}
    PROVE  UnitName(n, p) # Junk
BY DEF UnitName, Junk

----------------------------------------------------------------------------
(* What is queued is in its order *)

Unread(raw, ps) == FlattenSeq(RestOf(raw, req.page, Expanded(raw, req.page, Depth), fileleft, files, ps))
Outer(raw, rs) == FlattenSeq(RestOf(raw, req.page, Expanded(raw, req.page, Depth), fileleft + 1, Tail(files), rs))
HeadPieces(raw) == Pieces(raw, req.page, files[1].name, Expanded(raw, req.page, Depth)[fileleft])

\* No call is behind a place from which its file is still to be copied.
Reached(ps) ==
    /\ ps \in Seq(Nat \ {0}) /\ Len(ps) = Len(files)
    /\ \A i \in 1 .. Len(files) : ps[i] <= files[i].pos + 1
    /\ \A i \in 1 .. Len(files), j \in 1 .. Len(stack) :
          stack[j].fi = Len(files) - i + 1 /\ stack[j].at # "read"
             => ps[i] <= files[i].pos - files[i].inbuf + stack[j].len + 1

FilesOK ==
    /\ \A i \in 1 .. Len(files) : files[i].name \notin Routines
    /\ ~req.binary => \A i \in 1 .. Len(files) : files[i].inbuf = 0 => files[i].nextbuf = 0

InPlace(ps) == Reached(ps) /\ PartOf(NoJunk(queued) \o Unread(TRUE, ps), Expand(TRUE))

OrderInv ==
    /\ IInv /\ FilesOK
    /\ ~req.binary => PartOf(NoJunk(queued), Expand(TRUE))
    /\ ~req.binary /\ state = "CONTENT" => \E ps : InPlace(ps)

LEMMA LevelsNow ==
    ASSUME Types, NEW raw \in BOOLEAN, NEW page, page = req.page, NEW E, E = Expanded(raw, page, Depth)
    PROVE  Levels(raw, page, E, fileleft, files) /\ Depth \in Nat /\ page \in Seq(Unit)
<1>1. Len(files) \in Nat /\ fileleft \in Nat /\ files \in Seq(OpenFile)
  BY LenProperties DEF Types
<1>2. Depth \in Nat /\ Depth >= fileleft + Len(files)
  BY <1>1 DEF Depth
<1>3. page \in Seq(Unit)
  <2>1. req \in Request
    BY RequestAssumption DEF Types
  <2>2. QED
    BY <2>1 DEF Request
<1>4. QED
  BY <1>1, <1>2, <1>3 DEF Levels

LEMMA ExpandType ==
    ASSUME Types, NEW raw \in BOOLEAN
    PROVE  Expand(raw) \in Seq(Sent)
<1>1. PICK E : E = Expanded(raw, req.page, Depth)
  OBVIOUS
<1>2. Depth \in Nat /\ req.page \in Seq(Unit)
  BY <1>1, LevelsNow
<1>3. E[Depth] \in Texts
  BY <1>1, <1>2, LevelsAre
<1>4. Expand(raw) = E[Depth]["page"]
  BY <1>1, ExpandIs
<1>5. QED
  BY <1>3, <1>4 DEF Texts

LEMMA SameExpand ==
    ASSUME req' = req, Depth' = Depth
    PROVE  \A raw : Expand(raw)' = Expand(raw)
<1>1. \A raw : Expand(raw)' = Expanded(raw, req'.page, Depth')[Depth']["page"]
  BY ExpandIsNext
<1>2. \A raw : Expand(raw) = Expanded(raw, req.page, Depth)[Depth]["page"]
  BY ExpandIs
<1>3. QED
  BY <1>1, <1>2, Zenon

\* The innermost file, and what is behind its include in the others.
LEMMA UnreadHead ==
    ASSUME Types, files # <<>>, NEW raw \in BOOLEAN, NEW ps \in Seq(Nat \ {0}), Len(ps) = Len(files)
    PROVE  /\ HeadPieces(raw) \in Seq(Seq(Sent)) /\ ps[1] \in Nat \ {0} /\ From(HeadPieces(raw), ps[1]) \in Seq(Sent)
           /\ Tail(ps) \in Seq(Nat \ {0}) /\ Len(Tail(ps)) = Len(Tail(files)) /\ Outer(raw, Tail(ps)) \in Seq(Sent)
           /\ Unread(raw, ps) = From(HeadPieces(raw), ps[1]) \o Outer(raw, Tail(ps))
<1>1. PICK E, page, left, fs : /\ E = Expanded(raw, req.page, Depth) /\ page = req.page
                               /\ left = fileleft /\ fs = files
  OBVIOUS
<1>2. Levels(raw, page, E, left, fs) /\ fs # <<>> /\ Len(ps) = Len(fs)
  BY <1>1, LevelsNow
<1>3. PICK q : q = Pieces(raw, page, fs[1].name, E[left])
  OBVIOUS
<1>4. /\ q \in Seq(Seq(Sent)) /\ ps[1] \in Nat \ {0} /\ From(q, ps[1]) \in Seq(Sent)
      /\ Tail(ps) \in Seq(Nat \ {0}) /\ Len(Tail(ps)) = Len(Tail(fs))
      /\ FlattenSeq(RestOf(raw, page, E, left + 1, Tail(fs), Tail(ps))) \in Seq(Sent)
      /\ FlattenSeq(RestOf(raw, page, E, left, fs, ps)) =
            From(q, ps[1]) \o FlattenSeq(RestOf(raw, page, E, left + 1, Tail(fs), Tail(ps)))
  <2>1. HeadRest(raw, page, E, left, fs, ps, q)
    BY <1>2, <1>3, RestHead
  <2>2. QED
    BY <2>1 DEF HeadRest
<1>5. q = HeadPieces(raw)
  BY <1>1, <1>3, Zenon DEF HeadPieces
<1>6. \A rs : Outer(raw, rs) = FlattenSeq(RestOf(raw, page, E, left + 1, Tail(fs), rs))
  BY <1>1, Zenon DEF Outer
<1>7. Unread(raw, ps) = FlattenSeq(RestOf(raw, page, E, left, fs, ps))
  BY <1>1, Zenon DEF Unread
<1>8. QED
  BY <1>1, <1>4, <1>5, <1>6, <1>7

LEMMA UnreadType ==
    ASSUME Types, NEW raw \in BOOLEAN, NEW ps \in Seq(Nat \ {0}), Len(ps) = Len(files)
    PROVE  Unread(raw, ps) \in Seq(Sent)
<1>1. PICK E, page : E = Expanded(raw, req.page, Depth) /\ page = req.page
  OBVIOUS
<1>2. Levels(raw, page, E, fileleft, files)
  BY <1>1, LevelsNow
<1>3. FlattenSeq(RestOf(raw, page, E, fileleft, files, ps)) \in Seq(Sent)
  BY <1>2, RestIs
<1>4. QED
  BY <1>1, <1>3, Zenon DEF Unread

\* The state of the files that counts is the same.
LEMMA SameOuter ==
    ASSUME req' = req, Depth' = Depth, fileleft' = fileleft, Tail(files') = Tail(files)
    PROVE  \A raw, rs : Outer(raw, rs)' = Outer(raw, rs)
BY Zenon DEF Outer

LEMMA SameHeadPieces ==
    ASSUME req' = req, Depth' = Depth, fileleft' = fileleft, files'[1].name = files[1].name
    PROVE  \A raw : HeadPieces(raw)' = HeadPieces(raw)
BY Zenon DEF HeadPieces

LEMMA SameUnread ==
    ASSUME req' = req, Depth' = Depth, fileleft' = fileleft, Len(files') = Len(files),
           \A i \in 1 .. Len(files) : files'[i].name = files[i].name
    PROVE  \A raw, ps : Unread(raw, ps)' = Unread(raw, ps)
<1>1. SUFFICES ASSUME NEW raw, NEW ps
               PROVE  Unread(raw, ps)' = Unread(raw, ps)
  OBVIOUS
<1>2. PICK E, page : E = Expanded(raw, req.page, Depth) /\ page = req.page
  OBVIOUS
<1>3. Unread(raw, ps) = FlattenSeq(RestOf(raw, page, E, fileleft, files, ps))
  BY <1>2, Zenon DEF Unread
<1>4. Unread(raw, ps)' = FlattenSeq(RestOf(raw, page, E, fileleft, files', ps))
  BY <1>2, Zenon DEF Unread
<1>5. PICK gs : gs = files'
  OBVIOUS
<1>6. RestOf(raw, page, E, fileleft, gs, ps) = RestOf(raw, page, E, fileleft, files, ps)
  BY <1>5, RestSame
<1>7. QED
  BY <1>3, <1>4, <1>5, <1>6

LEMMA PoppedUnread ==
    ASSUME req' = req, Depth' = Depth, fileleft' = fileleft + 1, files' = Tail(files)
    PROVE  \A raw, rs : Unread(raw, rs)' = Outer(raw, rs)
BY Zenon DEF Outer, Unread


\* The innermost call goes on in its file, from r or later.
LEMMA HeadReached ==
    ASSUME IInv, Working, NEW f, HeadFile(f), NEW at, NEW len, Stepped(at, len),
           NEW ps, Reached(ps), NEW r, r <= f.pos + 1, at # "read" => r <= f.pos - f.inbuf + len + 1,
           NEW qs \in Seq(Nat \ {0}), Len(qs) = Len(ps), qs[1] = r, \A i \in 2 .. Len(ps) : qs[i] = ps[i]
    PROVE  Reached(qs)'
<1>1. /\ Len(files) \in Nat \ {0} /\ Len(stack) \in Nat \ {0} /\ stack[1].fi = Len(files)
      /\ \A i \in 2 .. Len(stack) : stack[i].fi < Len(files)
  BY DEF Working
<1>2. /\ Len(files') = Len(files) /\ files'[1] = f /\ \A i \in 2 .. Len(files) : files'[i] = files[i]
  BY DEF HeadFile
<1>3. /\ Len(stack') = Len(stack) /\ stack'[1].fi = stack[1].fi /\ stack'[1].at = at /\ stack'[1].len = len
      /\ \A i \in 2 .. Len(stack) : stack'[i] = stack[i]
  BY DEF Stepped
<1>4. /\ Len(ps) = Len(files)
      /\ \A i \in 1 .. Len(files) : ps[i] <= files[i].pos + 1
      /\ \A i \in 1 .. Len(files), j \in 1 .. Len(stack) :
            stack[j].fi = Len(files) - i + 1 /\ stack[j].at # "read"
               => ps[i] <= files[i].pos - files[i].inbuf + stack[j].len + 1
  BY DEF Reached
<1>5. ASSUME NEW i \in 1 .. Len(files)
      PROVE  qs[i] <= files'[i].pos + 1
  <2>1. i = 1 \/ i \in 2 .. Len(files)
    BY <1>1
  <2>2. QED
    BY <1>2, <1>4, <2>1
<1>6. ASSUME NEW i \in 1 .. Len(files), NEW j \in 1 .. Len(stack),
             stack'[j].fi = Len(files) - i + 1, stack'[j].at # "read"
      PROVE  qs[i] <= files'[i].pos - files'[i].inbuf + stack'[j].len + 1
  <2>1. (i = 1 \/ i \in 2 .. Len(files)) /\ (j = 1 \/ j \in 2 .. Len(stack))
    BY <1>1
  <2>2. CASE j = 1
    <3>1. i = 1
      BY <1>1, <1>3, <1>6, <2>2
    <3>2. QED
      BY <1>2, <1>3, <1>6, <2>2, <3>1
  <2>3. CASE j \in 2 .. Len(stack)
    <3>1. stack'[j] = stack[j] /\ stack[j].fi < Len(files)
      BY <1>1, <1>3, <2>3
    <3>2. i # 1
      BY <1>1, <1>6, <3>1
    <3>3. i \in 2 .. Len(files) /\ files'[i] = files[i] /\ qs[i] = ps[i]
      BY <1>2, <1>4, <2>1, <3>2
    <3>4. ps[i] <= files[i].pos - files[i].inbuf + stack[j].len + 1
      BY <1>4, <1>6, <3>1
    <3>5. QED
      BY <3>1, <3>3, <3>4
  <2>4. QED
    BY <2>1, <2>2, <2>3
<1>7. QED
  BY <1>2, <1>3, <1>4, <1>5, <1>6 DEF Reached

\* The blocks stay where they are, and no call is new but one that starts to read.
Settled ==
    /\ Len(files') = Len(files)
    /\ \A i \in 1 .. Len(files) : /\ files'[i].name = files[i].name /\ files'[i].pos = files[i].pos
                                  /\ files'[i].inbuf = files[i].inbuf
    /\ \A j \in 1 .. Len(stack') : \/ stack'[j].at = "read"
                                   \/ \E k \in 1 .. Len(stack) : stack'[j] = stack[k]

LEMMA SettledReached ==
    ASSUME Settled, NEW ps, Reached(ps)
    PROVE  Reached(ps)'
<1>1. \A i \in 1 .. Len(files') : ps[i] <= files'[i].pos + 1
  BY DEF Reached, Settled
<1>2. ASSUME NEW i \in 1 .. Len(files'), NEW j \in 1 .. Len(stack'),
             stack'[j].fi = Len(files') - i + 1, stack'[j].at # "read"
      PROVE  ps[i] <= files'[i].pos - files'[i].inbuf + stack'[j].len + 1
  <2>1. PICK k \in 1 .. Len(stack) : stack'[j] = stack[k]
    BY <1>2 DEF Settled
  <2>2. Len(files') = Len(files) /\ files'[i].pos = files[i].pos /\ files'[i].inbuf = files[i].inbuf
    BY DEF Settled
  <2>3. ps[i] <= files[i].pos - files[i].inbuf + stack[k].len + 1
    BY <1>2, <2>1, <2>2 DEF Reached
  <2>4. QED
    BY <2>1, <2>2, <2>3
<1>3. ps \in Seq(Nat \ {0}) /\ Len(ps) = Len(files')
  BY DEF Reached, Settled
<1>4. QED
  BY <1>1, <1>2, <1>3 DEF Reached

\* Nothing is queued.
LEMMA OrderSame ==
    ASSUME OrderInv, IInv', req' = req, queued' = queued, FilesOK', ~req.binary => Depth' = Depth,
           ~req.binary /\ state' = "CONTENT" =>
              /\ state = "CONTENT" /\ fileleft' = fileleft /\ Len(files') = Len(files)
              /\ \A i \in 1 .. Len(files) : files'[i].name = files[i].name
              /\ \A ps : Reached(ps) => Reached(ps)'
    PROVE  OrderInv'
<1>1. ASSUME ~req.binary
      PROVE  /\ PartOf(NoJunk(queued), Expand(TRUE))'
             /\ state' = "CONTENT" => \E ps : InPlace(ps)'
  <2>1. Expand(TRUE)' = Expand(TRUE) /\ NoJunk(queued)' = NoJunk(queued)
    <3>1. \A raw : Expand(raw)' = Expand(raw)
      BY <1>1, SameExpand
    <3>2. NoJunk(queued)' = NoJunk(queued)
      BY Zenon DEF NoJunk
    <3>3. QED
      BY <3>1, <3>2, Zenon
  <2>2. PartOf(NoJunk(queued), Expand(TRUE))
    BY <1>1 DEF OrderInv
  <2>3. PartOf(NoJunk(queued), Expand(TRUE))'
    BY <2>1, <2>2, Zenon DEF PartOf, Embeds
  <2>4. ASSUME state' = "CONTENT"
        PROVE  \E ps : InPlace(ps)'
    <3>1. PICK ps : InPlace(ps)
      BY <1>1, <2>4 DEF OrderInv
    <3>2. Reached(ps)'
      BY <1>1, <2>4, <3>1 DEF InPlace
    <3>3. Unread(TRUE, ps)' = Unread(TRUE, ps)
      BY <1>1, <2>4, SameUnread
    <3>4. PICK a, b, c : a = NoJunk(queued) /\ b = Unread(TRUE, ps) /\ c = Expand(TRUE)
      OBVIOUS
    <3>5. PartOf(a \o b, c)
      BY <3>1, <3>4 DEF InPlace
    <3>6. a = NoJunk(queued)' /\ b = Unread(TRUE, ps)' /\ c = Expand(TRUE)'
      BY <2>1, <3>3, <3>4
    <3>7. InPlace(ps)'
      BY <3>2, <3>5, <3>6, Zenon DEF InPlace
    <3>8. QED
      BY <3>7
  <2>5. QED
    BY <2>3, <2>4
<1>2. QED
  BY <1>1 DEF OrderInv


\* Lengths and places of a list with another first element.
LEMMA Renewed ==
    ASSUME NEW S, NEW ps \in Seq(S), ps # <<>>, NEW r \in S, NEW qs, qs = <<r>> \o Tail(ps)
    PROVE  /\ qs \in Seq(S) /\ Len(qs) = Len(ps) /\ qs[1] = r /\ Tail(qs) = Tail(ps)
           /\ \A i \in 2 .. Len(ps) : qs[i] = ps[i]
<1>1. PICK t : t = Tail(ps)
  OBVIOUS
<1>2. /\ t \in Seq(S) /\ Len(t) = Len(ps) - 1 /\ Len(ps) \in Nat \ {0}
      /\ \A i \in 1 .. Len(ps) - 1 : t[i] = ps[i + 1]
  BY <1>1, FirstOf
<1>3. qs = <<r>> \o t
  BY <1>1
<1>4. /\ qs \in Seq(S) /\ Len(qs) = Len(t) + 1 /\ qs[1] = r /\ Tail(qs) = t
      /\ \A i \in 2 .. Len(t) + 1 : qs[i] = t[i - 1]
  BY <1>2, <1>3, InFront
<1>5. Len(t) + 1 = Len(ps)
  BY <1>2
<1>6. ASSUME NEW i \in 2 .. Len(ps)
      PROVE  qs[i] = ps[i]
  <2>1. i - 1 \in 1 .. Len(ps) - 1 /\ (i - 1) + 1 = i
    BY <1>2
  <2>2. QED
    BY <1>2, <1>4, <1>5, <2>1
<1>7. QED
  BY <1>1, <1>4, <1>5, <1>6

JoinedAlike(a, b, c, d) == (a \o b) \o (c \o d) = a \o (b \o (c \o d))

LEMMA FourTexts ==
    ASSUME NEW S, NEW a \in Seq(S), NEW b \in Seq(S), NEW c \in Seq(S), NEW d \in Seq(S)
    PROVE  JoinedAlike(a, b, c, d)
<1>1. PICK e : e = c \o d
  OBVIOUS
<1>2. e \in Seq(S)
  BY <1>1, ConcatProperties
<1>3. (a \o b) \o e = a \o (b \o e)
  <2>1. ThreeAlike(a, b, e)
    BY <1>2, Associative, Zenon
  <2>2. QED
    BY <2>1, Zenon DEF ThreeAlike
<1>4. QED
  BY <1>1, <1>3, Zenon DEF JoinedAlike

\* The text queued takes its part of what was unread.
LEMMA PartTaken ==
    ASSUME NEW a \in Seq(Sent), NEW b \in Seq(Sent), NEW c \in Seq(Sent), NEW d \in Seq(Sent), NEW o \in Seq(Sent),
           NEW u, PartOf(b \o c, d), PartOf(a \o (d \o o), u)
    PROVE  PartOf((a \o b) \o (c \o o), u)
<1>1. b \o c \in Seq(Sent) /\ d \o o \in Seq(Sent)
  BY ConcatProperties
<1>2. PartOf((b \o c) \o o, d \o o)
  BY <1>1, PartOfItself, PartsJoined
<1>3. (b \o c) \o o \in Seq(Sent) /\ (b \o c) \o o = b \o (c \o o) /\ c \o o \in Seq(Sent) /\ b \o (c \o o) \in Seq(Sent)
  <2>1. (b \o c) \o o = b \o (c \o o)
    <3>1. ThreeAlike(b, c, o)
      BY Associative, Zenon
    <3>2. QED
      BY <3>1, Zenon DEF ThreeAlike
  <2>2. QED
    BY <1>1, <2>1, ConcatProperties
<1>4. PartOf(a \o ((b \o c) \o o), a \o (d \o o))
  BY <1>1, <1>2, <1>3, PartOfItself, PartsJoined
<1>5. (a \o b) \o (c \o o) = a \o (b \o (c \o o))
  <2>1. JoinedAlike(a, b, c, o)
    BY FourTexts
  <2>2. QED
    BY <2>1, Zenon DEF JoinedAlike
<1>6. QED
  BY <1>3, <1>4, <1>5, PartOfPart

\* The innermost call queues text and goes on.
LEMMA OrderAdds ==
    ASSUME OrderInv, IInv', FilesOK', Working, ~req.binary, req' = req, Depth' = Depth, fileleft' = fileleft,
           NEW f, HeadFile(f), f.name = files[1].name,
           stack[1].at # "read", NEW at, NEW len, Stepped(at, len),
           NEW text \in Seq(Sent), queued' = queued \o text,
           NEW r \in Nat \ {0}, r <= f.pos + 1, at # "read" => r <= f.pos - f.inbuf + len + 1,
           \A p \in Nat \ {0} : p <= files[1].pos - files[1].inbuf + stack[1].len + 1 /\ p <= files[1].pos + 1 =>
               PartOf(NoJunk(text) \o From(HeadPieces(TRUE), r), From(HeadPieces(TRUE), p))
    PROVE  OrderInv'
<1>1. Types /\ Types' /\ IInv /\ state = "CONTENT" /\ files # <<>> /\ Len(files) \in Nat \ {0} /\ Len(stack) \in Nat \ {0}
  BY DEF OrderInv, IInv, Working
<1>2. PICK ps : InPlace(ps)
  BY <1>1 DEF OrderInv
<1>3. ps \in Seq(Nat \ {0}) /\ Len(ps) = Len(files) /\ ps # <<>> /\ Reached(ps)
  BY <1>1, <1>2, EmptySeq DEF InPlace, Reached
<1>4. ps[1] <= files[1].pos - files[1].inbuf + stack[1].len + 1 /\ ps[1] <= files[1].pos + 1
  <2>1. 1 \in 1 .. Len(files) /\ 1 \in 1 .. Len(stack) /\ stack[1].fi = Len(files) - 1 + 1
    BY <1>1 DEF Working
  <2>2. QED
    BY <1>3, <2>1 DEF Reached
<1>5. PICK qs : qs = <<r>> \o Tail(ps)
  OBVIOUS
<1>6. /\ qs \in Seq(Nat \ {0}) /\ Len(qs) = Len(ps) /\ qs[1] = r /\ Tail(qs) = Tail(ps)
      /\ \A i \in 2 .. Len(ps) : qs[i] = ps[i]
  <2>1. PICK S : S = Nat \ {0}
    OBVIOUS
  <2>2. ps \in Seq(S) /\ r \in S
    BY <1>3, <2>1
  <2>3. /\ qs \in Seq(S) /\ Len(qs) = Len(ps) /\ qs[1] = r /\ Tail(qs) = Tail(ps)
        /\ \A i \in 2 .. Len(ps) : qs[i] = ps[i]
    BY <1>3, <1>5, <2>2, Renewed, SMTT(30)
  <2>4. QED
    BY <2>1, <2>3
<1>7. Reached(qs)'
  BY <1>1, <1>3, <1>6, HeadReached
<1>8. PICK h, o : h = HeadPieces(TRUE) /\ o = Outer(TRUE, Tail(ps))
  OBVIOUS
<1>9. /\ h \in Seq(Seq(Sent)) /\ ps[1] \in Nat \ {0} /\ From(h, ps[1]) \in Seq(Sent) /\ o \in Seq(Sent)
      /\ Unread(TRUE, ps) = From(h, ps[1]) \o o
  BY <1>1, <1>3, <1>8, UnreadHead
<1>10. Unread(TRUE, qs)' = Unread(TRUE, qs)
  <2>1. Len(files') = Len(files) /\ files'[1].name = files[1].name /\ \A i \in 2 .. Len(files) : files'[i] = files[i]
    BY DEF HeadFile
  <2>2. \A i \in 1 .. Len(files) : i = 1 \/ i \in 2 .. Len(files)
    BY <1>1
  <2>3. \A i \in 1 .. Len(files) : files'[i].name = files[i].name
    BY <2>1, <2>2
  <2>4. QED
    BY <2>1, <2>3, SameUnread
<1>11. Unread(TRUE, qs) = From(h, r) \o o /\ From(h, r) \in Seq(Sent)
  <2>1. Len(qs) = Len(files)
    BY <1>3, <1>6
  <2>2. Unread(TRUE, qs) = From(h, qs[1]) \o Outer(TRUE, Tail(qs)) /\ From(h, qs[1]) \in Seq(Sent)
    BY <1>1, <1>6, <1>8, <2>1, UnreadHead
  <2>3. QED
    BY <1>6, <1>8, <2>2
<1>12. Unread(TRUE, qs)' = From(h, r) \o o
  BY <1>10, <1>11
<1>13. PICK a, b, c : a = NoJunk(queued) /\ b = NoJunk(text) /\ c = Expand(TRUE)
  OBVIOUS
<1>14. a \in Seq(Sent) /\ b \in Seq(Sent) /\ NoJunk(queued') = a \o b
  <2>1. queued \in Seq(Sent)
    BY <1>1 DEF Types
  <2>2. QED
    BY <1>13, <2>1, KeptIs, NoJunkBoth
<1>15. PartOf(b \o From(h, r), From(h, ps[1]))
  BY <1>4, <1>8, <1>9, <1>13
<1>16. PartOf(a \o (From(h, ps[1]) \o o), c)
  BY <1>2, <1>9, <1>13 DEF InPlace
<1>17. PartOf((a \o b) \o (From(h, r) \o o), c)
  BY <1>9, <1>11, <1>14, <1>15, <1>16, PartTaken
<1>18. Expand(TRUE)' = c
  BY <1>13, SameExpand
<1>19. InPlace(qs)'
  BY <1>7, <1>12, <1>14, <1>17, <1>18 DEF InPlace
<1>20. PartOf(NoJunk(queued), Expand(TRUE))'
  <2>1. a \o b \in Seq(Sent) /\ From(h, r) \o o \in Seq(Sent)
    BY <1>9, <1>11, <1>14, ConcatProperties
  <2>2. PartOf(a \o b, (a \o b) \o (From(h, r) \o o))
    BY <2>1, EndsArePart
  <2>3. PartOf(a \o b, c)
    BY <1>17, <2>2, PartOfPart
  <2>4. QED
    BY <1>14, <1>18, <2>3
<1>21. QED
  BY <1>19, <1>20 DEF OrderInv


\* The place of the call at work, and the texts its file may include.
Inner(raw) == Expanded(raw, req.page, Depth)[fileleft]

LEMMA AtWork ==
    ASSUME IInv, FilesOK, Working, NEW raw \in BOOLEAN, NEW n, n = FileHead.name, NEW t, t = TextIn(req.page, n)
    PROVE  /\ n \in (Name \cup {"page"}) \ Routines /\ req.page \in Seq(Unit) /\ Inner(raw) \in Texts
           /\ n = files[1].name /\ TextOf(n) = t /\ t \in Seq(Unit) /\ Len(t) \in Nat
           /\ HeadPieces(raw) = Pieces(raw, req.page, n, Inner(raw)) /\ HeadPieces(raw) \in Seq(Seq(Sent))
           /\ Len(HeadPieces(raw)) = Len(t)
           /\ \A p \in 1 .. Len(t) : HeadPieces(raw)[p] = PieceIn(raw, req.page, n, p, Inner(raw))
           /\ Head(stack).len \in Nat /\ Head(stack).len = stack[1].len
           /\ files[1].pos \in Nat /\ files[1].inbuf \in Nat /\ files[1].inbuf <= files[1].pos /\ files[1].pos <= Len(t)
           /\ \A len \in Nat : /\ Place(len) = files[1].pos - files[1].inbuf + len + 1 /\ Place(len) \in Nat \ {0}
                               /\ InBlock(len) <=> len < files[1].inbuf
                               /\ InBlock(len) <=> Place(len) <= files[1].pos
                               /\ UnitAt(len) = t[Place(len)]
<1>1. /\ FileHead = files[1] /\ files[1] \in OpenFile /\ 1 \in 1 .. Len(files) /\ files # <<>>
      /\ Head(stack) = stack[1] /\ stack[1] \in Activation
  BY DEF Working, FileHead
<1>2. n = files[1].name /\ n \in (Name \cup {"page"}) \ Routines
  BY <1>1 DEF OpenFile, FilesOK
<1>3. Types /\ req.page \in Seq(Unit) /\ TextOf(n) = t /\ t \in Seq(Unit) /\ Len(t) \in Nat
  BY <1>2, TextIs, Zenon DEF IInv, TextOf, TextIn
<1>4. Inner(raw) \in Texts
  <2>1. PICK E : E = Expanded(raw, req.page, Depth)
    OBVIOUS
  <2>2. Depth \in Nat
    BY <1>3, LevelsNow
  <2>3. fileleft \in 0 .. Depth
    <3>1. Len(files) \in Nat /\ fileleft \in Nat
      BY <1>3, LenProperties DEF Types
    <3>2. QED
      BY <2>2, <3>1 DEF Depth
  <2>4. E[fileleft] \in Texts
    BY <1>3, <2>1, <2>2, <2>3, LevelsAre
  <2>5. QED
    BY <2>1, <2>4 DEF Inner
<1>5. HeadPieces(raw) = Pieces(raw, req.page, n, Inner(raw))
  BY <1>2, Zenon DEF HeadPieces, Inner
<1>6. /\ HeadPieces(raw) \in Seq(Seq(Sent)) /\ Len(HeadPieces(raw)) = Len(t)
      /\ \A p \in 1 .. Len(t) : HeadPieces(raw)[p] = PieceIn(raw, req.page, n, p, Inner(raw))
  BY <1>2, <1>3, <1>4, <1>5, PiecesAre
<1>7. Head(stack).len \in Nat /\ Head(stack).len = stack[1].len
  BY <1>1 DEF Activation
<1>8. files[1].pos \in Nat /\ files[1].inbuf \in Nat /\ files[1].inbuf <= files[1].pos /\ files[1].pos <= Len(t)
  <2>1. Block(files[1])
    BY <1>1 DEF IInv, BlocksOK
  <2>2. QED
    BY <1>1, <1>2, <1>3, <2>1, SizesAssumption DEF Block, OpenFile
<1>9. ASSUME NEW len \in Nat
      PROVE  /\ Place(len) = files[1].pos - files[1].inbuf + len + 1 /\ Place(len) \in Nat \ {0}
             /\ InBlock(len) <=> len < files[1].inbuf
             /\ InBlock(len) <=> Place(len) <= files[1].pos
             /\ UnitAt(len) = t[Place(len)]
  <2>1. Place(len) = files[1].pos - files[1].inbuf + len + 1 /\ (InBlock(len) <=> len < files[1].inbuf)
    BY <1>1 DEF Place, InBlock
  <2>2. UnitAt(len) = t[Place(len)]
    BY <1>1, <1>2, <1>3 DEF UnitAt
  <2>3. QED
    BY <1>8, <2>1, <2>2, SMTT(30)
<1>10. QED
  BY <1>2, <1>3, <1>4, <1>5, <1>6, <1>7, <1>8, <1>9

\* A unit is the first of what is unread from its place on.
LEMMA UnitTaken ==
    ASSUME IInv, FilesOK, Working, InBlock(Head(stack).len),
           NEW P, P = Place(Head(stack).len), NEW p \in Nat \ {0}, p <= P,
           NEW h, h = HeadPieces(TRUE), NEW u, u = UnitName(FileHead.name, P)
    PROVE  /\ <<u>> \in Seq(Sent) /\ u \in Sent /\ u # Junk /\ P \in Nat \ {0} /\ P <= files[1].pos
           /\ PartOf(<<u>> \o From(h, P + 1), From(h, p))
<1>1. PICK n, t : n = FileHead.name /\ t = TextIn(req.page, n)
  OBVIOUS
<1>2. /\ n \in (Name \cup {"page"}) \ Routines /\ req.page \in Seq(Unit) /\ Inner(TRUE) \in Texts
      /\ h \in Seq(Seq(Sent)) /\ Len(h) = Len(t) /\ Len(t) \in Nat
      /\ \A k \in 1 .. Len(t) : h[k] = PieceIn(TRUE, req.page, n, k, Inner(TRUE))
      /\ Head(stack).len \in Nat /\ files[1].pos \in Nat /\ files[1].pos <= Len(t)
  BY <1>1, AtWork
<1>3. P \in Nat \ {0} /\ P <= files[1].pos
  BY <1>1, <1>2, AtWork
<1>4. P \in 1 .. Len(t) /\ P <= Len(h) /\ P + 1 \in Nat \ {0} /\ P \in Int
  <2>1. PICK l, m : l = Len(t) /\ m = files[1].pos
    OBVIOUS
  <2>2. l \in Nat /\ m \in Nat /\ m <= l /\ P <= m /\ Len(h) = l
    BY <1>2, <1>3, <2>1
  <2>3. P \in 1 .. l /\ P <= l /\ P + 1 \in Nat \ {0} /\ P \in Int
    BY <1>3, <2>2
  <2>4. QED
    BY <2>1, <2>2, <2>3
<1>5. u \in Sent /\ <<u>> \in Seq(Sent) /\ u # Junk
  <2>1. u = UnitName(n, P) /\ n \in Name \cup {"page"}
    BY <1>1, <1>2
  <2>2. QED
    BY <1>3, <1>4, <2>1, UnitIsSent, PlaceIsNoJunk
<1>6. PICK x \in Seq(Sent) : h[P] = <<u>> \o x
  <2>1. PICK page, inner : page = req.page /\ inner = Inner(TRUE)
    OBVIOUS
  <2>2. page \in Seq(Unit) /\ inner \in Texts /\ P \in 1 .. Len(TextIn(page, n)) /\ n \in (Name \cup {"page"}) \ Routines
    BY <1>1, <1>2, <1>4, <2>1
  <2>3. \E x \in Seq(Sent) : PieceIn(TRUE, page, n, P, inner) = <<UnitName(n, P)>> \o x
    BY <2>2, RawPieces, ZenonT(60)
  <2>4. h[P] = PieceIn(TRUE, page, n, P, inner)
    BY <1>2, <1>4, <2>1
  <2>5. u = UnitName(n, P)
    BY <1>1
  <2>6. QED
    BY <2>3, <2>4, <2>5
<1>7. PICK e, r : e = <<u>> /\ r = From(h, P + 1)
  OBVIOUS
<1>8. r \in Seq(Sent) /\ e \in Seq(Sent) /\ From(h, P) = (e \o x) \o r
  <2>1. From(h, P) = h[P] \o From(h, P + 1)
    BY <1>2, <1>3, <1>4, FromIs
  <2>2. From(h, P + 1) \in Seq(Sent)
    BY <1>2, <1>4, FromIs
  <2>3. QED
    BY <1>5, <1>6, <1>7, <2>1, <2>2
<1>9. e \o x \in Seq(Sent) /\ PartOf(e, e \o x)
  BY <1>8, ConcatProperties, EndsArePart
<1>10. PartOf(e \o r, (e \o x) \o r)
  BY <1>8, <1>9, PartOfItself, PartsJoined
<1>11. PartOf(From(h, P), From(h, p))
  BY <1>2, <1>3, FromLater
<1>12. QED
  BY <1>3, <1>5, <1>7, <1>8, <1>10, <1>11, PartOfPart


\* What a copy comes to: without a txbuf the call returns.
LEMMA CopyUnitIs ==
    ASSUME IInv, Working, NEW u, CopyUnit(u)
    PROVE  \/ queued' = queued /\ Returned(TRUE, state) /\ "tx" \in lost'
           \/ /\ queued' = queued \o <<u>> /\ Stepped("copy", stack[1].len + 1) /\ state' = state /\ pc' = pc
              /\ lost' = lost
<1>1. /\ stack \in Seq(Activation) /\ stack # <<>> /\ Head(stack) = stack[1] /\ stack[1].len \in Nat
  BY DEF IInv, Types, Working, Activation
<1>2. CASE TailFull /\ txleft = 0
  <2>1. "tx" \in lost' /\ Return(TRUE, state) /\ queued' = queued
    BY <1>2 DEF CopyUnit
  <2>2. QED
    BY <1>1, <2>1, ReturnIs
<1>3. CASE ~(TailFull /\ txleft = 0)
  <2>1. Put(<<u>>, TailFull) /\ Step("copy", Head(stack).len + 1) /\ state' = state /\ pc' = pc /\ lost' = lost
    BY <1>3 DEF CopyUnit
  <2>2. stack[1].len + 1 \in Nat
    BY <1>1
  <2>3. Stepped("copy", stack[1].len + 1)
    BY <1>1, <2>1, <2>2, StepIs
  <2>4. QED
    BY <2>1, <2>3 DEF Put
<1>4. QED
  BY <1>2, <1>3

LEMMA ReturnSettled ==
    ASSUME Types, NEW error, NEW st, Returned(error, st), Len(files') = Len(files),
           \A i \in 1 .. Len(files) : /\ files'[i].name = files[i].name /\ files'[i].pos = files[i].pos
                                      /\ files'[i].inbuf = files[i].inbuf
    PROVE  Settled
<1>1. Len(stack) \in Nat
  BY LenProperties DEF Types
<1>2. ASSUME NEW j \in 1 .. Len(stack')
      PROVE  \E k \in 1 .. Len(stack) : stack'[j] = stack[k]
  <2>1. CASE Len(stack) > 1 /\ Len(stack') = Len(stack) - 1 /\ \A i \in 1 .. Len(stack) - 1 : stack'[i] = stack[i + 1]
    <3>1. j + 1 \in 1 .. Len(stack) /\ j \in 1 .. Len(stack) - 1
      BY <1>1, <2>1
    <3>2. QED
      BY <2>1, <3>1
  <2>2. CASE stack' = <<>>
    <3>1. Len(stack') = 0
      BY <2>2
    <3>2. j \in 1 .. 0
      BY <3>1
    <3>3. QED
      BY <3>2
  <2>3. QED
    BY <2>1, <2>2 DEF Returned
<1>3. QED
  BY <1>2 DEF Settled

\* The head file, with all but its marks the same.
Alike(f) == HeadFile(f) /\ f.name = files[1].name /\ f.pos = files[1].pos /\ f.inbuf = files[1].inbuf

LEMMA AlikeIs ==
    ASSUME Len(files) \in Nat, NEW f, Alike(f)
    PROVE  /\ Len(files') = Len(files)
           /\ \A i \in 1 .. Len(files) : /\ files'[i].name = files[i].name /\ files'[i].pos = files[i].pos
                                         /\ files'[i].inbuf = files[i].inbuf
<1>1. \A i \in 1 .. Len(files) : i = 1 \/ i \in 2 .. Len(files)
  OBVIOUS
<1>2. QED
  BY <1>1 DEF Alike, HeadFile

LEMMA AlikeFiles ==
    ASSUME FilesOK, Working, NEW f, Alike(f), req' = req, files[1].inbuf # 0
    PROVE  FilesOK'
<1>1. Len(files) \in Nat
  BY DEF Working
<1>2. /\ Len(files') = Len(files)
      /\ \A i \in 1 .. Len(files) : files'[i].name = files[i].name /\ files'[i].inbuf = files[i].inbuf
      /\ \A i \in 2 .. Len(files) : files'[i] = files[i]
      /\ \A i \in 1 .. Len(files) : i = 1 \/ i \in 2 .. Len(files)
  BY <1>1, AlikeIs DEF Alike, HeadFile
<1>3. QED
  BY <1>2 DEF FilesOK

LEMMA CopyUnitOrder ==
    ASSUME OrderInv, IInv', Working, ~req.binary, req' = req, fileleft' = fileleft,
           stack[1].at # "read", NEW f, Alike(f), NEW u, CopyUnit(u),
           \/ u = Junk /\ ~InBlock(Head(stack).len)
           \/ u = UnitName(FileHead.name, Place(Head(stack).len)) /\ InBlock(Head(stack).len)
    PROVE  OrderInv'
<1>1. IInv /\ FilesOK /\ Types /\ files[1].inbuf # 0 /\ Len(files) \in Nat \ {0}
  BY DEF OrderInv, IInv, Working
<1>2. FilesOK' /\ HeadFile(f) /\ f.name = files[1].name /\ f.pos = files[1].pos /\ f.inbuf = files[1].inbuf
  BY <1>1, AlikeFiles DEF Alike
<1>3. /\ Len(files') = Len(files)
      /\ \A i \in 1 .. Len(files) : /\ files'[i].name = files[i].name /\ files'[i].pos = files[i].pos
                                    /\ files'[i].inbuf = files[i].inbuf
  BY <1>1, AlikeIs
<1>4. Depth' = Depth
  BY <1>3 DEF Depth
<1>5. CASE queued' = queued /\ Returned(TRUE, state)
  <2>1. Settled
    BY <1>1, <1>3, <1>5, ReturnSettled
  <2>2. \A ps : Reached(ps) => Reached(ps)'
    BY <2>1, SettledReached
  <2>3. state' = "CONTENT" => state = "CONTENT"
    BY DEF Working
  <2>4. QED
    BY <1>1, <1>2, <1>3, <1>4, <1>5, <2>2, <2>3, OrderSame
<1>6. CASE queued' = queued \o <<u>> /\ Stepped("copy", stack[1].len + 1)
  <2>1. PICK n, t, h, P : n = FileHead.name /\ t = TextIn(req.page, n) /\ h = HeadPieces(TRUE) /\ P = Place(Head(stack).len)
    OBVIOUS
  <2>2. /\ Head(stack).len \in Nat /\ Head(stack).len = stack[1].len /\ h \in Seq(Seq(Sent))
        /\ files[1].pos \in Nat /\ files[1].inbuf \in Nat
        /\ P = files[1].pos - files[1].inbuf + stack[1].len + 1 /\ P \in Nat \ {0}
        /\ InBlock(Head(stack).len) <=> P <= files[1].pos
    BY <1>1, <2>1, AtWork
  <2>3. CASE u = Junk /\ ~InBlock(Head(stack).len)
    <3>1. PICK r : r = files[1].pos + 1
      OBVIOUS
    <3>2. r \in Nat \ {0} /\ r <= f.pos + 1 /\ r <= f.pos - f.inbuf + (stack[1].len + 1) + 1
      <4>1. PICK m, b, l : m = files[1].pos /\ b = files[1].inbuf /\ l = stack[1].len
        OBVIOUS
      <4>2. m \in Nat /\ b \in Nat /\ l \in Nat /\ P = m - b + l + 1 /\ P \in Nat /\ (InBlock(Head(stack).len) <=> P <= m)
        BY <2>2, <4>1
      <4>3. r = m + 1 /\ m < P
        BY <3>1, <4>1, <4>2, <2>3
      <4>4. r \in Nat \ {0} /\ r <= m + 1 /\ r <= m - b + (l + 1) + 1
        BY <4>2, <4>3
      <4>5. QED
        BY <1>2, <4>1, <4>4
    <3>3. u \in Sent
      BY <2>3 DEF Sent
    <3>4. <<u>> \in Seq(Sent) /\ NoJunk(<<u>>) = <<>>
      BY <2>3, <3>3, OneUnit
    <3>5. ASSUME NEW p \in Nat \ {0}, p <= files[1].pos + 1
          PROVE  PartOf(NoJunk(<<u>>) \o From(HeadPieces(TRUE), r), From(HeadPieces(TRUE), p))
      <4>1. From(h, r) \in Seq(Sent)
        BY <2>2, <3>2, FromIs
      <4>2. <<>> \o From(h, r) = From(h, r)
        BY <4>1, ConcatEmptySeq
      <4>3. PartOf(From(h, r), From(h, p))
        BY <2>2, <3>1, <3>2, <3>5, FromLater
      <4>4. QED
        BY <2>1, <3>4, <4>2, <4>3
    <3>6. PICK text : text = <<u>>
      OBVIOUS
    <3>7. QED
      BY <1>2, <1>4, <1>6, <3>2, <3>4, <3>5, <3>6, OrderAdds
  <2>4. CASE u = UnitName(FileHead.name, P) /\ InBlock(Head(stack).len)
    <3>1. PICK r : r = P + 1
      OBVIOUS
    <3>2. r \in Nat \ {0} /\ r <= f.pos + 1 /\ r <= f.pos - f.inbuf + (stack[1].len + 1) + 1
      <4>1. PICK m, b, l : m = files[1].pos /\ b = files[1].inbuf /\ l = stack[1].len
        OBVIOUS
      <4>2. m \in Nat /\ b \in Nat /\ l \in Nat /\ P = m - b + l + 1 /\ P \in Nat /\ (InBlock(Head(stack).len) <=> P <= m)
        BY <2>2, <4>1
      <4>3. r = P + 1 /\ P <= m
        BY <3>1, <4>1, <4>2, <2>4
      <4>4. r \in Nat \ {0} /\ r <= m + 1 /\ r <= m - b + (l + 1) + 1
        BY <4>2, <4>3
      <4>5. QED
        BY <1>2, <4>1, <4>4
    <3>3. \A p \in Nat \ {0} : p <= P =>
             /\ <<u>> \in Seq(Sent) /\ u \in Sent /\ u # Junk
             /\ PartOf(<<u>> \o From(h, P + 1), From(h, p))
      BY <1>1, <2>1, <2>4, UnitTaken
    <3>4. <<u>> \in Seq(Sent) /\ u \in Sent /\ u # Junk
      BY <2>2, <3>3
    <3>5. NoJunk(<<u>>) = <<u>>
      BY <3>4, OneUnit
    <3>6. ASSUME NEW p \in Nat \ {0}, p <= files[1].pos - files[1].inbuf + stack[1].len + 1
          PROVE  PartOf(NoJunk(<<u>>) \o From(HeadPieces(TRUE), r), From(HeadPieces(TRUE), p))
      BY <2>1, <2>2, <3>1, <3>3, <3>5, <3>6
    <3>7. PICK text : text = <<u>>
      OBVIOUS
    <3>8. QED
      BY <1>2, <1>4, <1>6, <3>2, <3>4, <3>6, <3>7, OrderAdds
  <2>5. QED
    BY <2>1, <2>3, <2>4
<1>7. QED
  BY <1>1, <1>5, <1>6, CopyUnitIs


\* The innermost call queues nothing and goes on.
LEMMA OrderGoes ==
    ASSUME OrderInv, IInv', FilesOK', Working, ~req.binary, req' = req, fileleft' = fileleft, queued' = queued,
           NEW f, HeadFile(f), f \in OpenFile, f.name = files[1].name, f.pos >= files[1].pos,
           NEW at, NEW len \in Nat, Stepped(at, len),
           at # "read" => f.pos - f.inbuf + len >=
                             IF stack[1].at = "read" THEN files[1].pos
                             ELSE files[1].pos - files[1].inbuf + stack[1].len
    PROVE  OrderInv'
<1>1. /\ IInv /\ state = "CONTENT" /\ Len(files) \in Nat \ {0} /\ Len(stack) \in Nat \ {0}
      /\ files[1] \in OpenFile /\ stack[1] \in Activation /\ stack[1].fi = Len(files)
  BY DEF OrderInv, Working
<1>2. /\ Len(files') = Len(files) /\ files'[1].name = files[1].name
      /\ \A i \in 1 .. Len(files) : i = 1 \/ i \in 2 .. Len(files)
      /\ \A i \in 2 .. Len(files) : files'[i] = files[i]
  BY <1>1 DEF HeadFile
<1>3. \A i \in 1 .. Len(files) : files'[i].name = files[i].name
  BY <1>2
<1>4. Depth' = Depth
  BY <1>2 DEF Depth
<1>5. ASSUME NEW ps, Reached(ps)
      PROVE  Reached(ps)'
  <2>1. PICK r : r = ps[1]
    OBVIOUS
  <2>2. /\ ps \in Seq(Nat \ {0}) /\ Len(ps) = Len(files) /\ 1 \in 1 .. Len(files) /\ 1 \in 1 .. Len(stack)
    BY <1>1, <1>5 DEF Reached
  <2>3. r \in Nat /\ r <= files[1].pos + 1
    BY <1>5, <2>1, <2>2 DEF Reached
  <2>4. stack[1].at # "read" => r <= files[1].pos - files[1].inbuf + stack[1].len + 1
    <3>1. stack[1].fi = Len(files) - 1 + 1
      BY <1>1
    <3>2. QED
      BY <1>5, <2>1, <2>2, <3>1 DEF Reached
  <2>5. PICK m, b, l, m2, b2 : m = files[1].pos /\ b = files[1].inbuf /\ l = stack[1].len /\ m2 = f.pos /\ b2 = f.inbuf
    OBVIOUS
  <2>6. m \in Nat /\ b \in Int /\ l \in Nat /\ m2 \in Nat /\ b2 \in Int
    BY <1>1, <2>5, SizesAssumption DEF OpenFile, Activation
  <2>7. r <= m2 + 1 /\ (at # "read" => r <= m2 - b2 + len + 1)
    BY <2>3, <2>4, <2>5, <2>6
  <2>8. QED
    BY <1>1, <1>5, <2>1, <2>2, <2>5, <2>7, HeadReached
<1>6. QED
  BY <1>1, <1>2, <1>3, <1>4, <1>5, OrderSame

LEMMA CopyTextOrder ==
    ASSUME OrderInv, IInv', CopyText
    PROVE  OrderInv'
<1>1. IInv /\ Working /\ Head(stack).at = "copy" /\ Head(stack) = stack[1] /\ ~req.binary
  BY Works DEF CopyText, Reading, OrderInv, Working
<1>2. /\ files' = files /\ fileleft' = fileleft /\ req' = req /\ InBlock(Head(stack).len)
      /\ CopyUnit(UnitName(FileHead.name, Place(Head(stack).len)))
  BY DEF CopyText, NoSend
<1>3. Alike(files[1])
  BY <1>1, <1>2, SameHead DEF Alike
<1>4. PICK u : u = UnitName(FileHead.name, Place(Head(stack).len))
  OBVIOUS
<1>5. QED
  BY <1>1, <1>2, <1>3, <1>4, CopyUnitOrder

LEMMA MarkedAlike ==
    ASSUME IInv, Working, NEW x \in Nat, SetHead([FileHead EXCEPT !.nextbuf = x])
    PROVE  \E f : Alike(f) /\ f \in OpenFile
<1>1. PICK f : f = [FileHead EXCEPT !.nextbuf = x]
  OBVIOUS
<1>2. FileHead = files[1] /\ FileHead \in OpenFile /\ files \in Seq(OpenFile) /\ files # <<>>
  BY DEF Working, FileHead, IInv, Types
<1>3. f \in OpenFile /\ f.inbuf = FileHead.inbuf /\ f.pos = FileHead.pos /\ f.name = FileHead.name
  BY <1>1, <1>2, Marked
<1>4. SetHead(f)
  BY <1>1
<1>5. HeadFile(f)
  BY <1>2, <1>3, <1>4, HeadFileIs
<1>6. QED
  BY <1>2, <1>3, <1>5 DEF Alike

LEMMA AfterDirectiveOrder ==
    ASSUME OrderInv, IInv', AfterDirective
    PROVE  OrderInv'
<1>1. IInv /\ Working /\ Head(stack).at = "skipped" /\ Head(stack) = stack[1] /\ ~req.binary
  BY Works DEF AfterDirective, Reading, OrderInv, Working
<1>2. PICK u : u = IF InBlock(Head(stack).len) THEN UnitName(FileHead.name, Place(Head(stack).len)) ELSE Junk
  OBVIOUS
<1>3. CopyUnit(u) /\ fileleft' = fileleft /\ req' = req /\ SetHead([FileHead EXCEPT !.nextbuf = 0])
  BY <1>2 DEF AfterDirective, NoSend
<1>4. PICK f : Alike(f)
  BY <1>1, <1>3, MarkedAlike
<1>5. QED
  BY <1>1, <1>2, <1>3, <1>4, CopyUnitOrder

\* The innermost call goes on in the block it copies.
LEMMA SameBlockOrder ==
    ASSUME OrderInv, IInv', Working, ~req.binary, req' = req, fileleft' = fileleft, queued' = queued,
           NEW f, Alike(f), f \in OpenFile, NEW at, NEW len \in Nat, Stepped(at, len),
           stack[1].at # "read", len >= stack[1].len
    PROVE  OrderInv'
<1>1. FilesOK /\ files[1].inbuf # 0 /\ files[1] \in OpenFile /\ stack[1] \in Activation
  BY DEF OrderInv, Working
<1>2. FilesOK'
  BY <1>1, AlikeFiles
<1>3. HeadFile(f) /\ f.name = files[1].name /\ f.pos = files[1].pos /\ f.inbuf = files[1].inbuf
  BY DEF Alike
<1>4. PICK m, b, l : m = files[1].pos /\ b = files[1].inbuf /\ l = stack[1].len
  OBVIOUS
<1>5. m \in Nat /\ b \in Int /\ l \in Nat
  BY <1>1, <1>4, SizesAssumption DEF OpenFile, Activation
<1>6. f.pos >= files[1].pos /\ f.pos - f.inbuf + len >= files[1].pos - files[1].inbuf + stack[1].len
  BY <1>3, <1>4, <1>5
<1>7. QED
  BY <1>2, <1>3, <1>6, OrderGoes


LEMMA ExecOrder ==
    ASSUME OrderInv, IInv', Exec
    PROVE  OrderInv'
<1>1. /\ InDirective /\ Step("skipped", Behind) /\ req' = req
      /\ UNCHANGED <<files, fileleft, queued>>
  BY DEF Exec, reply, history, NoSend
<1>2. /\ IInv /\ Working /\ stack[1].at = "copy" /\ Behind \in Nat /\ ~req.binary
      /\ Head(stack) = stack[1] /\ stack[1].len \in Nat /\ files[1] \in OpenFile
      /\ stack \in Seq(Activation) /\ stack # <<>>
  BY <1>1, InDirectiveIs DEF OrderInv, Working, Activation, IInv, Types
<1>3. Alike(files[1])
  BY <1>1, <1>2, SameHead DEF Alike
<1>4. Stepped("skipped", Behind) /\ Behind >= stack[1].len
  BY <1>1, <1>2, StepIs DEF Behind
<1>5. QED
  BY <1>1, <1>2, <1>3, <1>4, SameBlockOrder

LEMMA IncludeFailsOrder ==
    ASSUME OrderInv, IInv', IncludeFails
    PROVE  OrderInv'
<1>1. /\ InDirective /\ Step("skipped", Behind) /\ req' = req
      /\ UNCHANGED <<files, fileleft, queued>>
  BY DEF IncludeFails, NoSend
<1>2. /\ IInv /\ Working /\ stack[1].at = "copy" /\ Behind \in Nat /\ ~req.binary
      /\ Head(stack) = stack[1] /\ stack[1].len \in Nat /\ files[1] \in OpenFile
      /\ stack \in Seq(Activation) /\ stack # <<>>
  BY <1>1, InDirectiveIs DEF OrderInv, Working, Activation, IInv, Types
<1>3. Alike(files[1])
  BY <1>1, <1>2, SameHead DEF Alike
<1>4. Stepped("skipped", Behind) /\ Behind >= stack[1].len
  BY <1>1, <1>2, StepIs DEF Behind
<1>5. QED
  BY <1>1, <1>2, <1>3, <1>4, SameBlockOrder

\* The files stay as they are, and every call too, or there are none.
LEMMA SettledOrder ==
    ASSUME OrderInv, IInv', req' = req, queued' = queued, files' = files, fileleft' = fileleft,
           state' = "CONTENT" => state = "CONTENT",
           \A j \in 1 .. Len(stack') : \/ stack'[j].at = "read"
                                       \/ \E k \in 1 .. Len(stack) : stack'[j] = stack[k]
    PROVE  OrderInv'
<1>1. FilesOK' /\ Depth' = Depth
  BY DEF OrderInv, FilesOK, Depth
<1>2. Settled
  BY DEF Settled
<1>3. \A ps : Reached(ps) => Reached(ps)'
  BY <1>2, SettledReached
<1>4. QED
  BY <1>1, <1>3, OrderSame

LEMMA IncludeFaultsOrder ==
    ASSUME OrderInv, IInv', IncludeFaults
    PROVE  OrderInv'
<1>1. /\ req' = req /\ stack' = <<>>
      /\ UNCHANGED <<files, fileleft, queued, state>>
  BY DEF IncludeFaults, reply, history, NoSend
<1>2. \A j \in 1 .. Len(stack') : FALSE
  BY <1>1
<1>3. QED
  BY <1>1, <1>2, SettledOrder

LEMMA BlockDoneOrder ==
    ASSUME OrderInv, IInv', BlockDone
    PROVE  OrderInv'
<1>1. IInv /\ Working /\ Head(stack).at = "copy" /\ Head(stack) = stack[1] /\ ~req.binary
  BY Works DEF BlockDone, Reading, OrderInv, Working
<1>2. /\ IF FileHead.nextbuf = 0 /\ Head(stack).len > 0
         THEN SetHead([FileHead EXCEPT !.inbuf = 0]) /\ Step("read", 0) /\ UNCHANGED <<state, pc>>
         ELSE ReadDone /\ UNCHANGED files
      /\ UNCHANGED <<fileleft, queued>> /\ req' = req
  BY DEF BlockDone, history, NoSend
<1>3. /\ files[1].inbuf # 0 /\ FileHead = files[1] /\ Len(files) \in Nat \ {0}
      /\ files \in Seq(OpenFile) /\ files # <<>> /\ files[1] \in OpenFile
      /\ stack \in Seq(Activation) /\ stack # <<>>
  BY <1>1 DEF Working, IInv, Types, FileHead
<1>4. CASE FileHead.nextbuf = 0 /\ Head(stack).len > 0
  <2>1. SetHead([FileHead EXCEPT !.inbuf = 0]) /\ Step("read", 0) /\ state' = state
    BY <1>2, <1>4
  <2>2. PICK f : f = [files[1] EXCEPT !.inbuf = 0]
    OBVIOUS
  <2>3. f \in OpenFile /\ f.inbuf = 0 /\ f.pos = files[1].pos /\ f.name = files[1].name /\ f.nextbuf = 0
    <3>1. PICK g : g = files[1]
      OBVIOUS
    <3>2. g \in OpenFile /\ g.nextbuf = 0 /\ f = [g EXCEPT !.inbuf = 0]
      BY <1>3, <1>4, <2>2, <3>1
    <3>3. f \in OpenFile /\ f.inbuf = 0 /\ f.pos = g.pos /\ f.name = g.name /\ f.nextbuf = g.nextbuf
      BY <3>2, SizesAssumption DEF OpenFile
    <3>4. QED
      BY <3>1, <3>2, <3>3
  <2>4. HeadFile(f)
    BY <1>3, <2>1, <2>2, <2>3, HeadFileIs
  <2>5. Stepped("read", 0)
    BY <1>3, <2>1, StepIs
  <2>6. /\ Len(files') = Len(files) /\ files'[1] = f /\ (\A i \in 2 .. Len(files) : files'[i] = files[i])
        /\ \A i \in 1 .. Len(files) : i = 1 \/ i \in 2 .. Len(files)
    BY <1>3, <2>4 DEF HeadFile
  <2>7. FilesOK'
    <3>1. ASSUME NEW i \in 1 .. Len(files)
          PROVE  files'[i].name \notin Routines /\ (files'[i].inbuf = 0 => files'[i].nextbuf = 0)
      <4>1. files[i].name \notin Routines /\ (files[i].inbuf = 0 => files[i].nextbuf = 0)
        BY <1>1 DEF OrderInv, FilesOK
      <4>2. files'[i] = files[i] \/ (i = 1 /\ files'[i] = f)
        BY <2>6
      <4>3. QED
        BY <2>3, <4>1, <4>2
    <3>2. QED
      BY <2>6, <3>1 DEF FilesOK
  <2>8. f.pos >= files[1].pos
    BY <1>3, <2>3 DEF OpenFile
  <2>9. QED
    BY <1>1, <1>2, <2>1, <2>3, <2>4, <2>5, <2>7, <2>8, OrderGoes
<1>5. CASE ~(FileHead.nextbuf = 0 /\ Head(stack).len > 0)
  <2>1. state' = "SENDDATA" /\ stack' = stack /\ files' = files
    BY <1>2, <1>5 DEF ReadDone
  <2>2. state' # "CONTENT" /\ \A j \in 1 .. Len(stack') : \E k \in 1 .. Len(stack) : stack'[j] = stack[k]
    BY <2>1
  <2>3. QED
    BY <1>2, <2>1, <2>2, SettledOrder
<1>6. QED
  BY <1>4, <1>5

LEMMA IncludeReturnsOrder ==
    ASSUME OrderInv, IInv', IncludeReturns
    PROVE  OrderInv'
<1>1. /\ IInv /\ Types /\ pc = "readfile" /\ Head(stack).at = "ssi" /\ stack # <<>> /\ files # <<>>
      /\ stack \in Seq(Activation) /\ files \in Seq(OpenFile)
  BY DEF IncludeReturns, Reading, IInv, CallsOK, Types, OrderInv
<1>2. /\ Len(stack) \in Nat \ {0} /\ Head(stack) = stack[1] /\ stack[1] \in Activation /\ 1 \in 1 .. Len(stack)
      /\ Len(files) \in Nat \ {0} /\ files[1] \in OpenFile
  BY <1>1, FirstOf
<1>3. stack[1].fi \in Nat /\ stack[1].fi # 0 /\ stack[1].fi <= Len(files) /\ stack[1].len \in Nat
  BY <1>1, <1>2 DEF IInv, CallsOK, Activation
<1>4. PICK len, h : len = Head(stack).len /\ h = Len(files) - Head(stack).fi + 1
  OBVIOUS
<1>5. /\ IF h = 1 THEN Step("skipped", len) /\ UNCHANGED <<files, state, pc>>
         ELSE files' = [files EXCEPT ![h].nextbuf = len] /\ Return(FALSE, state)
      /\ UNCHANGED <<fileleft, queued>> /\ req' = req
  BY <1>4 DEF IncludeReturns, history, NoSend
<1>6. ~req.binary /\ files[1].inbuf # 0
  BY <1>1, <1>2 DEF IInv, BinaryOK, CallsOK
<1>7. CASE h = 1
  <2>1. Head(stack).fi = Len(files)
    BY <1>2, <1>3, <1>4, <1>7
  <2>2. Working
    BY <1>1, <2>1, Works
  <2>3. Step("skipped", len) /\ files' = files /\ len \in Nat /\ len >= stack[1].len
    <3>1. Step("skipped", len) /\ files' = files
      BY <1>5, <1>7
    <3>2. len \in Nat /\ len = stack[1].len
      BY <1>2, <1>3, <1>4
    <3>3. QED
      BY <3>1, <3>2
  <2>4. Alike(files[1])
    BY <1>1, <2>2, <2>3, SameHead DEF Alike
  <2>5. Stepped("skipped", len) /\ stack[1].at # "read"
    BY <1>1, <1>2, <2>3, StepIs
  <2>6. QED
    BY <1>2, <1>5, <1>6, <2>2, <2>3, <2>4, <2>5, SameBlockOrder
<1>8. CASE h # 1
  <2>1. files' = [files EXCEPT ![h].nextbuf = len] /\ Return(FALSE, state)
    BY <1>5, <1>8
  <2>2. h \in 1 .. Len(files) /\ len \in Nat
    BY <1>2, <1>3, <1>4
  <2>3. PICK g : g = [files[h] EXCEPT !.nextbuf = len]
    OBVIOUS
  <2>4. files[h] \in OpenFile
    BY <1>1, <2>2, ElementOfSeq
  <2>5. g \in OpenFile /\ g.inbuf = files[h].inbuf /\ g.pos = files[h].pos /\ g.name = files[h].name
    BY <2>2, <2>3, <2>4, Marked
  <2>6. files' = [files EXCEPT ![h] = g]
    BY <2>1, <2>3
  <2>7. Len(files') = Len(files) /\ \A i \in 1 .. Len(files) : files'[i] = IF i = h THEN g ELSE files[i]
    BY <1>1, <2>2, <2>5, <2>6, ExceptSeq
  <2>8. \A i \in 1 .. Len(files) : /\ files'[i].name = files[i].name /\ files'[i].pos = files[i].pos
                                   /\ files'[i].inbuf = files[i].inbuf
    BY <2>5, <2>7
  <2>9. \A i \in 1 .. Len(files) : files[i].inbuf # 0
    <3>1. \A i \in 1 .. Len(files) : i = 1 \/ i \in 2 .. Len(files)
      OBVIOUS
    <3>2. QED
      BY <1>1, <1>6, <3>1 DEF IInv, BlocksOK
  <2>10. FilesOK' /\ Depth' = Depth
    BY <1>5, <2>7, <2>8, <2>9 DEF OrderInv, FilesOK, Depth
  <2>11. Returned(FALSE, state)
    BY <1>1, <2>1, ReturnIs
  <2>12. state' = "CONTENT" => state = "CONTENT"
    BY <2>11 DEF Returned
  <2>13. Settled
    BY <1>1, <2>7, <2>8, <2>11, ReturnSettled
  <2>14. \A ps : Reached(ps) => Reached(ps)'
    BY <2>13, SettledReached
  <2>15. QED
    BY <1>5, <2>7, <2>8, <2>10, <2>12, <2>14, OrderSame
<1>9. QED
  BY <1>7, <1>8


\* Behind a directive there is the text of the file it names, and what follows.
LEMMA DirectiveTaken ==
    ASSUME IInv, FilesOK, InDirective, NEW n, n = Wanted.to, n \in Name,
           NEW P, P = Place(Head(stack).len), NEW h, h = HeadPieces(TRUE), NEW text, text = Inner(TRUE)[n],
           NEW p \in Nat \ {0}, p <= P
    PROVE  /\ P \in Nat \ {0} /\ P + 1 <= files[1].pos /\ h \in Seq(Seq(Sent)) /\ text \in Seq(Sent)
           /\ files[1].pos <= Len(h)
           /\ PartOf(text \o From(h, P + 2), From(h, p)) /\ From(h, P + 2) \in Seq(Sent)
<1>1. Working /\ Head(stack).len \in Nat
  BY InDirectiveIs
<1>2. PICK len, m, t : len = Head(stack).len /\ m = FileHead.name /\ t = TextIn(req.page, m)
  OBVIOUS
<1>3. /\ m \in (Name \cup {"page"}) \ Routines /\ req.page \in Seq(Unit) /\ Inner(TRUE) \in Texts
      /\ h \in Seq(Seq(Sent)) /\ Len(h) = Len(t) /\ Len(t) \in Nat
      /\ \A k \in 1 .. Len(t) : h[k] = PieceIn(TRUE, req.page, m, k, Inner(TRUE))
      /\ files[1].pos \in Nat /\ files[1].pos <= Len(t)
      /\ \A k \in Nat : /\ Place(k) = files[1].pos - files[1].inbuf + k + 1 /\ Place(k) \in Nat \ {0}
                        /\ InBlock(k) <=> k < files[1].inbuf
                        /\ InBlock(k) <=> Place(k) <= files[1].pos
                        /\ UnitAt(k) = t[Place(k)]
  BY <1>1, <1>2, AtWork, ZenonT(60)
<1>4. UnitAt(len).is = "start" /\ InBlock(len + 1) /\ UnitAt(len + 1).is = "end" /\ n = UnitAt(len).to
  BY <1>2 DEF InDirective, Directive, Wanted
<1>5. len + 1 \in Nat /\ Place(len + 1) = P + 1 /\ P \in Nat \ {0} /\ P + 1 <= files[1].pos
  <2>1. len + 1 \in Nat /\ P = Place(len) /\ P \in Nat \ {0}
    <3>1. len \in Nat /\ P = Place(len)
      BY <1>1, <1>2
    <3>2. Place(len) \in Nat \ {0}
      BY <1>3, <3>1
    <3>3. QED
      BY <3>1, <3>2
  <2>2. PICK a, b : a = files[1].pos /\ b = files[1].inbuf
    OBVIOUS
  <2>3. P = a - b + len + 1 /\ Place(len + 1) = a - b + (len + 1) + 1 /\ len \in Nat /\ Place(len + 1) <= a /\ a \in Nat
    BY <1>1, <1>2, <1>3, <1>4, <2>1, <2>2
  <2>4. b \in Int
    BY <1>1, <2>2, SizesAssumption DEF Working, OpenFile
  <2>5. Place(len + 1) = P + 1
    BY <2>3, <2>4
  <2>6. QED
    BY <2>1, <2>2, <2>3, <2>5
<1>6. t[P].is = "start" /\ t[P + 1].is = "end" /\ t[P].to = n
  BY <1>1, <1>2, <1>3, <1>4, <1>5
<1>7. PICK l, q : l = Len(t) /\ q = P + 1
  OBVIOUS
<1>8. /\ l \in Nat /\ P < l /\ q \in 1 .. l /\ q > 1 /\ q - 1 = P /\ q \in Int /\ q \in Nat \ {0} /\ q + 1 = P + 2
      /\ q + 1 \in Nat \ {0} /\ q <= Len(h) /\ p <= q
  <2>1. PICK a : a = files[1].pos
    OBVIOUS
  <2>2. a \in Nat /\ a <= l /\ P + 1 <= a /\ l \in Nat /\ P \in Nat \ {0} /\ Len(h) = l
    BY <1>3, <1>5, <1>7, <2>1
  <2>3. P < l /\ q \in 1 .. l /\ q > 1 /\ q - 1 = P /\ q \in Int /\ q \in Nat \ {0} /\ q + 1 = P + 2
    BY <1>7, <2>2
  <2>4. q + 1 \in Nat \ {0} /\ q <= l /\ p <= q
    BY <2>2, <2>3
  <2>5. QED
    BY <2>2, <2>3, <2>4
<1>9. Begins(t, P)
  BY <1>6, <1>7, <1>8 DEF Begins
<1>10. PICK u : u = UnitName(m, q)
  OBVIOUS
<1>11. h[q] = <<u>> \o text /\ text \in Seq(Sent) /\ <<u>> \in Seq(Sent)
  <2>1. PICK page, inner : page = req.page /\ inner = Inner(TRUE)
    OBVIOUS
  <2>2. /\ page \in Seq(Unit) /\ inner \in Texts /\ q \in 1 .. Len(TextIn(page, m)) /\ m \in (Name \cup {"page"}) \ Routines
        /\ TextIn(page, m) = t /\ text = inner[n]
    BY <1>2, <1>3, <1>7, <1>8, <2>1
  <2>3. q > 1 /\ Begins(TextIn(page, m), q - 1) /\ TextIn(page, m)[q - 1].to \in Name
    BY <1>6, <1>8, <1>9, <2>2
  <2>4. PieceIn(TRUE, page, m, q, inner) = <<UnitName(m, q)>> \o inner[TextIn(page, m)[q - 1].to]
    BY <2>2, <2>3, RawPieces, ZenonT(60)
  <2>5. h[q] = PieceIn(TRUE, page, m, q, inner)
    BY <1>3, <1>7, <1>8, <2>1
  <2>6. inner[TextIn(page, m)[q - 1].to] = text
    BY <1>6, <1>8, <2>2
  <2>7. text \in Seq(Sent)
    BY <2>2 DEF Texts
  <2>8. <<u>> \in Seq(Sent)
    BY <1>3, <1>8, <1>10, UnitIsSent
  <2>9. QED
    BY <1>10, <2>4, <2>5, <2>6, <2>7, <2>8
<1>12. PICK r, e : r = From(h, q + 1) /\ e = <<u>>
  OBVIOUS
<1>13. r \in Seq(Sent) /\ From(h, q) = (e \o text) \o r
  <2>1. From(h, q) = h[q] \o From(h, q + 1)
    BY <1>3, <1>8, FromIs, ZenonT(60)
  <2>2. From(h, q + 1) \in Seq(Sent)
    BY <1>3, <1>8, FromIs
  <2>3. QED
    BY <1>11, <1>12, <2>1, <2>2
<1>14. e \in Seq(Sent) /\ e \o text \in Seq(Sent) /\ PartOf(text, e \o text)
  BY <1>11, <1>12, ConcatProperties, EndsArePart
<1>15. PartOf(text \o r, (e \o text) \o r)
  BY <1>11, <1>13, <1>14, PartOfItself, PartsJoined
<1>16. PartOf(From(h, q), From(h, p))
  BY <1>3, <1>8, FromLater
<1>17. PartOf(text \o r, From(h, p))
  BY <1>13, <1>15, <1>16, PartOfPart
<1>18. r = From(h, P + 2)
  BY <1>8, <1>12
<1>19. files[1].pos <= Len(h)
  BY <1>3
<1>20. QED
  BY <1>3, <1>5, <1>11, <1>13, <1>17, <1>18, <1>19


\* The text an include has, one level further in.
LEMMA InnerIs ==
    ASSUME Types, fileleft > 0, NEW raw \in BOOLEAN, NEW n \in Name,
           NEW E, E = Expanded(raw, req.page, Depth), NEW k, k = fileleft - 1
    PROVE  /\ k \in Nat /\ E[k] \in Texts /\ Inner(raw)[n] = FlattenSeq(Pieces(raw, req.page, n, E[k]))
           /\ n \in Routines => Inner(raw)[n] = RoutineText(n) /\ RoutineText(n) \in Seq(Sent)
<1>1. Depth \in Nat /\ req.page \in Seq(Unit)
  BY LevelsNow
<1>2. fileleft \in 1 .. Depth
  <2>1. Len(files) \in Nat /\ fileleft \in Nat
    BY LenProperties DEF Types
  <2>2. QED
    BY <1>1, <2>1 DEF Depth
<1>3. PICK page, depth, d : page = req.page /\ depth = Depth /\ d = fileleft
  OBVIOUS
<1>4. page \in Seq(Unit) /\ depth \in Nat /\ d \in 1 .. depth /\ E = Expanded(raw, page, depth) /\ d \in 0 .. depth
      /\ k = d - 1 /\ n \in Name \cup {"page"}
  BY <1>1, <1>2, <1>3
<1>5. k \in 0 .. depth /\ k \in Nat
  BY <1>4
<1>6. E[k] \in Texts /\ E[d][n] = FlattenSeq(Pieces(raw, page, n, E[d - 1]))
  BY <1>4, <1>5, LevelsAre
<1>7. Inner(raw)[n] = FlattenSeq(Pieces(raw, page, n, E[k]))
  BY <1>3, <1>4, <1>6 DEF Inner
<1>8. n \in Routines => RoutineText(n) \in Seq(Sent) /\ FlattenSeq(Pieces(raw, page, n, E[k])) = RoutineText(n)
  BY <1>4, <1>6, RoutineIs
<1>9. QED
  BY <1>3, <1>5, <1>6, <1>7, <1>8

LEMMA IncludeRoutineOrder ==
    ASSUME OrderInv, IInv', IncludeRoutine
    PROVE  OrderInv'
<1>1. PICK n, text, new, drop :
        /\ n = Wanted.to /\ text = [i \in 1 .. Len(Text[n]) |-> UnitName(n, i)]
        /\ new = (tx = <<>> \/ Len(text) >= TXBUF - Len(Last(tx))) /\ drop = (new /\ txleft = 0)
  OBVIOUS
<1>2. /\ InDirective /\ req' = req /\ Step("skipped", Behind) /\ Opens /\ n \in Name /\ n \in Routines
      /\ IF drop THEN UNCHANGED <<tx, txleft, queued>> ELSE Put(text, new)
      /\ SetHead([FileHead EXCEPT !.nextbuf = Head(stack).len])
      /\ UNCHANGED <<fileleft, state, pc>>
  BY <1>1 DEF IncludeRoutine, Opens, NoSend
<1>3. /\ IInv /\ FilesOK /\ Types /\ Working /\ stack[1].at = "copy" /\ Behind \in Nat /\ Head(stack).len \in Nat
      /\ files[1].inbuf # 0 /\ ~req.binary /\ Head(stack) = stack[1] /\ files[1] \in OpenFile
      /\ stack \in Seq(Activation) /\ stack # <<>> /\ fileleft > 0 /\ Len(files) \in Nat \ {0}
  BY <1>2, InDirectiveIs DEF OrderInv, Working, IInv, Types, Opens
<1>4. PICK f : Alike(f) /\ f \in OpenFile
  BY <1>2, <1>3, MarkedAlike
<1>5. Stepped("skipped", Behind) /\ Behind = stack[1].len + 2
  BY <1>2, <1>3, StepIs DEF Behind
<1>6. CASE drop
  <2>1. queued' = queued
    BY <1>2, <1>6
  <2>2. Behind >= stack[1].len
    BY <1>3, <1>5
  <2>3. QED
    BY <1>2, <1>3, <1>4, <1>5, <2>1, <2>2, SameBlockOrder
<1>7. CASE ~drop
  <2>1. queued' = queued \o text
    BY <1>2, <1>7 DEF Put
  <2>2. text = RoutineText(n)
    BY <1>1 DEF RoutineText
  <2>3. Inner(TRUE)[n] = text /\ text \in Seq(Sent)
    BY <1>2, <1>3, <2>2, InnerIs
  <2>4. NoJunk(text) = text
    <3>1. Len(Text[n]) \in Nat
      BY <1>2, TextAssumption, LenProperties
    <3>2. Len(text) = Len(Text[n]) /\ \A i \in 1 .. Len(Text[n]) : text[i] = UnitName(n, i)
      BY <1>1, <3>1
    <3>3. \A i \in 1 .. Len(text) : text[i] # Junk
      BY <3>1, <3>2, PlaceIsNoJunk
    <3>4. QED
      BY <2>3, <3>3, NoJunkSame
  <2>5. PICK P, r, h : P = Place(Head(stack).len) /\ r = P + 2 /\ h = HeadPieces(TRUE)
    OBVIOUS
  <2>6. P \in Nat \ {0} /\ P = files[1].pos - files[1].inbuf + stack[1].len + 1
    <3>1. \A k \in Nat : Place(k) = files[1].pos - files[1].inbuf + k + 1 /\ Place(k) \in Nat \ {0}
      BY <1>3, AtWork
    <3>2. QED
      BY <1>3, <2>5, <3>1
  <2>7. \A p \in Nat \ {0} : p <= P => /\ P + 1 <= files[1].pos
                                       /\ PartOf(text \o From(h, P + 2), From(h, p))
    BY <1>1, <1>2, <1>3, <2>3, <2>5, DirectiveTaken
  <2>8. P + 1 <= files[1].pos
    BY <2>6, <2>7
  <2>9. r \in Nat \ {0} /\ r <= f.pos + 1 /\ r <= f.pos - f.inbuf + Behind + 1
    <3>1. PICK m, b, l : m = files[1].pos /\ b = files[1].inbuf /\ l = stack[1].len
      OBVIOUS
    <3>2. m \in Nat /\ b \in Int /\ l \in Nat /\ P = m - b + l + 1 /\ P \in Nat /\ P + 1 <= m /\ r = P + 2 /\ Behind = l + 2
      BY <1>3, <1>5, <2>5, <2>6, <2>8, <3>1, SizesAssumption DEF OpenFile
    <3>3. r \in Nat \ {0} /\ r <= m + 1 /\ r <= m - b + Behind + 1
      BY <3>2
    <3>4. QED
      BY <1>4, <3>1, <3>3 DEF Alike
  <2>10. ASSUME NEW p \in Nat \ {0}, p <= files[1].pos - files[1].inbuf + stack[1].len + 1
         PROVE  PartOf(NoJunk(text) \o From(HeadPieces(TRUE), r), From(HeadPieces(TRUE), p))
    BY <2>4, <2>5, <2>6, <2>7, <2>10
  <2>11. /\ FilesOK' /\ HeadFile(f) /\ f.name = files[1].name /\ Len(files') = Len(files)
    BY <1>2, <1>3, <1>4, AlikeFiles, AlikeIs DEF Alike
  <2>12. Depth' = Depth
    BY <1>2, <2>11 DEF Depth
  <2>13. QED
    BY <1>2, <1>3, <1>5, <2>1, <2>3, <2>9, <2>10, <2>11, <2>12, OrderAdds
<1>8. QED
  BY <1>6, <1>7


\* What the files and calls are once a file is included.
Included(n, P) ==
    /\ files' \in Seq(OpenFile) /\ Len(files') = Len(files) + 1 /\ Len(Tail(files')) = Len(files)
    /\ files'[1] = Newly(n) /\ files'[1].pos = 0 /\ files'[1].inbuf = 0 /\ files'[1].nextbuf = 0 /\ files'[1].name = n
    /\ files'[2].name = files[1].name /\ files'[2].pos = files[1].pos /\ files'[2].inbuf = files[1].inbuf
    /\ \A i \in 3 .. Len(files) + 1 : files'[i] = files[i - 1]
    /\ Tail(files')[1].name = files[1].name /\ Tail(Tail(files')) = Tail(files) /\ Tail(files') # <<>>
    /\ Len(stack') = Len(stack) + 1
    /\ stack'[1].fi = Len(files) + 1 /\ stack'[1].at = "read"
    /\ stack'[2].fi = Len(files) /\ stack'[2].at = "ssi"
    /\ files[1].pos - files[1].inbuf + stack'[2].len + 1 = P + 2
    /\ \A i \in 3 .. Len(stack) + 1 : stack'[i] = stack[i - 1]

LEMMA IncludedIs ==
    ASSUME IInv, FilesOK, IncludeFile, NEW n, n = Wanted.to, NEW P, P = Place(Head(stack).len)
    PROVE  /\ Included(n, P) /\ fileleft' = fileleft - 1 /\ fileleft > 0 /\ n \in Name \ Routines
           /\ req' = req /\ queued' = queued /\ state' = state /\ InDirective /\ Depth' = Depth
<1>1. PICK a, b, x, y :
        /\ a = Newly(n) /\ b = [FileHead EXCEPT !.nextbuf = Head(stack).len]
        /\ x = [fi |-> Len(files) + 1, at |-> "read", len |-> 0]
        /\ y = [Head(stack) EXCEPT !.at = "ssi", !.len = Behind]
  OBVIOUS
<1>2. /\ InDirective /\ n \in Name \ Routines /\ fileleft > 0 /\ req' = req
      /\ files' = <<a>> \o <<b>> \o Tail(files) /\ fileleft' = fileleft - 1
      /\ stack' = <<x>> \o (<<y>> \o Tail(stack))
      /\ UNCHANGED <<state, queued>>
  BY <1>1 DEF IncludeFile, Opens, Call, NoSend
<1>3. /\ Working /\ stack[1].at = "copy" /\ Behind \in Nat /\ Head(stack).len \in Nat
      /\ files[1].inbuf # 0 /\ FileHead = files[1]
  BY <1>2, InDirectiveIs
<1>4. /\ files \in Seq(OpenFile) /\ files # <<>> /\ stack \in Seq(Activation) /\ stack # <<>>
      /\ Len(files) \in Nat \ {0} /\ Len(stack) \in Nat \ {0}
      /\ files[1] \in OpenFile /\ Head(stack) = stack[1] /\ stack[1] \in Activation /\ stack[1].fi = Len(files)
  BY <1>3 DEF Working, IInv, Types
<1>5. b \in OpenFile /\ b.name = files[1].name /\ b.pos = files[1].pos /\ b.inbuf = files[1].inbuf
  BY <1>1, <1>3, <1>4, Marked
<1>6. a \in OpenFile /\ a.name = n /\ a.pos = 0 /\ a.inbuf = 0 /\ a.nextbuf = 0
  <2>1. a = [name |-> n, pos |-> 0, inbuf |-> 0, nextbuf |-> 0]
    BY <1>1 DEF Newly
  <2>2. QED
    BY <1>2, <2>1, SizesAssumption DEF OpenFile
<1>7. x \in Activation /\ x.fi = Len(files) + 1 /\ x.at = "read"
  BY <1>1, <1>4 DEF Activation
<1>8. y \in Activation /\ y.fi = Len(files) /\ y.at = "ssi" /\ y.len = Behind
  BY <1>1, <1>3, <1>4 DEF Activation
<1>9. PICK r, d : r = Tail(files) /\ d = <<b>> \o r
  OBVIOUS
<1>10. /\ r \in Seq(OpenFile) /\ Len(r) = Len(files) - 1 /\ <<a>> \in Seq(OpenFile) /\ <<b>> \in Seq(OpenFile)
       /\ \A i \in 1 .. Len(files) - 1 : r[i] = files[i + 1]
  BY <1>4, <1>5, <1>6, <1>9, FirstOf
<1>11. files' = <<a>> \o d
  <2>1. \A u, v, w \in Seq(OpenFile) : (u \o v) \o w = u \o (v \o w)
    <3>1. \A u, v, w \in Seq(OpenFile) : ThreeAlike(u, v, w)
      BY Associative, Zenon
    <3>2. QED
      BY <3>1, Zenon DEF ThreeAlike
  <2>2. QED
    BY <1>2, <1>9, <1>10, <2>1
<1>12. /\ d \in Seq(OpenFile) /\ Len(d) = Len(r) + 1 /\ d # <<>> /\ d[1] = b /\ Tail(d) = r
       /\ \A i \in 2 .. Len(r) + 1 : d[i] = r[i - 1]
  BY <1>5, <1>9, <1>10, InFront
<1>13. /\ files' \in Seq(OpenFile) /\ Len(files') = Len(d) + 1 /\ files'[1] = a /\ Tail(files') = d
       /\ \A i \in 2 .. Len(d) + 1 : files'[i] = d[i - 1]
  BY <1>6, <1>11, <1>12, InFront
<1>14. Len(d) = Len(files) /\ Len(files') = Len(files) + 1 /\ files'[2] = b
  <2>1. Len(d) = Len(files) /\ Len(files') = Len(files) + 1 /\ 2 \in 2 .. Len(d) + 1 /\ 2 - 1 = 1
    BY <1>4, <1>10, <1>12, <1>13
  <2>2. QED
    BY <1>12, <1>13, <2>1
<1>15. ASSUME NEW i \in 3 .. Len(files) + 1
       PROVE  files'[i] = files[i - 1]
  <2>1. /\ i \in 2 .. Len(d) + 1 /\ i - 1 \in 2 .. Len(r) + 1 /\ (i - 1) - 1 \in 1 .. Len(files) - 1
        /\ ((i - 1) - 1) + 1 = i - 1
    BY <1>4, <1>10, <1>14
  <2>2. QED
    BY <1>10, <1>12, <1>13, <2>1, ZenonT(60)
<1>16. /\ Len(stack') = Len(stack) + 1 /\ stack'[1] = x /\ stack'[2] = y
       /\ \A i \in 3 .. Len(stack) + 1 : stack'[i] = stack[i - 1]
  BY <1>2, <1>4, <1>7, <1>8, TwoInFront
<1>17. files[1].pos - files[1].inbuf + y.len + 1 = P + 2
  <2>1. PICK m, c, l : m = files[1].pos /\ c = files[1].inbuf /\ l = Head(stack).len
    OBVIOUS
  <2>2. m \in Nat /\ c \in Int /\ l \in Nat /\ y.len = l + 2
    BY <1>3, <1>4, <1>8, <2>1, SizesAssumption DEF OpenFile, Behind
  <2>3. P = m - c + l + 1
    BY <1>3, <2>1 DEF Place
  <2>4. QED
    BY <2>1, <2>2, <2>3
<1>18. Included(n, P)
  BY <1>1, <1>5, <1>6, <1>7, <1>8, <1>9, <1>12, <1>13, <1>14, <1>15, <1>16, <1>17 DEF Included
<1>19. Depth' = Depth
  <2>1. fileleft \in Nat
    BY DEF IInv, Types
  <2>2. QED
    BY <1>2, <1>4, <1>14, <2>1 DEF Depth
<1>20. QED
  BY <1>2, <1>18, <1>19


\* The places then, of the files around the new one and with it.
Places(ps, rs, qs, P) ==
    /\ ps \in Seq(Nat \ {0}) /\ Len(ps) = Len(files)
    /\ rs \in Seq(Nat \ {0}) /\ Len(rs) = Len(files) /\ rs[1] = P + 2 /\ Tail(rs) = Tail(ps)
    /\ qs \in Seq(Nat \ {0}) /\ Len(qs) = Len(files') /\ qs[1] = 1 /\ Tail(qs) = rs

\* The file read from its first place, the one around it from behind the directive on.
LEMMA IncludedReached ==
    ASSUME IInv, Working, NEW n, NEW P \in Nat \ {0}, Included(n, P), P + 1 <= files[1].pos, NEW ps, Reached(ps)
    PROVE  \E rs, qs : Places(ps, rs, qs, P) /\ Reached(qs)'
<1>1. /\ Len(files) \in Nat \ {0} /\ Len(stack) \in Nat \ {0} /\ files[1] \in OpenFile
      /\ \A i \in 2 .. Len(stack) : stack[i].fi < Len(files)
      /\ stack \in Seq(Activation)
  BY DEF Working, IInv, Types
<1>2. /\ ps \in Seq(Nat \ {0}) /\ Len(ps) = Len(files) /\ ps # <<>>
      /\ \A i \in 1 .. Len(files) : ps[i] <= files[i].pos + 1
      /\ \A i \in 1 .. Len(files), j \in 1 .. Len(stack) :
            stack[j].fi = Len(files) - i + 1 /\ stack[j].at # "read"
               => ps[i] <= files[i].pos - files[i].inbuf + stack[j].len + 1
  BY <1>1, EmptySeq DEF Reached
<1>3. PICK S, v : S = Nat \ {0} /\ v = P + 2
  OBVIOUS
<1> PICK rs : rs = <<v>> \o Tail(ps)
  OBVIOUS
<1> PICK qs : qs = <<1>> \o rs
  OBVIOUS
<1>4. ps \in Seq(S) /\ v \in S /\ 1 \in S
  BY <1>2, <1>3
<1>5. /\ rs \in Seq(S) /\ Len(rs) = Len(files) /\ rs[1] = P + 2 /\ Tail(rs) = Tail(ps)
      /\ \A i \in 2 .. Len(files) : rs[i] = ps[i]
  <2>1. rs \in Seq(S) /\ Len(rs) = Len(ps) /\ rs[1] = v /\ Tail(rs) = Tail(ps) /\ \A i \in 2 .. Len(ps) : rs[i] = ps[i]
    <3>1. ps # <<>> /\ rs = <<v>> \o Tail(ps)
      BY <1>2
    <3>2. QED
      BY <1>4, <3>1, Renewed
  <2>2. QED
    BY <1>2, <1>3, <2>1
<1>6. /\ qs \in Seq(S) /\ Len(qs) = Len(files) + 1 /\ qs[1] = 1 /\ Tail(qs) = rs
      /\ \A i \in 2 .. Len(files) + 1 : qs[i] = rs[i - 1]
  BY <1>4, <1>5, InFront
<1>7. qs[2] = P + 2 /\ \A i \in 3 .. Len(files) + 1 : qs[i] = ps[i - 1]
  <2>1. 2 \in 2 .. Len(files) + 1 /\ 2 - 1 = 1
    BY <1>1
  <2>2. \A i \in 3 .. Len(files) + 1 : i \in 2 .. Len(files) + 1 /\ i - 1 \in 2 .. Len(files)
    BY <1>1
  <2>3. QED
    BY <1>5, <1>6, <2>1, <2>2
<1>8. /\ Len(files') = Len(files) + 1 /\ files'[1].pos = 0
      /\ files'[2].pos = files[1].pos /\ files'[2].inbuf = files[1].inbuf
      /\ \A i \in 3 .. Len(files) + 1 : files'[i] = files[i - 1]
      /\ Len(stack') = Len(stack) + 1 /\ stack'[1].at = "read" /\ stack'[2].fi = Len(files)
      /\ files[1].pos - files[1].inbuf + stack'[2].len + 1 = P + 2
      /\ \A i \in 3 .. Len(stack) + 1 : stack'[i] = stack[i - 1]
  BY DEF Included
<1>9. \A i \in 1 .. Len(files) + 1 : i = 1 \/ i = 2 \/ (i \in 3 .. Len(files) + 1 /\ i - 1 \in 1 .. Len(files))
  BY <1>1
<1>10. ASSUME NEW i \in 1 .. Len(files) + 1
       PROVE  qs[i] <= files'[i].pos + 1
  <2>1. CASE i = 1
    BY <1>6, <1>8, <2>1
  <2>2. CASE i = 2
    <3>1. files[1].pos \in Nat
      BY <1>1 DEF OpenFile
    <3>2. P + 2 <= files[1].pos + 1
      BY <3>1
    <3>3. QED
      BY <1>7, <1>8, <2>2, <3>2
  <2>3. CASE i \in 3 .. Len(files) + 1 /\ i - 1 \in 1 .. Len(files)
    BY <1>2, <1>7, <1>8, <2>3
  <2>4. QED
    BY <1>9, <2>1, <2>2, <2>3
<1>11. ASSUME NEW i \in 1 .. Len(files) + 1, NEW j \in 1 .. Len(stack) + 1,
              stack'[j].fi = (Len(files) + 1) - i + 1, stack'[j].at # "read"
       PROVE  qs[i] <= files'[i].pos - files'[i].inbuf + stack'[j].len + 1
  <2>1. j = 2 \/ (j \in 3 .. Len(stack) + 1 /\ j - 1 \in 2 .. Len(stack) /\ j - 1 \in 1 .. Len(stack))
    <3>1. j # 1
      BY <1>8, <1>11
    <3>2. QED
      BY <1>1, <3>1
  <2>2. CASE j = 2
    <3>1. i = 2
      BY <1>1, <1>8, <1>11, <2>2
    <3>2. files'[2].pos - files'[2].inbuf + stack'[2].len + 1 = P + 2
      BY <1>8
    <3>3. QED
      BY <1>7, <2>2, <3>1, <3>2
  <2>3. CASE j \in 3 .. Len(stack) + 1 /\ j - 1 \in 2 .. Len(stack) /\ j - 1 \in 1 .. Len(stack)
    <3>1. stack'[j] = stack[j - 1] /\ stack[j - 1].fi < Len(files)
      BY <1>1, <1>8, <2>3
    <3>2. PICK k, g : k = i - 1 /\ g = j - 1
      OBVIOUS
    <3>3. k \in 1 .. Len(files) /\ i \in 3 .. Len(files) + 1 /\ stack[g].fi = Len(files) - k + 1 /\ g \in 1 .. Len(stack)
      <4>1. stack[g].fi = (Len(files) + 1) - i + 1 /\ stack[g].fi < Len(files) /\ g \in 1 .. Len(stack)
        BY <1>11, <2>3, <3>1, <3>2
      <4>2. i \in 3 .. Len(files) + 1
        BY <1>1, <4>1
      <4>3. QED
        BY <1>1, <3>2, <4>1, <4>2
    <3>4. ps[k] <= files[k].pos - files[k].inbuf + stack[g].len + 1
      <4>1. stack[g].at # "read"
        BY <1>11, <3>1, <3>2
      <4>2. QED
        BY <1>2, <3>3, <4>1
    <3>5. qs[i] = ps[k] /\ files'[i] = files[k] /\ stack'[j] = stack[g]
      BY <1>7, <1>8, <3>1, <3>2, <3>3
    <3>6. QED
      BY <3>4, <3>5
  <2>4. QED
    BY <2>1, <2>2, <2>3
<1>12. Reached(qs)'
  BY <1>3, <1>6, <1>8, <1>10, <1>11 DEF Reached
<1>13. Places(ps, rs, qs, P)
  BY <1>2, <1>3, <1>5, <1>6, <1>8 DEF Places
<1>14. QED
  BY <1>12, <1>13

\* What is unread then.
UnreadThen(raw, n, P, ps, qs) ==
    LET text == Inner(raw)[n]
        rest == From(HeadPieces(raw), P + 2)
        o    == Outer(raw, Tail(ps))
    IN  /\ Unread(raw, qs)' = text \o (rest \o o)
        /\ text \in Seq(Sent) /\ rest \in Seq(Sent) /\ o \in Seq(Sent)

LEMMA IncludedUnread ==
    ASSUME IInv, Types', FilesOK, IncludeFile, NEW raw \in BOOLEAN, NEW n, n = Wanted.to, NEW P, Included(n, P),
           NEW ps, NEW rs, NEW qs, Places(ps, rs, qs, P)
    PROVE  UnreadThen(raw, n, P, ps, qs)
<1>0. /\ ps \in Seq(Nat \ {0}) /\ Len(ps) = Len(files)
      /\ rs \in Seq(Nat \ {0}) /\ Len(rs) = Len(files) /\ rs[1] = P + 2 /\ Tail(rs) = Tail(ps)
      /\ qs \in Seq(Nat \ {0}) /\ Len(qs) = Len(files') /\ qs[1] = 1 /\ Tail(qs) = rs
  BY DEF Places
<1> PICK h, o, text : h = HeadPieces(raw) /\ o = Outer(raw, Tail(ps)) /\ text = Inner(raw)[n]
  OBVIOUS
<1>1. PICK E, page, k, fs, gs : E = Expanded(raw, req.page, Depth) /\ page = req.page /\ k = fileleft - 1 /\ fs = files'
                                /\ gs = Tail(fs)
  OBVIOUS
<1>2. /\ fileleft > 0 /\ fileleft' = k /\ req' = req /\ Depth' = Depth /\ Types /\ n \in Name
  BY <1>1, IncludedIs DEF IInv
<1>3. k \in Nat /\ k + 1 = fileleft
  BY <1>1, <1>2 DEF Types
<1>4. fs # <<>> /\ fs[1].name = n /\ gs[1].name = files[1].name /\ gs # <<>> /\ Tail(gs) = Tail(files)
      /\ Len(gs) = Len(files) /\ Len(qs) = Len(fs)
  <2>0. Len(qs) = Len(fs)
    BY <1>0, <1>1
  <2>1. Len(files) \in Nat
    BY <1>2, LenProperties DEF Types
  <2>2. Len(fs) # 0 /\ fs \in Seq(OpenFile)
    BY <1>1, <2>1 DEF Included
  <2>3. QED
    BY <1>1, <2>0, <2>2, EmptySeq DEF Included
<1>5. Levels(raw, page, E, k, fs)
  <2>1. Levels(raw, page, E, fileleft, files) /\ Depth \in Nat /\ page \in Seq(Unit)
    BY <1>1, <1>2, LevelsNow
  <2>2. fs \in Seq(OpenFile) /\ Len(fs) = Len(files) + 1 /\ Len(files) \in Nat
    BY <1>1, <1>2, LenProperties DEF Included, Types
  <2>3. Depth >= k + Len(fs)
    <3>1. Depth = fileleft + Len(files)
      BY DEF Depth
    <3>2. QED
      BY <1>3, <2>2, <3>1
  <2>4. QED
    BY <1>1, <1>3, <2>1, <2>2, <2>3 DEF Levels
<1>6. PICK q : q = Pieces(raw, page, fs[1].name, E[k])
  OBVIOUS
<1>7. /\ q \in Seq(Seq(Sent)) /\ From(q, qs[1]) \in Seq(Sent)
      /\ Levels(raw, page, E, k + 1, gs)
      /\ FlattenSeq(RestOf(raw, page, E, k, fs, qs)) = From(q, qs[1]) \o FlattenSeq(RestOf(raw, page, E, k + 1, gs, rs))
  <2>1. HeadRest(raw, page, E, k, fs, qs, q)
    BY <1>0, <1>4, <1>5, <1>6, RestHead
  <2>2. QED
    BY <1>0, <1>1, <2>1 DEF HeadRest
<1>8. From(q, qs[1]) = text /\ text \in Seq(Sent)
  <2>1. From(q, 1) = FlattenSeq(q) /\ From(q, 1) \in Seq(Sent)
    <3>1. q \in Seq(Seq(Sent)) /\ 1 \in Nat \ {0}
      BY <1>7
    <3>2. QED
      BY <3>1, FromIs
  <2>2. text = FlattenSeq(Pieces(raw, page, n, E[k]))
    BY <1>1, <1>2, InnerIs
  <2>3. QED
    BY <1>0, <1>4, <1>6, <2>1, <2>2
<1>9. PICK g : g = Pieces(raw, page, gs[1].name, E[fileleft])
  OBVIOUS
<1>10. /\ From(g, rs[1]) \in Seq(Sent)
       /\ FlattenSeq(RestOf(raw, page, E, fileleft + 1, Tail(gs), Tail(rs))) \in Seq(Sent)
       /\ FlattenSeq(RestOf(raw, page, E, fileleft, gs, rs)) =
             From(g, rs[1]) \o FlattenSeq(RestOf(raw, page, E, fileleft + 1, Tail(gs), Tail(rs)))
  <2>1. Levels(raw, page, E, fileleft, gs) /\ Len(rs) = Len(gs)
    BY <1>0, <1>3, <1>4, <1>7
  <2>2. HeadRest(raw, page, E, fileleft, gs, rs, g)
    BY <1>0, <1>4, <1>9, <2>1, RestHead
  <2>3. QED
    BY <2>2 DEF HeadRest
<1>11. g = h
  BY <1>1, <1>4, <1>9, Zenon DEF HeadPieces
<1>12. FlattenSeq(RestOf(raw, page, E, fileleft + 1, Tail(gs), Tail(rs))) = o
  <2>1. FlattenSeq(RestOf(raw, page, E, fileleft + 1, Tail(files), Tail(ps))) = o
    BY <1>1, Zenon DEF Outer
  <2>2. QED
    BY <1>0, <1>4, <2>1
<1>13. Unread(raw, qs)' = FlattenSeq(RestOf(raw, page, E, k, fs, qs))
  <2>1. Unread(raw, qs)' = FlattenSeq(RestOf(raw, req'.page, Expanded(raw, req'.page, Depth'), fileleft', files', qs))
    BY Zenon DEF Unread
  <2>2. QED
    BY <1>1, <1>2, <2>1, Zenon
<1>14. From(g, rs[1]) = From(h, P + 2)
  BY <1>0, <1>11
<1>15. PICK F : F = From(h, P + 2)
  OBVIOUS
<1>16. Unread(raw, qs)' = text \o (F \o o) /\ text \in Seq(Sent) /\ F \in Seq(Sent) /\ o \in Seq(Sent)
  BY <1>3, <1>7, <1>8, <1>10, <1>12, <1>13, <1>14, <1>15
<1>17. QED
  BY <1>15, <1>16, Zenon DEF UnreadThen

LEMMA IncludeFileOrder ==
    ASSUME OrderInv, IInv', IncludeFile
    PROVE  OrderInv'
<1>1. PICK n, P, h, text : n = Wanted.to /\ P = Place(Head(stack).len) /\ h = HeadPieces(TRUE) /\ text = Inner(TRUE)[n]
  OBVIOUS
<1>2. IInv /\ FilesOK /\ Types /\ Types'
  BY DEF OrderInv, IInv
<1>3. /\ Included(n, P) /\ n \in Name \ Routines /\ n \in Name
      /\ req' = req /\ queued' = queued /\ state' = state /\ InDirective /\ Depth' = Depth
  BY <1>1, <1>2, IncludedIs
<1>4. /\ Working /\ ~req.binary /\ stack[1].at = "copy" /\ stack[1].len \in Nat /\ Head(stack) = stack[1]
      /\ state = "CONTENT" /\ Len(files) \in Nat \ {0} /\ Len(stack) \in Nat \ {0} /\ files[1].inbuf # 0
  BY <1>2, <1>3, InDirectiveIs DEF Working, Activation
<1>5. P \in Nat \ {0} /\ P = files[1].pos - files[1].inbuf + stack[1].len + 1
  <2>1. \A k \in Nat : Place(k) = files[1].pos - files[1].inbuf + k + 1 /\ Place(k) \in Nat \ {0}
    BY <1>2, <1>4, AtWork
  <2>2. QED
    BY <1>1, <1>4, <2>1
<1>6. \A p \in Nat \ {0} : p <= P => /\ P + 1 <= files[1].pos
                                     /\ PartOf(text \o From(h, P + 2), From(h, p))
  BY <1>1, <1>2, <1>3, DirectiveTaken
<1>7. P + 1 <= files[1].pos
  BY <1>5, <1>6
<1>8. PICK ps : InPlace(ps)
  BY <1>4 DEF OrderInv
<1>9. ps \in Seq(Nat \ {0}) /\ Len(ps) = Len(files) /\ Reached(ps) /\ files # <<>>
  BY <1>4, <1>8 DEF InPlace, Reached, Working
<1>10. ps[1] <= P
  <2>1. 1 \in 1 .. Len(files) /\ 1 \in 1 .. Len(stack) /\ stack[1].fi = Len(files) - 1 + 1
    BY <1>4 DEF Working
  <2>2. QED
    BY <1>4, <1>5, <1>9, <2>1 DEF Reached
<1>12. PICK rs, qs : Places(ps, rs, qs, P) /\ Reached(qs)'
  BY <1>2, <1>3, <1>4, <1>5, <1>7, <1>9, IncludedReached
<1>13. PICK o, F : o = Outer(TRUE, Tail(ps)) /\ F = From(h, P + 2)
  OBVIOUS
<1>14. Unread(TRUE, qs)' = text \o (F \o o) /\ text \in Seq(Sent) /\ F \in Seq(Sent) /\ o \in Seq(Sent)
  <2>1. UnreadThen(TRUE, n, P, ps, qs)
    BY <1>1, <1>2, <1>3, <1>12, IncludedUnread
  <2>2. QED
    BY <1>1, <1>13, <2>1, Zenon DEF UnreadThen
<1>15. /\ ps[1] \in Nat \ {0} /\ From(h, ps[1]) \in Seq(Sent)
       /\ Unread(TRUE, ps) = From(h, ps[1]) \o o
  BY <1>1, <1>2, <1>9, <1>13, UnreadHead
<1>16. PICK a, c : a = NoJunk(queued) /\ c = Expand(TRUE)
  OBVIOUS
<1>17. a \in Seq(Sent)
  BY <1>2, <1>16, KeptIs DEF Types
<1>18. PartOf(text \o F, From(h, ps[1]))
  BY <1>6, <1>10, <1>13, <1>15
<1>19. PartOf(a \o (From(h, ps[1]) \o o), c)
  BY <1>8, <1>15, <1>16 DEF InPlace
<1>20. PartOf((a \o text) \o (F \o o), c)
  BY <1>14, <1>15, <1>17, <1>18, <1>19, PartTaken
<1>21. (a \o text) \o (F \o o) = a \o (text \o (F \o o))
  <2>1. text \in Seq(Sent) /\ F \in Seq(Sent) /\ o \in Seq(Sent)
    BY <1>14
  <2>2. JoinedAlike(a, text, F, o)
    BY <1>17, <2>1, FourTexts
  <2>3. QED
    BY <2>2, Zenon DEF JoinedAlike
<1>22. Expand(TRUE)' = c /\ NoJunk(queued)' = a
  <2>1. NoJunk(queued)' = a
    BY <1>3, <1>16, Zenon DEF NoJunk
  <2>2. QED
    BY <1>3, <1>16, <2>1, SameExpand
<1>23. InPlace(qs)'
  BY <1>12, <1>14, <1>20, <1>21, <1>22 DEF InPlace
<1>24. PartOf(NoJunk(queued), Expand(TRUE))'
  <2>1. PartOf(a, c)
    BY <1>4, <1>16 DEF OrderInv
  <2>2. QED
    BY <1>22, <2>1
<1>25. FilesOK'
  <2>1. \A i \in 1 .. Len(files) : files[i].name \notin Routines /\ (files[i].inbuf = 0 => files[i].nextbuf = 0)
    BY <1>2, <1>4 DEF FilesOK
  <2>2. ASSUME NEW i \in 1 .. Len(files) + 1
        PROVE  files'[i].name \notin Routines /\ (files'[i].inbuf = 0 => files'[i].nextbuf = 0)
    <3>1. i = 1 \/ i = 2 \/ (i \in 3 .. Len(files) + 1 /\ i - 1 \in 1 .. Len(files))
      BY <1>4
    <3>2. CASE i = 1
      BY <1>3, <3>2 DEF Included
    <3>3. CASE i = 2
      <4>1. 1 \in 1 .. Len(files)
        BY <1>4
      <4>2. QED
        BY <1>3, <1>4, <2>1, <3>3, <4>1 DEF Included
    <3>4. CASE i \in 3 .. Len(files) + 1 /\ i - 1 \in 1 .. Len(files)
      <4>1. files'[i] = files[i - 1]
        BY <1>3, <3>4 DEF Included
      <4>2. QED
        BY <2>1, <3>4, <4>1
    <3>5. QED
      BY <3>1, <3>2, <3>3, <3>4
  <2>3. Len(files') = Len(files) + 1
    BY <1>3 DEF Included
  <2>4. QED
    BY <2>2, <2>3 DEF FilesOK
<1>26. QED
  BY <1>23, <1>24, <1>25 DEF OrderInv


\* The innermost file is at its end, and its call returns.
LEMMA ClosedReached ==
    ASSUME Types, files # <<>>, files' = Tail(files), NEW error, NEW st, Returned(error, st), NEW ps, Reached(ps)
    PROVE  Reached(Tail(ps))'
<1>1. PICK k, m : k = Len(files) /\ m = Len(stack)
  OBVIOUS
<1>2. PICK r, rs : r = Tail(files) /\ rs = Tail(ps)
  OBVIOUS
<1>3. /\ r \in Seq(OpenFile) /\ Len(r) = k - 1 /\ k \in Nat \ {0} /\ m \in Nat
      /\ \A i \in 1 .. k - 1 : r[i] = files[i + 1]
  BY <1>1, <1>2, FirstOf, LenProperties DEF Types
<1>4. /\ ps \in Seq(Nat \ {0}) /\ Len(ps) = k
      /\ \A i \in 1 .. k : ps[i] <= files[i].pos + 1
      /\ \A i \in 1 .. k, j \in 1 .. m :
            stack[j].fi = k - i + 1 /\ stack[j].at # "read"
               => ps[i] <= files[i].pos - files[i].inbuf + stack[j].len + 1
  BY <1>1 DEF Reached
<1>5. rs \in Seq(Nat \ {0}) /\ Len(rs) = k - 1 /\ \A i \in 1 .. k - 1 : rs[i] = ps[i + 1]
  <2>1. PICK S : S = Nat \ {0}
    OBVIOUS
  <2>2. ps # <<>>
    BY <1>3, <1>4, EmptySeq
  <2>3. rs \in Seq(S) /\ Len(rs) = Len(ps) - 1 /\ \A i \in 1 .. Len(ps) - 1 : rs[i] = ps[i + 1]
    BY <1>2, <1>4, <2>1, <2>2, FirstOf
  <2>4. QED
    BY <1>4, <2>1, <2>3
<1>6. \A i \in 1 .. k - 1 : i + 1 \in 1 .. k /\ k - (i + 1) + 1 = (k - 1) - i + 1
  BY <1>3
<1>7. \A i \in 1 .. k - 1 : rs[i] <= r[i].pos + 1
  BY <1>3, <1>4, <1>5, <1>6
<1>8. ASSUME NEW i \in 1 .. k - 1, NEW j \in 1 .. Len(stack'),
             stack'[j].fi = (k - 1) - i + 1, stack'[j].at # "read"
      PROVE  rs[i] <= r[i].pos - r[i].inbuf + stack'[j].len + 1
  <2>1. stack' # <<>>
    <3>1. ASSUME stack' = <<>> PROVE FALSE
      <4>1. j \in 1 .. 0
        BY <1>8, <3>1
      <4>2. QED
        BY <4>1
    <3>2. QED
      BY <3>1
  <2>2. Len(stack') = m - 1 /\ \A i1 \in 1 .. m - 1 : stack'[i1] = stack[i1 + 1]
    BY <1>1, <2>1 DEF Returned
  <2>3. j \in 1 .. m - 1 /\ j + 1 \in 1 .. m
    BY <1>3, <2>2
  <2>4. stack'[j] = stack[j + 1]
    BY <2>2, <2>3
  <2>5. stack[j + 1].fi = k - (i + 1) + 1 /\ stack[j + 1].at # "read"
    BY <1>6, <1>8, <2>4
  <2>6. ps[i + 1] <= files[i + 1].pos - files[i + 1].inbuf + stack[j + 1].len + 1
    BY <1>4, <1>6, <2>3, <2>5
  <2>7. QED
    BY <1>3, <1>5, <2>4, <2>6
<1>9. files' = r /\ Len(files') = k - 1
  BY <1>2, <1>3
<1>10. Reached(rs)'
  BY <1>5, <1>7, <1>8, <1>9 DEF Reached
<1>11. QED
  BY <1>2, <1>10

LEMMA TailNames ==
    ASSUME FilesOK, files \in Seq(OpenFile), files # <<>>, files' = Tail(files), req' = req
    PROVE  FilesOK'
<1>1. PICK r : r = Tail(files)
  OBVIOUS
<1>2. /\ Len(r) = Len(files) - 1 /\ Len(files) \in Nat \ {0}
      /\ \A i \in 1 .. Len(files) - 1 : r[i] = files[i + 1]
  BY <1>1, FirstOf
<1>3. \A i \in 1 .. Len(r) : r[i] = files[i + 1] /\ i + 1 \in 1 .. Len(files)
  BY <1>2
<1>4. files' = r
  BY <1>1
<1>5. QED
  BY <1>3, <1>4 DEF FilesOK

LEMMA ClosedOrder ==
    ASSUME OrderInv, IInv', Working, ~req.binary, req' = req, queued' = queued,
           files' = Tail(files), fileleft' = fileleft + 1, Returned(FALSE, state)
    PROVE  OrderInv'
<1>1. IInv /\ Types /\ state = "CONTENT" /\ files \in Seq(OpenFile) /\ files # <<>> /\ fileleft \in Nat
  BY DEF OrderInv, IInv, Working, Types
<1>2. FilesOK'
  BY <1>1, TailNames DEF OrderInv
<1>3. Depth' = Depth
  <2>1. PICK r : r = Tail(files)
    OBVIOUS
  <2>2. Len(r) = Len(files) - 1 /\ Len(files) \in Nat \ {0}
    BY <1>1, <2>1, FirstOf
  <2>3. Depth' = fileleft + 1 + Len(r)
    BY <2>1 DEF Depth
  <2>4. fileleft + 1 + Len(r) = fileleft + Len(files)
    BY <1>1, <2>2
  <2>5. QED
    BY <2>3, <2>4 DEF Depth
<1>4. Expand(TRUE)' = Expand(TRUE)
  BY <1>3, SameExpand
<1>5. NoJunk(queued)' = NoJunk(queued)
  BY Zenon DEF NoJunk
<1>6. PartOf(NoJunk(queued), Expand(TRUE))'
  <2>1. PartOf(NoJunk(queued), Expand(TRUE))
    BY DEF OrderInv
  <2>2. QED
    BY <1>4, <1>5, <2>1, Zenon DEF PartOf, Embeds
<1>7. PICK ps : InPlace(ps)
  BY <1>1 DEF OrderInv
<1>8. ps \in Seq(Nat \ {0}) /\ Len(ps) = Len(files) /\ Reached(ps)
  BY <1>7 DEF InPlace, Reached
<1>9. PICK rs : rs = Tail(ps)
  OBVIOUS
<1>10. Reached(rs)'
  BY <1>1, <1>8, <1>9, ClosedReached
<1>11. PICK a, b, o, e : a = NoJunk(queued) /\ b = From(HeadPieces(TRUE), ps[1]) /\ o = Outer(TRUE, rs) /\ e = Expand(TRUE)
  OBVIOUS
<1>12. b \in Seq(Sent) /\ o \in Seq(Sent) /\ Unread(TRUE, ps) = b \o o
  BY <1>1, <1>8, <1>9, <1>11, UnreadHead
<1>13. PartOf(a \o (b \o o), e)
  BY <1>7, <1>11, <1>12 DEF InPlace
<1>14. a \in Seq(Sent)
  <2>1. queued \in Seq(Sent)
    BY <1>1 DEF Types
  <2>2. QED
    BY <1>11, <2>1, KeptIs
<1>15. PartOf(a \o o, a \o (b \o o))
  <2>1. b \o o \in Seq(Sent)
    BY <1>12, ConcatProperties
  <2>2. PartOf(o, b \o o)
    BY <1>12, EndsArePart
  <2>3. QED
    BY <1>12, <1>14, <2>1, <2>2, PartOfItself, PartsJoined
<1>16. PartOf(a \o o, e)
  BY <1>13, <1>15, PartOfPart
<1>17. Unread(TRUE, rs)' = o
  BY <1>3, <1>11, PoppedUnread
<1>18. InPlace(rs)'
  <2>1. PartOf(NoJunk(queued) \o Unread(TRUE, rs), Expand(TRUE))'
    <3>1. a = NoJunk(queued)' /\ o = Unread(TRUE, rs)' /\ e = Expand(TRUE)'
      BY <1>4, <1>5, <1>11, <1>17
    <3>2. QED
      BY <1>16, <3>1, Zenon
  <2>2. QED
    BY <1>10, <2>1 DEF InPlace
<1>19. QED
  BY <1>2, <1>6, <1>18 DEF OrderInv


\* Of a binary file nothing is queued.
LEMMA BinaryOrder ==
    ASSUME OrderInv, IInv', req.binary, req' = req, queued' = queued,
           \A i \in 1 .. Len(files') : files'[i].name \notin Routines
    PROVE  OrderInv'
<1>1. FilesOK'
  BY DEF FilesOK
<1>2. QED
  BY <1>1, OrderSame

LEMMA ReadMoreOrder ==
    ASSUME OrderInv, IInv', ReadMore
    PROVE  OrderInv'
<1>1. IInv /\ Working /\ stack[1].at = "read" /\ FilesOK /\ Types
  <2>1. Working /\ Head(stack).at = "read"
    BY Works DEF ReadMore, Reading, OrderInv
  <2>2. QED
    BY <2>1 DEF OrderInv, Working, IInv
<1>2. PICK f, n, l : /\ f = FileHead /\ l = Len(TextOf(f.name))
                     /\ n = Smaller(BUF - f.inbuf, Len(TextOf(f.name)) - f.pos)
  OBVIOUS
<1>3. f = files[1] /\ f \in OpenFile /\ Block(f) /\ 1 \in 1 .. Len(files) /\ f.name \notin Routines
  BY <1>1, <1>2 DEF Working, FileHead, IInv, BlocksOK, FilesOK
<1>4. /\ f.pos \in Nat /\ f.inbuf \in 0 .. BUF /\ f.nextbuf \in Nat
      /\ l \in Nat /\ f.inbuf <= f.pos /\ f.pos <= l /\ (f.inbuf # 0 => f.inbuf = BUF \/ f.pos = l) /\ BUF \in Nat \ {0}
  BY <1>1, <1>2, <1>3, TextIs, SizesAssumption DEF OpenFile, Block
<1>5. n \in Nat /\ n <= BUF - f.inbuf /\ n <= l - f.pos
  <2>1. BUF - f.inbuf \in Nat /\ l - f.pos \in Nat
    BY <1>4
  <2>2. n = Smaller(BUF - f.inbuf, l - f.pos)
    BY <1>2
  <2>3. QED
    BY <2>1, <2>2, SmallerIs
<1>6. IF n = 0
      THEN /\ files' = Tail(files) /\ fileleft' = fileleft + 1
           /\ IF Tail(files) # <<>> THEN Return(FALSE, state) ELSE ReadDone
      ELSE /\ SetHead([f EXCEPT !.pos = @ + n, !.inbuf = @ + n])
           /\ IF req.binary THEN ReadDone ELSE Step("copy", f.nextbuf) /\ UNCHANGED <<state, pc>>
           /\ UNCHANGED fileleft
  BY <1>2 DEF ReadMore
<1>7. req' = req /\ queued' = queued /\ files \in Seq(OpenFile) /\ files # <<>> /\ stack \in Seq(Activation) /\ stack # <<>>
  BY <1>1 DEF ReadMore, history, NoSend, Types, Working
<1>8. CASE n = 0
  <2>1. files' = Tail(files) /\ fileleft' = fileleft + 1
    BY <1>6, <1>8
  <2>2. FilesOK'
    BY <1>1, <1>7, <2>1, TailNames
  <2>3. CASE req.binary
    BY <1>7, <2>2, <2>3, BinaryOrder DEF FilesOK
  <2>4. CASE ~req.binary /\ Tail(files) # <<>>
    <3>1. Return(FALSE, state)
      BY <1>6, <1>8, <2>4
    <3>2. Returned(FALSE, state)
      BY <1>7, <3>1, ReturnIs
    <3>3. QED
      BY <1>1, <1>7, <2>1, <2>4, <3>2, ClosedOrder
  <2>5. CASE ~req.binary /\ Tail(files) = <<>>
    <3>1. state' = "SENDDATA"
      BY <1>6, <1>8, <2>5 DEF ReadDone
    <3>2. Depth' = Depth
      <4>1. PICK r : r = Tail(files)
        OBVIOUS
      <4>2. Len(r) = Len(files) - 1 /\ Len(files) \in Nat \ {0} /\ fileleft \in Nat
        BY <1>1, <1>7, <4>1, FirstOf DEF Types
      <4>3. Depth' = fileleft + 1 + Len(r)
        BY <2>1, <4>1 DEF Depth
      <4>4. fileleft + 1 + Len(r) = fileleft + Len(files)
        BY <4>2
      <4>5. QED
        BY <4>3, <4>4 DEF Depth
    <3>3. QED
      BY <1>7, <2>2, <3>1, <3>2, OrderSame
  <2>6. QED
    BY <2>3, <2>4, <2>5
<1>9. CASE n # 0
  <2>1. f.inbuf = 0 /\ f.pos + n \in Nat /\ n \in 0 .. BUF /\ f.pos + n - n = f.pos /\ f.pos + n >= f.pos
    BY <1>4, <1>5, <1>9
  <2>2. PICK g : g = [f EXCEPT !.pos = f.pos + n, !.inbuf = f.inbuf + n]
    OBVIOUS
  <2>3. g \in OpenFile /\ g.name = f.name /\ g.pos = f.pos + n /\ g.inbuf = n
    <3>1. PICK p : p = f.pos + n
      OBVIOUS
    <3>2. f \in OpenFile /\ p \in Nat /\ n \in 0 .. BUF /\ g = Rebuffer(f, p, n)
      <4>1. f.inbuf + n = n
        BY <1>5, <2>1
      <4>2. QED
        BY <1>3, <2>1, <2>2, <3>1, <4>1 DEF Rebuffer
    <3>3. g \in OpenFile /\ g.name = f.name /\ g.pos = p /\ g.inbuf = n
      BY <3>2, Rebuffered
    <3>4. QED
      BY <3>1, <3>3
  <2>4. SetHead(g)
    BY <1>6, <1>9, <2>2
  <2>5. HeadFile(g)
    BY <1>7, <2>3, <2>4, HeadFileIs
  <2>6. /\ Len(files') = Len(files) /\ files'[1] = g /\ (\A i \in 2 .. Len(files) : files'[i] = files[i])
        /\ \A i \in 1 .. Len(files) : i = 1 \/ i \in 2 .. Len(files)
    BY <1>1, <2>5 DEF HeadFile, Working
  <2>7. FilesOK'
    <3>1. ASSUME NEW i \in 1 .. Len(files)
          PROVE  files'[i].name \notin Routines /\ (~req.binary /\ files'[i].inbuf = 0 => files'[i].nextbuf = 0)
      <4>1. files[i].name \notin Routines /\ (~req.binary /\ files[i].inbuf = 0 => files[i].nextbuf = 0)
        BY <1>1 DEF FilesOK
      <4>2. files'[i] = files[i] \/ (i = 1 /\ files'[i] = g)
        BY <2>6
      <4>3. QED
        BY <1>3, <1>9, <2>3, <4>1, <4>2
    <3>2. QED
      BY <1>7, <2>6, <3>1 DEF FilesOK
  <2>8. CASE req.binary
    BY <1>7, <2>7, <2>8, BinaryOrder DEF FilesOK
  <2>9. CASE ~req.binary
    <3>1. f.nextbuf = 0
      BY <1>1, <1>3, <2>1, <2>9 DEF FilesOK
    <3>2. Step("copy", 0) /\ fileleft' = fileleft
      BY <1>6, <1>9, <2>9, <3>1
    <3>3. Stepped("copy", 0)
      BY <1>7, <3>2, StepIs
    <3>4. g.pos - g.inbuf + 0 >= files[1].pos /\ g.pos >= files[1].pos
      BY <1>3, <1>4, <1>5, <2>1, <2>3
    <3>5. QED
      BY <1>1, <1>3, <1>7, <2>3, <2>5, <2>7, <2>9, <3>2, <3>3, <3>4, OrderGoes
  <2>10. QED
    BY <2>8, <2>9
<1>10. QED
  BY <1>8, <1>9

----------------------------------------------------------------------------
(* Sending, and the visits *)

\* Once the reply is being sent, nothing more is queued.
LEMMA SentOrder ==
    ASSUME OrderInv, IInv', req' = req, queued' = queued, files' = files, fileleft' = fileleft, state' # "CONTENT"
    PROVE  OrderInv'
<1>1. FilesOK' /\ Depth' = Depth
  BY DEF OrderInv, FilesOK, Depth
<1>2. QED
  BY <1>1, OrderSame

LEMMA SendOrder ==
    ASSUME OrderInv, IInv', SendTextHeader \/ SendTxbuf \/ TextSent \/ MoveHeader
    PROVE  OrderInv'
<1>1. pc \in {"sockwrite", "movebinary"} /\ req' = req /\ queued' = queued /\ files' = files /\ fileleft' = fileleft
  BY DEF SendTextHeader, SendTxbuf, TextSent, MoveHeader, NoRead
<1>2. state = "SENDDATA" /\ stack \in Seq(Activation)
  BY <1>1, Sending DEF OrderInv
<1>3. \/ state' = state
      \/ \E error \in BOOLEAN, st \in {"SENDDATA", "ENDING"} : Return(error, st)
  BY <1>2 DEF SendTextHeader, SendTxbuf, TextSent, MoveHeader
<1>4. state' # "CONTENT"
  <2>1. ASSUME NEW error \in BOOLEAN, NEW st \in {"SENDDATA", "ENDING"}, Return(error, st)
        PROVE  state' # "CONTENT"
    <3>1. Returned(error, st)
      BY <1>2, <2>1, ReturnIs
    <3>2. QED
      BY <3>1 DEF Returned
  <2>2. QED
    BY <1>2, <1>3, <2>1
<1>5. QED
  BY <1>1, <1>4, SentOrder

LEMMA MoveBlockOrder ==
    ASSUME OrderInv, IInv', MoveBlock
    PROVE  OrderInv'
<1>1. IInv /\ FilesOK /\ pc = "movebinary" /\ req.binary /\ req' = req /\ queued' = queued
  BY DEF MoveBlock, NoRead, OrderInv, IInv, CallsOK
<1>2. PICK f : f = Refilled(FileHead)
  OBVIOUS
<1>3. f \in OpenFile /\ f.name = "page" /\ files \in Seq(OpenFile) /\ files # <<>> /\ Len(files) = 1
  BY <1>1, <1>2, RefilledIs
<1>4. SetHead(f) \/ SetHead([f EXCEPT !.inbuf = 0]) \/ files' = Tail(files)
  BY <1>2 DEF MoveBlock
<1>5. CASE files' = Tail(files)
  <2>1. FilesOK'
    BY <1>1, <1>3, <1>5, TailNames
  <2>2. QED
    BY <1>1, <2>1, BinaryOrder DEF FilesOK
<1>6. CASE SetHead(f) \/ SetHead([f EXCEPT !.inbuf = 0])
  <2>1. PICK g : g \in OpenFile /\ g.name = "page" /\ SetHead(g)
    <3>1. CASE SetHead(f)
      BY <1>3, <3>1
    <3>2. CASE SetHead([f EXCEPT !.inbuf = 0])
      <4>1. PICK g : g = [f EXCEPT !.inbuf = 0]
        OBVIOUS
      <4>2. g \in OpenFile /\ g.name = f.name
        BY <1>3, <4>1, EmptiedIs
      <4>3. QED
        BY <1>3, <3>2, <4>1, <4>2
    <3>3. QED
      BY <1>6, <3>1, <3>2
  <2>2. HeadFile(g)
    BY <1>3, <2>1, HeadFileIs
  <2>3. Len(files') = 1 /\ files'[1] = g
    BY <1>3, <2>2 DEF HeadFile
  <2>4. "page" \notin Routines
    BY TextAssumption
  <2>5. \A i \in 1 .. Len(files') : files'[i].name \notin Routines
    <3>1. \A i \in 1 .. Len(files') : i = 1
      BY <2>3
    <3>2. QED
      BY <2>1, <2>3, <2>4, <3>1
  <2>6. QED
    BY <1>1, <2>5, BinaryOrder
<1>7. QED
  BY <1>4, <1>5, <1>6

LEMMA QuietOrder ==
    ASSUME OrderInv, IInv', Poll \/ VisitContent \/ VisitSendData \/ Drain \/ Others \/ UNCHANGED vars
    PROVE  OrderInv'
<1>1. UNCHANGED <<req, state, files, queued, fileleft>>
  BY DEF Poll, VisitContent, VisitSendData, Drain, Others, Still, reply, history, vars
<1>2. stack' = stack \/ stack' = Call(<<>>, Len(files))
  BY DEF Poll, VisitContent, VisitSendData, Drain, Others, Still, vars
<1>3. ASSUME NEW j \in 1 .. Len(stack')
      PROVE  stack'[j].at = "read" \/ \E k \in 1 .. Len(stack) : stack'[j] = stack[k]
  <2>1. CASE stack' = stack
    BY <2>1
  <2>2. CASE stack' = Call(<<>>, Len(files))
    <3>1. PICK c : c = [fi |-> Len(files), at |-> "read", len |-> 0]
      OBVIOUS
    <3>2. stack' = <<c>> \o <<>> /\ c.at = "read"
      BY <2>2, <3>1 DEF Call
    <3>3. stack' = <<c>>
      BY <3>2, ConcatEmptySeq
    <3>4. j = 1 /\ stack'[1] = c
      BY <3>3
    <3>5. QED
      BY <3>2, <3>4
  <2>3. QED
    BY <1>2, <2>1, <2>2
<1>4. QED
  BY <1>1, <1>3, SettledOrder

----------------------------------------------------------------------------
LEMMA OfThePage ==
    \A raw \in BOOLEAN, page \in Seq(Unit), d \in Nat \ {0} : \A E :
        E = Expanded(raw, page, d) => E[d]["page"] = FlattenSeq(Pieces(raw, page, "page", E[d - 1]))
<1>1. SUFFICES ASSUME NEW raw \in BOOLEAN, NEW page \in Seq(Unit), NEW d \in Nat \ {0},
                      NEW E, E = Expanded(raw, page, d)
               PROVE  E[d]["page"] = FlattenSeq(Pieces(raw, page, "page", E[d - 1]))
  OBVIOUS
<1>2. d \in Nat /\ d \in 1 .. d
  OBVIOUS
<1>3. PICK n \in Name \cup {"page"} : n = "page"
  OBVIOUS
<1>4. E[d][n] = FlattenSeq(Pieces(raw, page, n, E[d - 1]))
  BY <1>1, <1>2, LevelsAre
<1>5. QED
  BY <1>3, <1>4

LEMMA StartsOrder == Init => OrderInv
<1>1. SUFFICES ASSUME Init
               PROVE  OrderInv
  OBVIOUS
<1>2. IInv /\ Types
  BY <1>1, StartsReply DEF IInv
<1>3. /\ files = <<Newly("page")>> /\ queued = <<>> /\ fileleft \in Nat
      /\ stack = Call(<<>>, 1) \/ stack = <<>>
  BY <1>1, <1>2 DEF Init, Types
<1>4. PICK c : c = Newly("page")
  OBVIOUS
<1>5. /\ c.name = "page" /\ c.pos = 0 /\ c.inbuf = 0 /\ c.nextbuf = 0
  BY <1>4 DEF Newly
<1>6. /\ Len(files) = 1 /\ files[1] = c /\ files # <<>> /\ Tail(files) = <<>>
      /\ \A i \in 1 .. Len(files) : i = 1
  <2>1. files = <<c>>
    BY <1>3, <1>4
  <2>2. QED
    BY <2>1, EmptySeq
<1>7. FilesOK
  <2>1. "page" \notin Routines
    BY TextAssumption
  <2>2. QED
    BY <1>5, <1>6, <2>1 DEF FilesOK
<1>8. Depth = fileleft + 1 /\ Depth \in Nat \ {0}
  BY <1>3, <1>6 DEF Depth
<1>9. PICK ps : ps = <<1>>
  OBVIOUS
<1>10. ps \in Seq(Nat \ {0}) /\ Len(ps) = 1 /\ ps[1] = 1 /\ Tail(ps) = <<>>
  BY <1>9
<1>11. Reached(ps)
  <2>1. \A j \in 1 .. Len(stack) : stack[j].at = "read"
    <3>1. CASE stack = <<>>
      <4>1. Len(stack) = 0 /\ \A j \in 1 .. 0 : FALSE
        BY <3>1
      <4>2. QED
        BY <4>1
    <3>2. CASE stack = Call(<<>>, 1)
      <4>1. PICK a : a = [fi |-> 1, at |-> "read", len |-> 0]
        OBVIOUS
      <4>2. stack = <<a>> \o <<>> /\ a.at = "read"
        BY <3>2, <4>1 DEF Call
      <4>3. stack = <<a>>
        BY <4>2, ConcatEmptySeq
      <4>4. \A j \in 1 .. Len(stack) : j = 1 /\ stack[1] = a
        BY <4>3
      <4>5. QED
        BY <4>2, <4>4
    <3>3. QED
      BY <1>3, <3>1, <3>2
  <2>2. ps[1] <= files[1].pos + 1
    BY <1>5, <1>6, <1>10
  <2>3. QED
    BY <1>6, <1>10, <2>1, <2>2 DEF Reached
<1>12. Unread(TRUE, ps) = Expand(TRUE) /\ Expand(TRUE) \in Seq(Sent)
  <2>1. PICK h : h = HeadPieces(TRUE)
    OBVIOUS
  <2>2. /\ h \in Seq(Seq(Sent)) /\ From(h, ps[1]) \in Seq(Sent)
        /\ Unread(TRUE, ps) = From(h, ps[1]) \o Outer(TRUE, Tail(ps))
    BY <1>2, <1>6, <1>10, <2>1, UnreadHead
  <2>3. Outer(TRUE, <<>>) = <<>>
    <3>1. PICK E, page, k : E = Expanded(TRUE, req.page, Depth) /\ page = req.page /\ k = fileleft + 1
      OBVIOUS
    <3>2. RestOf(TRUE, page, E, k, <<>>, <<>>) = <<>>
      BY DEF RestOf
    <3>3. Outer(TRUE, <<>>) = FlattenSeq(RestOf(TRUE, page, E, k, <<>>, <<>>))
      BY <1>6, <3>1, Zenon DEF Outer
    <3>4. QED
      BY <3>2, <3>3, FlatEmpty
  <2>4. From(h, 1) = Expand(TRUE)
    <3>1. PICK E, page, d : E = Expanded(TRUE, req.page, Depth) /\ page = req.page /\ d = Depth
      OBVIOUS
    <3>2. Expand(TRUE) = E[d]["page"]
      BY <3>1, ExpandIs
    <3>3. page \in Seq(Unit)
      BY <1>2, <3>1, LevelsNow
    <3>4. E[d]["page"] = FlattenSeq(Pieces(TRUE, page, "page", E[d - 1]))
      <4>1. E = Expanded(TRUE, page, d) /\ d \in Nat \ {0}
        BY <1>8, <3>1
      <4>2. TRUE \in BOOLEAN
        OBVIOUS
      <4>3. QED
        BY <3>3, <4>1, <4>2, OfThePage, Zenon
    <3>5. fileleft = d - 1
      BY <1>3, <1>8, <3>1
    <3>6. h = Pieces(TRUE, page, "page", E[d - 1])
      BY <1>5, <1>6, <2>1, <3>1, <3>5, Zenon DEF HeadPieces
    <3>7. FlattenSeq(h) = From(h, 1)
      <4>1. 1 \in Nat \ {0} /\ h \in Seq(Seq(Sent))
        BY <2>2
      <4>2. QED
        BY <4>1, FromIs
    <3>8. QED
      BY <3>2, <3>4, <3>6, <3>7
  <2>5. Unread(TRUE, ps) = From(h, 1) \o <<>>
    BY <1>10, <2>2, <2>3
  <2>6. From(h, 1) \in Seq(Sent)
    BY <1>10, <2>2
  <2>7. QED
    BY <2>4, <2>5, <2>6, ConcatEmptySeq
<1>13. NoJunk(queued) = <<>>
  <2>1. PICK q : q = queued
    OBVIOUS
  <2>2. Kept(q) = <<>>
    BY <1>3, <2>1 DEF Kept
  <2>3. NoJunk(q) = FlattenSeq(Kept(q))
    BY Zenon DEF NoJunk, Kept
  <2>4. QED
    BY <2>1, <2>2, <2>3, FlatEmpty
<1>14. PartOf(NoJunk(queued), Expand(TRUE))
  BY <1>12, <1>13, NothingIsPart
<1>15. InPlace(ps)
  <2>1. NoJunk(queued) \o Unread(TRUE, ps) = Expand(TRUE)
    BY <1>12, <1>13, ConcatEmptySeq
  <2>2. PartOf(Expand(TRUE), Expand(TRUE))
    BY <1>12, PartOfItself
  <2>3. QED
    BY <1>11, <2>1, <2>2 DEF InPlace
<1>16. QED
  BY <1>2, <1>7, <1>14, <1>15 DEF OrderInv

LEMMA NextOrder == OrderInv /\ [Next]_vars => OrderInv'
<1>1. SUFFICES ASSUME OrderInv, [Next]_vars
               PROVE  OrderInv'
  OBVIOUS
<1>2. IInv'
  BY <1>1, NextReply DEF OrderInv
<1>3. CASE Read
  BY <1>1, <1>2, <1>3, ReadMoreOrder, CopyTextOrder, AfterDirectiveOrder, IncludeReturnsOrder, BlockDoneOrder DEF Read
<1>4. CASE Include
  BY <1>1, <1>2, <1>4, ExecOrder, IncludeFailsOrder, IncludeFileOrder, IncludeRoutineOrder, IncludeFaultsOrder DEF Include
<1>5. CASE Write
  BY <1>1, <1>2, <1>5, SendOrder, MoveBlockOrder DEF Write
<1>6. CASE Poll \/ VisitContent \/ VisitSendData \/ Drain \/ Others \/ UNCHANGED vars
  BY <1>1, <1>2, <1>6, QuietOrder
<1>7. QED
  BY <1>1, <1>3, <1>4, <1>5, <1>6 DEF Next, Server

LEMMA OrderFollows == OrderInv => TextInOrder
<1>1. SUFFICES ASSUME OrderInv
               PROVE  TextInOrder
  OBVIOUS
<1>2. PICK a, e : a = NoJunk(queued) /\ e = Expand(TRUE)
  OBVIOUS
<1>3. a \in Seq(Sent) /\ e \in Seq(Sent)
  BY <1>1, <1>2, KeptIs, ExpandType DEF OrderInv, IInv, Types
<1>4. PartOf(a, e)
  <2>1. CASE req.binary
    <3>1. queued = <<>>
      BY <1>1, <2>1 DEF OrderInv, IInv, BinaryOK
    <3>2. Kept(queued) = <<>>
      BY <3>1 DEF Kept
    <3>3. a = FlattenSeq(Kept(queued))
      BY <1>2, Zenon DEF NoJunk, Kept
    <3>4. a = <<>>
      BY <3>2, <3>3, FlatEmpty
    <3>5. QED
      BY <1>3, <3>4, NothingIsPart
  <2>2. CASE ~req.binary
    BY <1>1, <1>2, <2>2 DEF OrderInv
  <2>3. QED
    BY <2>1, <2>2
<1>5. Within(a, e)
  BY <1>3, <1>4, PartIsWithin
<1>6. QED
  BY <1>2, <1>5 DEF TextInOrder

\* Whatever the page, its includes and what runs out, no text is queued twice or out of
\* its order (webio.c:1090): wf_nextbuf and wf_inbuf say from where a file is read on.
THEOREM PageInOrder == Spec => []TextInOrder
<1>1. Spec => []OrderInv
  BY StartsOrder, NextOrder, PTL DEF Spec
<1>2. QED
  BY <1>1, OrderFollows, PTL

----------------------------------------------------------------------------
(* A regular page is queued whole *)

\* The place of its file from which a call goes on.
NextOf(f, at, len) == IF at = "read" THEN f.pos + 1 ELSE f.pos - f.inbuf + len + 1

\* Blocks are read one behind the other, each from the end of the one before it; a call is
\* never within a directive, and one that has met a directive has a character behind it.
Onward(page, found, f, at, len) ==
    LET t == TextIn(page, f.name)
        p == NextOf(f, at, len)
    IN  /\ f.name \in found
        /\ IF f.inbuf = 0 THEN f.pos % BUF = 0 \/ f.pos = Len(t) ELSE (f.pos - f.inbuf) % BUF = 0
        /\ p = 1 \/ t[p - 1].is # "start"
        /\ at = "read" => f.inbuf = 0
        /\ at = "copy" => len <= f.inbuf /\ f.nextbuf = 0
        /\ at \in {"ssi", "skipped"} => len < f.inbuf /\ t[p].is = "char"

\* What Regular asks of the files a page leads to.
Closed(page, found) ==
    /\ found \in SUBSET (Name \cup {"page"}) /\ "page" \in found
    /\ \A n \in found \ Routines :
          /\ \A p \in DOMAIN TextIn(page, n) : TextIn(page, n)[p].to \in Name => TextIn(page, n)[p].to \in found
          /\ RegularText(TextIn(page, n))

LEMMA RegularIs == Regular <=> \E found : Closed(req.page, found)
BY Zenon DEF Regular, Closed, TextIn, TextOf

\* Each open file has its call, and what was queued and what is unread are the page.
Exact(found, ps) ==
    /\ ps \in Seq(Nat \ {0}) /\ Len(ps) = Len(files) /\ Len(stack) = Len(files) /\ files # <<>>
    /\ \A i \in 1 .. Len(files) :
          /\ stack[i].fi = Len(files) - i + 1
          /\ ps[i] = NextOf(files[i], stack[i].at, stack[i].len)
          /\ Onward(req.page, found, files[i], stack[i].at, stack[i].len)
    /\ queued \o Unread(FALSE, ps) = Expand(FALSE)

\* The reply is still to be begun, in a visit.
Idle == pc = "visit" /\ stack = <<>> /\ files = <<Newly("page")>> /\ queued = <<>>

\* Nothing is missing.
Fine(found) == ~req.binary /\ lost \subseteq {"send", "form"} /\ Closed(req.page, found)

Said(found) ==
    /\ state = "SENDDATA" => queued = Expand(FALSE)
    /\ state = "CONTENT" => pc = "over" \/ Idle \/ (pc = "readfile" /\ \E ps : Exact(found, ps))

Whole(found) == Fine(found) => Said(found)

WholeInv == OrderInv /\ \A found : Whole(found)

----------------------------------------------------------------------------
(* Blocks and directives *)

LEMMA Multiple ==
    ASSUME NEW b \in Nat, b % BUF = 0
    PROVE  \E k \in Nat : b = k * BUF
BY SizesAssumption, SMTT(30)

LEMMA BlockOf ==
    ASSUME NEW k \in Nat, NEW x \in Nat, NEW y \in Nat, x \div BUF = y \div BUF, x >= k * BUF, x < k * BUF + BUF
    PROVE  y < k * BUF + BUF
<1>1. BUF \in Nat \ {0, 1}
  BY SizesAssumption
<1>2. x \div BUF = k
  BY <1>1
<1>3. y < BUF * (y \div BUF) + BUF
  BY <1>1
<1>4. y < BUF * k + BUF
  BY <1>2, <1>3
<1>5. QED
  BY <1>1, <1>4

InBlockAt(t, pos, inbuf, len, P) ==
    /\ t \in Seq(Unit) /\ RegularText(t) /\ pos \in Nat /\ inbuf \in Nat /\ len \in Nat
    /\ (pos - inbuf) % BUF = 0 /\ inbuf <= pos /\ pos <= Len(t) /\ inbuf <= BUF /\ (inbuf = BUF \/ pos = Len(t))
    /\ len < inbuf /\ P = pos - inbuf + len + 1

\* A directive of a regular text lies in the block its start is in, with what follows it.
LEMMA DirectiveInBlock ==
    ASSUME NEW t, NEW pos, NEW inbuf, NEW len, NEW P, InBlockAt(t, pos, inbuf, len, P), t[P].is = "start"
    PROVE  /\ len + 2 < inbuf /\ P + 2 <= Len(t)
           /\ t[P + 1].is = "end" /\ t[P + 2].is = "char"
<1>0. /\ t \in Seq(Unit) /\ RegularText(t) /\ pos \in Nat /\ inbuf \in Nat /\ len \in Nat
      /\ (pos - inbuf) % BUF = 0 /\ inbuf <= pos /\ pos <= Len(t) /\ inbuf <= BUF /\ (inbuf = BUF \/ pos = Len(t))
      /\ len < inbuf /\ P = pos - inbuf + len + 1
  BY DEF InBlockAt
<1>1. BUF \in Nat \ {0, 1} /\ Len(t) \in Nat
  BY SizesAssumption, LenProperties
<1>2. PICK b : b = pos - inbuf
  OBVIOUS
<1>3. b \in Nat /\ b % BUF = 0 /\ P = b + len + 1 /\ P \in 1 .. Len(t) /\ P <= pos /\ pos = b + inbuf
  BY <1>0, <1>1, <1>2
<1>4. PICK k \in Nat : b = k * BUF
  BY <1>3, Multiple
<1>5. P \in DOMAIN t
  BY <1>0, <1>3, LenProperties
<1>6. P + 2 <= Len(t) /\ t[P + 1].is = "end" /\ t[P + 2].is = "char" /\ (P - 1) \div BUF = (P + 1) \div BUF
  BY <1>0, <1>5 DEF RegularText
<1>7. PICK m, x, y : m = k * BUF /\ x = P - 1 /\ y = P + 1
  OBVIOUS
<1>8. m \in Nat /\ x \in Nat /\ y \in Nat /\ x = m + len /\ y = m + len + 2
  <2>1. m = b
    BY <1>4, <1>7
  <2>2. m \in Nat /\ len \in Nat /\ P = m + len + 1 /\ x = P - 1 /\ y = P + 1
    BY <1>0, <1>3, <1>7, <2>1
  <2>3. QED
    BY <2>2
<1>9. x >= m /\ x < m + BUF
  BY <1>0, <1>1, <1>8
<1>10. y < m + BUF
  BY <1>6, <1>7, <1>8, <1>9, BlockOf
<1>11. CASE inbuf = BUF
  BY <1>0, <1>1, <1>6, <1>7, <1>8, <1>10, <1>11
<1>12. CASE pos = Len(t)
  <2>1. P + 2 <= pos
    BY <1>0, <1>6, <1>12
  <2>2. QED
    BY <1>0, <1>3, <1>6, <2>1, SMTT(30)
<1>13. QED
  BY <1>0, <1>11, <1>12

LEMMA NextBlock ==
    ASSUME NEW pos \in Nat, (pos - BUF) % BUF = 0, BUF <= pos
    PROVE  pos % BUF = 0
<1>1. BUF \in Nat \ {0, 1}
  BY SizesAssumption
<1>2. PICK b : b = pos - BUF
  OBVIOUS
<1>3. b \in Nat /\ b % BUF = 0 /\ pos = b + BUF
  BY <1>1, <1>2
<1>4. PICK k \in Nat : b = k * BUF
  BY <1>3, Multiple
<1>5. pos = (k + 1) * BUF
  BY <1>1, <1>3, <1>4
<1>6. QED
  BY <1>1, <1>5

Stays(n, p, h) ==
    /\ UnitName(n, p) \in Sent /\ <<UnitName(n, p)>> \in Seq(Sent)
    /\ h \in Seq(Seq(Sent)) /\ From(h, p) = <<UnitName(n, p)>> \o From(h, p + 1)

\* A unit that is not of a directive is sent as it is.
LEMMA UnitStays ==
    ASSUME IInv, FilesOK, Working, NEW n, n = FileHead.name, NEW t, t = TextIn(req.page, n),
           NEW p \in 1 .. Len(t), t[p].is # "start", p = 1 \/ t[p - 1].is # "start",
           NEW h, h = HeadPieces(FALSE)
    PROVE  Stays(n, p, h)
<1>1. /\ n \in (Name \cup {"page"}) \ Routines /\ req.page \in Seq(Unit) /\ Inner(FALSE) \in Texts
      /\ h \in Seq(Seq(Sent)) /\ Len(h) = Len(t) /\ Len(t) \in Nat
      /\ \A k \in 1 .. Len(t) : h[k] = PieceIn(FALSE, req.page, n, k, Inner(FALSE))
  BY AtWork
<1>2. UnitName(n, p) \in Sent /\ <<UnitName(n, p)>> \in Seq(Sent)
  <2>1. n \in Name \cup {"page"} /\ p \in Int
    BY <1>1
  <2>2. QED
    BY <2>1, UnitIsSent
<1>3. ~Begins(t, p) /\ ~(p > 1 /\ Begins(t, p - 1))
  <2>1. p > 1 => t[p - 1].is # "start"
    BY <1>1
  <2>2. QED
    BY <2>1 DEF Begins
<1>4. h[p] = <<UnitName(n, p)>>
  <2>1. PICK page, inner : page = req.page /\ inner = Inner(FALSE)
    OBVIOUS
  <2>2. /\ page \in Seq(Unit) /\ inner \in Texts /\ p \in 1 .. Len(TextIn(page, n)) /\ TextIn(page, n) = t
    BY <1>1, <2>1
  <2>3. PieceIn(FALSE, page, n, p, inner) = <<UnitName(n, p)>>
    <3>1. n \in (Name \cup {"page"}) \ Routines
      BY <1>1
    <3>2. ~Begins(TextIn(page, n), p) /\ ~(p > 1 /\ Begins(TextIn(page, n), p - 1))
      BY <1>3, <2>2
    <3>3. QED
      BY <2>2, <3>1, <3>2, CleanPieces, ZenonT(60)
  <2>4. QED
    BY <1>1, <2>1, <2>3
<1>5. From(h, p) = h[p] \o From(h, p + 1)
  <2>1. p \in Nat \ {0} /\ p <= Len(h)
    <3>1. PICK l : l = Len(t)
      OBVIOUS
    <3>2. l \in Nat /\ Len(h) = l /\ p \in 1 .. l
      BY <1>1, <3>1
    <3>3. p \in Nat \ {0} /\ p <= l
      BY <3>2
    <3>4. QED
      BY <3>2, <3>3
  <2>2. QED
    BY <1>1, <2>1, FromIs
<1>6. QED
  BY <1>1, <1>2, <1>4, <1>5 DEF Stays

Gone(p, h, text) == h \in Seq(Seq(Sent)) /\ text \in Seq(Sent) /\ From(h, p) = text \o From(h, p + 2)

\* A directive is replaced by the text of the file it names.
LEMMA DirectiveGone ==
    ASSUME IInv, FilesOK, Working, NEW n, n = FileHead.name, NEW t, t = TextIn(req.page, n),
           NEW p \in Nat \ {0}, p + 1 <= Len(t), t[p].is = "start", t[p + 1].is = "end", NEW h, h = HeadPieces(FALSE),
           NEW text, text = IF t[p].to \in Name THEN Inner(FALSE)[t[p].to] ELSE <<>>
    PROVE  Gone(p, h, text)
<1>1. /\ n \in (Name \cup {"page"}) \ Routines /\ req.page \in Seq(Unit) /\ Inner(FALSE) \in Texts
      /\ h \in Seq(Seq(Sent)) /\ Len(h) = Len(t) /\ Len(t) \in Nat
      /\ \A k \in 1 .. Len(t) : h[k] = PieceIn(FALSE, req.page, n, k, Inner(FALSE))
  BY AtWork, ZenonT(60)
<1>2. PICK q : q = p + 1
  OBVIOUS
<1>3. /\ p \in 1 .. Len(t) /\ q \in 1 .. Len(t) /\ q > 1 /\ q - 1 = p /\ p < Len(t) /\ q \in Nat \ {0} /\ q + 1 = p + 2
      /\ q + 1 \in Nat \ {0} /\ p <= Len(h) /\ q <= Len(h)
  <2>1. PICK l : l = Len(t)
    OBVIOUS
  <2>2. l \in Nat /\ Len(h) = l /\ p + 1 <= l
    BY <1>1, <2>1
  <2>3. /\ p \in 1 .. l /\ q \in 1 .. l /\ q > 1 /\ q - 1 = p /\ p < l /\ q \in Nat \ {0} /\ q + 1 = p + 2
        /\ q + 1 \in Nat \ {0}
    BY <1>2, <2>2
  <2>4. p <= l /\ q <= l
    BY <2>2, <2>3
  <2>5. QED
    BY <2>1, <2>2, <2>3, <2>4
<1>4. Begins(t, p) /\ Begins(t, q - 1)
  BY <1>2, <1>3 DEF Begins
<1>5. PICK page, inner : page = req.page /\ inner = Inner(FALSE)
  OBVIOUS
<1>6. page \in Seq(Unit) /\ inner \in Texts /\ TextIn(page, n) = t
  BY <1>1, <1>5
<1>7. h[p] = <<>>
  <2>1. PieceIn(FALSE, page, n, p, inner) = <<>>
    <3>1. n \in (Name \cup {"page"}) \ Routines /\ p \in 1 .. Len(TextIn(page, n)) /\ Begins(TextIn(page, n), p)
      BY <1>1, <1>3, <1>4, <1>6
    <3>2. QED
      BY <1>6, <3>1, CleanPieces
  <2>2. QED
    BY <1>1, <1>3, <1>5, <2>1
<1>8. h[q] = text
  <2>1. PieceIn(FALSE, page, n, q, inner) = IF TextIn(page, n)[q - 1].to \in Name THEN inner[TextIn(page, n)[q - 1].to] ELSE <<>>
    <3>1. n \in (Name \cup {"page"}) \ Routines /\ q \in 1 .. Len(TextIn(page, n)) /\ q > 1 /\ Begins(TextIn(page, n), q - 1)
      BY <1>1, <1>3, <1>4, <1>6
    <3>2. QED
      BY <1>6, <3>1, CleanPieces
  <2>2. PieceIn(FALSE, page, n, q, inner) = text
    BY <1>3, <1>5, <1>6, <2>1
  <2>3. QED
    BY <1>1, <1>3, <1>5, <2>2
<1>9. From(h, p) = h[p] \o From(h, q) /\ From(h, q) \in Seq(Sent) /\ h[q] \in Seq(Sent)
  <2>1. From(h, p) = h[p] \o From(h, p + 1)
    BY <1>1, <1>3, FromIs, ZenonT(60)
  <2>2. From(h, q) \in Seq(Sent) /\ h[q] \in Seq(Sent)
    BY <1>1, <1>3, FromIs
  <2>3. QED
    BY <1>2, <2>1, <2>2
<1>10. From(h, q) = h[q] \o From(h, q + 1)
  BY <1>1, <1>3, FromIs
<1>11. <<>> \o From(h, q) = From(h, q)
  BY <1>9, ConcatEmptySeq
<1>12. From(h, p) = text \o From(h, q + 1) /\ text \in Seq(Sent)
  BY <1>7, <1>8, <1>9, <1>10, <1>11
<1>13. QED
  BY <1>1, <1>3, <1>12 DEF Gone


----------------------------------------------------------------------------
(* Open files and their calls *)

\* The innermost call goes on with its file, behind the text it queues.
LEMMA ExactAdds ==
    ASSUME IInv, Types', Working, req' = req, fileleft' = fileleft,
           NEW found, NEW ps, Exact(found, ps),
           NEW f, HeadFile(f), f.name = files[1].name, NEW at, NEW len, Stepped(at, len),
           NEW r \in Nat \ {0}, r = NextOf(f, at, len), Onward(req.page, found, f, at, len),
           NEW text \in Seq(Sent), queued' = queued \o text,
           From(HeadPieces(FALSE), ps[1]) = text \o From(HeadPieces(FALSE), r)
    PROVE  \E qs : Exact(found, qs)'
<1>1. /\ Types /\ Len(files) \in Nat \ {0} /\ Len(stack) \in Nat \ {0} /\ stack[1].fi = Len(files)
  BY DEF IInv, Working
<1>2. /\ ps \in Seq(Nat \ {0}) /\ Len(ps) = Len(files) /\ Len(stack) = Len(files) /\ files # <<>>
      /\ \A i \in 1 .. Len(files) :
            /\ stack[i].fi = Len(files) - i + 1
            /\ ps[i] = NextOf(files[i], stack[i].at, stack[i].len)
            /\ Onward(req.page, found, files[i], stack[i].at, stack[i].len)
      /\ queued \o Unread(FALSE, ps) = Expand(FALSE)
  BY DEF Exact
<1>3. PICK qs : qs = <<r>> \o Tail(ps)
  OBVIOUS
<1>4. /\ qs \in Seq(Nat \ {0}) /\ Len(qs) = Len(ps) /\ qs[1] = r /\ Tail(qs) = Tail(ps)
      /\ \A i \in 2 .. Len(ps) : qs[i] = ps[i]
  <2>1. PICK S : S = Nat \ {0}
    OBVIOUS
  <2>2. ps \in Seq(S) /\ r \in S /\ ps # <<>>
    BY <1>1, <1>2, <2>1, EmptySeq
  <2>3. /\ qs \in Seq(S) /\ Len(qs) = Len(ps) /\ qs[1] = r /\ Tail(qs) = Tail(ps)
        /\ \A i \in 2 .. Len(ps) : qs[i] = ps[i]
    BY <1>3, <2>2, Renewed
  <2>4. QED
    BY <2>1, <2>3
<1>5. /\ Len(files') = Len(files) /\ files'[1] = f /\ files' # <<>>
      /\ \A i \in 2 .. Len(files) : files'[i] = files[i]
      /\ Len(stack') = Len(stack) /\ stack'[1].fi = stack[1].fi /\ stack'[1].at = at /\ stack'[1].len = len
      /\ \A i \in 2 .. Len(stack) : stack'[i] = stack[i]
  BY DEF HeadFile, Stepped
<1>6. ASSUME NEW i \in 1 .. Len(files)
      PROVE  /\ stack'[i].fi = Len(files) - i + 1
             /\ qs[i] = NextOf(files'[i], stack'[i].at, stack'[i].len)
             /\ Onward(req.page, found, files'[i], stack'[i].at, stack'[i].len)
  <2>1. CASE i = 1
    <3>1. stack'[1].fi = Len(files) - 1 + 1
      BY <1>1, <1>5
    <3>2. QED
      BY <1>4, <1>5, <2>1, <3>1
  <2>2. CASE i \in 2 .. Len(files)
    BY <1>2, <1>4, <1>5, <2>2
  <2>3. QED
    BY <1>1, <2>1, <2>2
<1>7. Depth' = Depth
  BY <1>5 DEF Depth
<1>8. PICK h, o : h = HeadPieces(FALSE) /\ o = Outer(FALSE, Tail(ps))
  OBVIOUS
<1>9. h \in Seq(Seq(Sent)) /\ From(h, ps[1]) \in Seq(Sent) /\ o \in Seq(Sent) /\ Unread(FALSE, ps) = From(h, ps[1]) \o o
  BY <1>1, <1>2, <1>8, UnreadHead
<1>10. From(h, r) \in Seq(Sent) /\ Unread(FALSE, qs) = From(h, r) \o o
  <2>1. Len(qs) = Len(files)
    BY <1>2, <1>4
  <2>2. Unread(FALSE, qs) = From(h, qs[1]) \o Outer(FALSE, Tail(qs)) /\ From(h, qs[1]) \in Seq(Sent)
    BY <1>1, <1>2, <1>4, <1>8, <2>1, UnreadHead
  <2>3. QED
    BY <1>4, <1>8, <2>2
<1>11. Unread(FALSE, qs)' = Unread(FALSE, qs)
  <2>1. \A i \in 1 .. Len(files) : i = 1 \/ i \in 2 .. Len(files)
    BY <1>1
  <2>2. \A i \in 1 .. Len(files) : files'[i].name = files[i].name
    BY <1>5, <2>1
  <2>3. QED
    BY <1>5, <1>7, <2>2, SameUnread
<1>12. Expand(FALSE)' = Expand(FALSE)
  BY <1>7, SameExpand
<1>13. (queued \o text) \o (From(h, r) \o o) = queued \o ((text \o From(h, r)) \o o)
  <2>1. PICK a, F : a = queued /\ F = From(h, r)
    OBVIOUS
  <2>2. a \in Seq(Sent) /\ F \in Seq(Sent) /\ text \in Seq(Sent) /\ o \in Seq(Sent)
    BY <1>1, <1>9, <1>10, <2>1 DEF Types
  <2>3. (a \o text) \o (F \o o) = a \o (text \o (F \o o))
    <3>1. JoinedAlike(a, text, F, o)
      BY <2>2, FourTexts
    <3>2. QED
      BY <3>1, Zenon DEF JoinedAlike
  <2>4. (text \o F) \o o = text \o (F \o o)
    <3>1. ThreeAlike(text, F, o)
      BY <2>2, ThreeTexts
    <3>2. QED
      BY <3>1, Zenon DEF ThreeAlike
  <2>5. QED
    BY <2>1, <2>3, <2>4
<1>14. (text \o From(h, r)) \o o = Unread(FALSE, ps)
  BY <1>8, <1>9
<1>15. queued' \o Unread(FALSE, qs)' = Expand(FALSE)'
  BY <1>2, <1>10, <1>11, <1>12, <1>13, <1>14
<1>16. /\ qs \in Seq(Nat \ {0}) /\ Len(qs) = Len(files') /\ Len(stack') = Len(files')
  BY <1>2, <1>4, <1>5
<1>17. Exact(found, qs)'
  BY <1>5, <1>6, <1>15, <1>16 DEF Exact
<1>18. QED
  BY <1>17

LEMMA ExactReached ==
    ASSUME IInv, NEW found, NEW ps, Exact(found, ps)
    PROVE  Reached(ps)
<1>1. PICK k : k = Len(files)
  OBVIOUS
<1>2. /\ k \in Nat /\ files \in Seq(OpenFile) /\ stack \in Seq(Activation) /\ Len(stack) = k
      /\ ps \in Seq(Nat \ {0}) /\ Len(ps) = k
      /\ \A i \in 1 .. k :
            /\ stack[i].fi = k - i + 1
            /\ ps[i] = NextOf(files[i], stack[i].at, stack[i].len)
            /\ Onward(req.page, found, files[i], stack[i].at, stack[i].len)
  BY <1>1, LenProperties DEF Exact, IInv, Types
<1>3. ASSUME NEW i \in 1 .. k
      PROVE  ps[i] <= files[i].pos + 1
  <2>1. files[i] \in OpenFile /\ stack[i] \in Activation
    BY <1>1, <1>2, <1>3, ElementOfSeq
  <2>2. PICK m, b, l, at : m = files[i].pos /\ b = files[i].inbuf /\ l = stack[i].len /\ at = stack[i].at
    OBVIOUS
  <2>3. m \in Nat /\ b \in Int /\ l \in Nat /\ at \in {"read", "copy", "ssi", "skipped"}
    BY <2>1, <2>2, SizesAssumption DEF OpenFile, Activation
  <2>4. at # "read" => l <= b
    <3>1. (at = "copy" => l <= b) /\ (at \in {"ssi", "skipped"} => l < b)
      <4>1. Onward(req.page, found, files[i], at, l)
        BY <1>2, <2>2
      <4>2. QED
        BY <2>2, <4>1, Zenon DEF Onward
    <3>2. QED
      BY <2>3, <3>1
  <2>5. ps[i] = IF at = "read" THEN m + 1 ELSE m - b + l + 1
    BY <1>2, <2>2 DEF NextOf
  <2>6. ps[i] <= m + 1
    BY <2>3, <2>4, <2>5
  <2>7. QED
    BY <2>2, <2>6
<1>4. ASSUME NEW i \in 1 .. k, NEW j \in 1 .. k, stack[j].fi = k - i + 1, stack[j].at # "read"
      PROVE  ps[i] <= files[i].pos - files[i].inbuf + stack[j].len + 1
  <2>1. i = j
    <3>1. stack[j].fi = k - j + 1
      BY <1>2
    <3>2. QED
      BY <1>2, <1>4, <3>1
  <2>2. ps[i] = files[i].pos - files[i].inbuf + stack[j].len + 1
    BY <1>2, <1>4, <2>1 DEF NextOf
  <2>3. ps[i] \in Nat \ {0}
    BY <1>2, ElementOfSeq
  <2>4. QED
    BY <2>2, <2>3
<1>5. QED
  BY <1>1, <1>2, <1>3, <1>4 DEF Reached

\* The innermost file is closed, with nothing of it left, and its call returns.
LEMMA ExactPopped ==
    ASSUME IInv, Types', req' = req, queued' = queued, files' = Tail(files), fileleft' = fileleft + 1,
           NEW found, NEW ps, Exact(found, ps), From(HeadPieces(FALSE), ps[1]) = <<>>
    PROVE  /\ Tail(files) = <<>> => queued' = Expand(FALSE)'
           /\ Tail(files) # <<>> /\ Returned(FALSE, state) => \E qs : Exact(found, qs)'
<1>1. PICK k : k = Len(files)
  OBVIOUS
<1>2. /\ k \in Nat /\ files \in Seq(OpenFile) /\ stack \in Seq(Activation) /\ Len(stack) = k /\ files # <<>>
      /\ ps \in Seq(Nat \ {0}) /\ Len(ps) = k
      /\ \A i \in 1 .. k :
            /\ stack[i].fi = k - i + 1
            /\ ps[i] = NextOf(files[i], stack[i].at, stack[i].len)
            /\ Onward(req.page, found, files[i], stack[i].at, stack[i].len)
      /\ queued \o Unread(FALSE, ps) = Expand(FALSE)
      /\ fileleft \in Nat /\ queued \in Seq(Sent) /\ Types
  BY <1>1, LenProperties DEF Exact, IInv, Types
<1>3. PICK r, rs : r = Tail(files) /\ rs = Tail(ps)
  OBVIOUS
<1>4. /\ r \in Seq(OpenFile) /\ Len(r) = k - 1 /\ k \in Nat \ {0}
      /\ \A i \in 1 .. k - 1 : r[i] = files[i + 1]
  BY <1>1, <1>2, <1>3, FirstOf
<1>5. rs \in Seq(Nat \ {0}) /\ Len(rs) = k - 1 /\ \A i \in 1 .. k - 1 : rs[i] = ps[i + 1]
  <2>1. PICK S : S = Nat \ {0}
    OBVIOUS
  <2>2. ps # <<>> /\ ps \in Seq(S)
    BY <1>2, <1>4, <2>1, EmptySeq
  <2>3. rs \in Seq(S) /\ Len(rs) = Len(ps) - 1 /\ \A i \in 1 .. Len(ps) - 1 : rs[i] = ps[i + 1]
    BY <1>3, <2>2, FirstOf
  <2>4. QED
    BY <1>2, <2>1, <2>3
<1>6. Depth' = Depth
  <2>1. Depth' = fileleft + 1 + Len(r)
    BY <1>3 DEF Depth
  <2>2. fileleft + 1 + (k - 1) = fileleft + k
    BY <1>2, <1>4
  <2>3. QED
    BY <1>1, <1>4, <2>1, <2>2 DEF Depth
<1>7. PICK o : o = Outer(FALSE, rs)
  OBVIOUS
<1>8. o \in Seq(Sent) /\ Unread(FALSE, ps) = o
  <2>1. /\ From(HeadPieces(FALSE), ps[1]) \in Seq(Sent) /\ Outer(FALSE, Tail(ps)) \in Seq(Sent)
        /\ Unread(FALSE, ps) = From(HeadPieces(FALSE), ps[1]) \o Outer(FALSE, Tail(ps))
    BY <1>1, <1>2, UnreadHead
  <2>2. o \in Seq(Sent) /\ Unread(FALSE, ps) = <<>> \o o
    BY <1>3, <1>7, <2>1
  <2>3. QED
    BY <2>2, ConcatEmptySeq
<1>9. Expand(FALSE)' = Expand(FALSE) /\ queued \o o = Expand(FALSE)
  BY <1>2, <1>6, <1>8, SameExpand
<1>10. CASE r = <<>>
  <2>1. rs = <<>>
    BY <1>4, <1>5, <1>10, EmptySeq
  <2>2. o = <<>>
    <3>1. PICK E, page, d : E = Expanded(FALSE, req.page, Depth) /\ page = req.page /\ d = fileleft + 1
      OBVIOUS
    <3>2. RestOf(FALSE, page, E, d, <<>>, <<>>) = <<>>
      BY DEF RestOf
    <3>3. Outer(FALSE, <<>>) = FlattenSeq(RestOf(FALSE, page, E, d, <<>>, <<>>))
      BY <1>3, <1>10, <3>1, Zenon DEF Outer
    <3>4. QED
      BY <1>7, <2>1, <3>2, <3>3, FlatEmpty
  <2>3. queued \o <<>> = queued
    BY <1>2, ConcatEmptySeq
  <2>4. QED
    BY <1>3, <1>9, <1>10, <2>2, <2>3
<1>11. CASE r # <<>> /\ Returned(FALSE, state)
  <2>1. k > 1 /\ k - 1 # 0
    BY <1>4, <1>11, EmptySeq
  <2>2. /\ Len(stack') = k - 1 /\ \A i \in 1 .. k - 1 : stack'[i] = stack[i + 1]
    BY <1>2, <1>11, <2>1 DEF Returned
  <2>3. ASSUME NEW i \in 1 .. k - 1
        PROVE  /\ stack'[i].fi = (k - 1) - i + 1
               /\ rs[i] = NextOf(r[i], stack'[i].at, stack'[i].len)
               /\ Onward(req.page, found, r[i], stack'[i].at, stack'[i].len)
    <3>1. i + 1 \in 1 .. k /\ k - (i + 1) + 1 = (k - 1) - i + 1
      BY <1>2
    <3>2. PICK j : j = i + 1
      OBVIOUS
    <3>3. stack'[i] = stack[j] /\ rs[i] = ps[j] /\ r[i] = files[j] /\ j \in 1 .. k /\ k - j + 1 = (k - 1) - i + 1
      BY <1>4, <1>5, <2>2, <3>1, <3>2
    <3>4. QED
      BY <1>2, <3>3
  <2>4. Unread(FALSE, rs)' = o
    BY <1>6, <1>7, PoppedUnread
  <2>5. queued' \o Unread(FALSE, rs)' = Expand(FALSE)'
    BY <1>9, <2>4
  <2>6. files' = r /\ Len(files') = k - 1 /\ files' # <<>>
    BY <1>3, <1>4, <1>11
  <2>7. Exact(found, rs)'
    BY <1>5, <2>2, <2>3, <2>5, <2>6 DEF Exact
  <2>8. QED
    BY <1>3, <1>11, <2>7
<1>12. QED
  BY <1>3, <1>10, <1>11


----------------------------------------------------------------------------
(* The call at work *)

\* Nothing is missing after a step if nothing was before it.
LEMMA ReadsExact ==
    ASSUME pc = "readfile", state = "CONTENT", req' = req, lost \subseteq lost', NEW found, Whole(found), Fine(found)'
    PROVE  Fine(found) /\ \E ps : Exact(found, ps)
<1>1. Fine(found)
  BY DEF Fine, Closed
<1>2. Said(found)
  BY <1>1 DEF Whole
<1>3. QED
  BY <1>1, <1>2 DEF Said, Idle

\* Where the innermost call is: m units of t are read, b of them in its block.
Here(found, t, m, b, l, at, p) ==
    /\ t \in Seq(Unit) /\ Len(t) \in Nat /\ RegularText(t)
    /\ \A q \in DOMAIN t : t[q].to \in Name => t[q].to \in found
    /\ m \in Nat /\ b \in Nat /\ l \in Nat /\ b <= BUF /\ b <= m /\ m <= Len(t)
    /\ b # 0 => b = BUF \/ m = Len(t)
    /\ p \in Nat \ {0} /\ p = IF at = "read" THEN m + 1 ELSE m - b + l + 1
    /\ IF b = 0 THEN m % BUF = 0 \/ m = Len(t) ELSE (m - b) % BUF = 0
    /\ p = 1 \/ t[p - 1].is # "start"
    /\ at = "read" => b = 0
    /\ at = "copy" => l <= b
    /\ at \in {"ssi", "skipped"} => l < b /\ t[p].is = "char"

LEMMA HeadIsHere ==
    ASSUME OrderInv, Working, NEW found, Fine(found), NEW ps, Exact(found, ps),
           NEW t, t = TextIn(req.page, files[1].name), NEW m, m = files[1].pos, NEW b, b = files[1].inbuf,
           NEW l, l = stack[1].len, NEW at, at = stack[1].at, NEW p, p = ps[1]
    PROVE  /\ Here(found, t, m, b, l, at, p) /\ files[1].name \in found
           /\ p = NextOf(files[1], at, l) /\ (at = "copy" => files[1].nextbuf = 0)
<1>1. /\ IInv /\ FilesOK /\ ~req.binary /\ Closed(req.page, found) /\ 1 \in 1 .. Len(files) /\ Len(files) \in Nat \ {0}
      /\ files[1] \in OpenFile /\ stack[1] \in Activation /\ FileHead = files[1]
  BY DEF OrderInv, Working, Fine, FileHead
<1>2. PICK n : n = files[1].name
  OBVIOUS
<1>3. t \in Seq(Unit) /\ Len(t) \in Nat /\ m \in Nat /\ b \in Nat /\ b <= m /\ m <= Len(t) /\ TextOf(n) = t /\ n \notin Routines
  <2>1. n = FileHead.name
    BY <1>1, <1>2
  <2>2. t = TextIn(req.page, n)
    BY <1>2
  <2>3. PICK raw \in BOOLEAN : raw = FALSE
    OBVIOUS
  <2>4. QED
    BY <1>1, <2>1, <2>2, <2>3, AtWork
<1>4. l \in Nat /\ b <= BUF
  BY <1>1, <1>3, SizesAssumption DEF OpenFile, Activation
<1>5. b # 0 => b = BUF \/ m = Len(t)
  <2>1. Block(files[1])
    BY <1>1 DEF IInv, BlocksOK
  <2>2. QED
    BY <1>2, <1>3, <2>1 DEF Block
<1>6. p \in Nat \ {0} /\ p = NextOf(files[1], at, l) /\ Onward(req.page, found, files[1], at, l)
  <2>1. ps \in Seq(Nat \ {0}) /\ Len(ps) = Len(files)
    BY DEF Exact
  <2>2. ps[1] \in Nat \ {0}
    BY <1>1, <2>1, ElementOfSeq
  <2>3. QED
    BY <1>1, <2>2 DEF Exact
<1>7. p = IF at = "read" THEN m + 1 ELSE m - b + l + 1
  BY <1>6 DEF NextOf
<1>8. /\ n \in found
      /\ IF b = 0 THEN m % BUF = 0 \/ m = Len(t) ELSE (m - b) % BUF = 0
      /\ p = 1 \/ t[p - 1].is # "start"
      /\ at = "read" => b = 0
      /\ at = "copy" => l <= b /\ files[1].nextbuf = 0
      /\ at \in {"ssi", "skipped"} => l < b /\ t[p].is = "char"
  BY <1>2, <1>6, Zenon DEF Onward
<1>9. /\ RegularText(t) /\ \A q \in DOMAIN t : t[q].to \in Name => t[q].to \in found
  BY <1>1, <1>2, <1>3, <1>8, Zenon DEF Closed
<1>10. QED
  BY <1>2, <1>3, <1>4, <1>5, <1>6, <1>7, <1>8, <1>9 DEF Here


LEMMA PlacesHere ==
    ASSUME OrderInv, Working, NEW t, t = TextIn(req.page, files[1].name), NEW m, m = files[1].pos, NEW b, b = files[1].inbuf,
           NEW l, l = stack[1].len
    PROVE  /\ \A k \in Nat : Place(k) = m - b + k + 1 /\ (InBlock(k) <=> k < b) /\ UnitAt(k) = t[Place(k)]
           /\ Head(stack).len = l
<1>1. IInv /\ FilesOK /\ FileHead = files[1]
  BY DEF OrderInv, Working, FileHead
<1>2. PICK n : n = FileHead.name
  OBVIOUS
<1>3. t = TextIn(req.page, n)
  BY <1>1, <1>2
<1>4. /\ Head(stack).len = stack[1].len
      /\ \A k \in Nat : /\ Place(k) = files[1].pos - files[1].inbuf + k + 1
                        /\ InBlock(k) <=> k < files[1].inbuf
                        /\ UnitAt(k) = t[Place(k)]
  <2>1. PICK raw \in BOOLEAN : raw = FALSE
    OBVIOUS
  <2>2. QED
    BY <1>1, <1>2, <1>3, AtWork
<1>5. QED
  BY <1>4

\* A directive that starts in the block.
LEMMA DirectiveHere ==
    ASSUME NEW found, NEW t, NEW m, NEW b, NEW l, NEW at, NEW p, Here(found, t, m, b, l, at, p),
           at # "read", l < b, t[p].is = "start"
    PROVE  l + 2 < b /\ p + 2 <= Len(t) /\ t[p + 1].is = "end" /\ t[p + 2].is = "char"
<1>1. /\ t \in Seq(Unit) /\ RegularText(t) /\ m \in Nat /\ b \in Nat /\ l \in Nat /\ b <= BUF /\ b <= m /\ m <= Len(t)
      /\ (b # 0 => b = BUF \/ m = Len(t)) /\ p = m - b + l + 1
      /\ IF b = 0 THEN m % BUF = 0 \/ m = Len(t) ELSE (m - b) % BUF = 0
  BY DEF Here
<1>2. b # 0
  BY <1>1
<1>3. (m - b) % BUF = 0 /\ (b = BUF \/ m = Len(t))
  BY <1>1, <1>2
<1>4. InBlockAt(t, m, b, l, p)
  BY <1>1, <1>3 DEF InBlockAt
<1>5. QED
  BY <1>4, DirectiveInBlock

\* The innermost call goes on with its file, in the read loop.
LEMMA GoesOn ==
    ASSUME IInv, IInv', Working, req' = req, fileleft' = fileleft, state' = state, pc' = "readfile",
           NEW found, NEW ps, Exact(found, ps),
           NEW f, HeadFile(f), f.name = files[1].name, NEW at, NEW len, Stepped(at, len),
           NEW r \in Nat \ {0}, r = NextOf(f, at, len), Onward(req.page, found, f, at, len),
           NEW text \in Seq(Sent), queued' = queued \o text,
           From(HeadPieces(FALSE), ps[1]) = text \o From(HeadPieces(FALSE), r)
    PROVE  Said(found)'
<1>1. Types'
  BY DEF IInv
<1>2. \E qs : Exact(found, qs)'
  BY <1>1, ExactAdds
<1>3. state' = "CONTENT"
  BY DEF Working
<1>4. QED
  BY <1>2, <1>3 DEF Said

LEMMA CopyUnitWhole ==
    ASSUME OrderInv, IInv', Working, pc = "readfile", req' = req, fileleft' = fileleft,
           NEW f, Alike(f), f.nextbuf = 0, stack[1].at \in {"copy", "skipped"},
           InBlock(Head(stack).len), ~Directive(Head(stack).len),
           CopyUnit(UnitName(FileHead.name, Place(Head(stack).len))),
           NEW found, Whole(found), Fine(found)'
    PROVE  Said(found)'
<1>1. IInv /\ FilesOK /\ state = "CONTENT" /\ stack[1].at # "read" /\ files[1].inbuf # 0 /\ FileHead = files[1]
  BY DEF OrderInv, Working, FileHead
<1>2. PICK n, t, u : n = files[1].name /\ t = TextIn(req.page, n) /\ u = UnitName(FileHead.name, Place(Head(stack).len))
  OBVIOUS
<1>3. /\ queued' = queued \o <<u>> /\ Stepped("copy", stack[1].len + 1) /\ state' = state /\ pc' = pc
      /\ lost' = lost
  <2>1. "tx" \notin lost'
    BY DEF Fine
  <2>2. QED
    BY <1>1, <1>2, <2>1, CopyUnitIs
<1>4. PICK ps : Fine(found) /\ Exact(found, ps)
  BY <1>1, <1>3, ReadsExact
<1>5. PICK m, b, l, at, p : m = files[1].pos /\ b = files[1].inbuf /\ l = stack[1].len /\ at = stack[1].at /\ p = ps[1]
  OBVIOUS
<1>6. /\ Here(found, t, m, b, l, at, p) /\ n \in found
  BY <1>2, <1>4, <1>5, HeadIsHere
<1>7. /\ p = m - b + l + 1 /\ p \in Nat \ {0} /\ m \in Nat /\ b \in Nat /\ l \in Nat /\ b # 0 /\ (m - b) % BUF = 0
      /\ p = 1 \/ t[p - 1].is # "start"
      /\ t \in Seq(Unit) /\ Len(t) \in Nat /\ RegularText(t) /\ b <= BUF /\ b <= m /\ m <= Len(t) /\ (b = BUF \/ m = Len(t))
  BY <1>1, <1>5, <1>6 DEF Here
<1>8. /\ \A k \in Nat : /\ Place(k) = m - b + k + 1
                        /\ InBlock(k) <=> k < b
                        /\ UnitAt(k) = t[Place(k)]
      /\ Head(stack).len = l
  BY <1>2, <1>5, PlacesHere
<1>9. Place(l) = p /\ l < b /\ UnitAt(l) = t[p] /\ u = UnitName(n, p)
  BY <1>1, <1>2, <1>7, <1>8
<1>10. t[p].is # "start"
  <2>1. SUFFICES ASSUME t[p].is = "start"
                 PROVE  FALSE
    OBVIOUS
  <2>2. l + 2 < b /\ t[p + 1].is = "end"
    BY <1>1, <1>5, <1>6, <1>9, <2>1, DirectiveHere
  <2>3. PICK k : k = l + 1
    OBVIOUS
  <2>4. k \in Nat /\ k < b /\ Place(k) = p + 1
    <3>1. k \in Nat /\ k < b /\ m - b + k + 1 = p + 1
      BY <1>7, <2>2, <2>3
    <3>2. QED
      BY <1>8, <3>1
  <2>5. InBlock(l + 1) /\ UnitAt(l + 1) = t[p + 1]
    BY <1>8, <2>3, <2>4
  <2>6. Directive(l)
    BY <1>9, <2>1, <2>2, <2>5 DEF Directive
  <2>7. QED
    BY <1>8, <2>6
<1>11. p \in 1 .. Len(t)
  BY <1>7, <1>9
<1>12. PICK h : h = HeadPieces(FALSE)
  OBVIOUS
<1>13. <<u>> \in Seq(Sent) /\ From(h, p) = <<u>> \o From(h, p + 1)
  <2>1. n = FileHead.name
    BY <1>1, <1>2
  <2>2. t = TextIn(req.page, n)
    BY <1>2
  <2>3. p = 1 \/ t[p - 1].is # "start"
    BY <1>7
  <2>4. Stays(n, p, h)
    BY <1>1, <1>10, <1>11, <1>12, <2>1, <2>2, <2>3, UnitStays
  <2>5. QED
    BY <1>9, <2>4, Zenon DEF Stays
<1>14. PICK r, len, text : r = p + 1 /\ len = l + 1 /\ text = <<u>>
  OBVIOUS
<1>15. /\ HeadFile(f) /\ f.name = n /\ f.pos = m /\ f.inbuf = b /\ f.nextbuf = 0
  BY <1>2, <1>5 DEF Alike
<1>16. r \in Nat \ {0} /\ r = m - b + len + 1 /\ r - 1 = p /\ len <= b
  BY <1>7, <1>9, <1>14
<1>17. r = NextOf(f, "copy", len)
  BY <1>15, <1>16 DEF NextOf
<1>18. Onward(req.page, found, f, "copy", len)
  BY <1>2, <1>6, <1>7, <1>10, <1>15, <1>16, <1>17 DEF Onward
<1>19. /\ Stepped("copy", len) /\ queued' = queued \o text /\ text \in Seq(Sent) /\ pc' = "readfile"
       /\ From(HeadPieces(FALSE), ps[1]) = text \o From(HeadPieces(FALSE), r)
  BY <1>3, <1>5, <1>12, <1>13, <1>14
<1>20. QED
  BY <1>1, <1>2, <1>3, <1>4, <1>15, <1>16, <1>17, <1>18, <1>19, GoesOn

LEMMA CopyTextWhole ==
    ASSUME OrderInv, IInv', CopyText, NEW found, Whole(found), Fine(found)'
    PROVE  Said(found)'
<1>1. IInv /\ Working /\ Head(stack).at = "copy" /\ Head(stack) = stack[1] /\ pc = "readfile" /\ state = "CONTENT"
  BY Works DEF CopyText, Reading, OrderInv, Working
<1>2. /\ files' = files /\ fileleft' = fileleft /\ req' = req /\ InBlock(Head(stack).len) /\ ~Directive(Head(stack).len)
      /\ CopyUnit(UnitName(FileHead.name, Place(Head(stack).len)))
  BY DEF CopyText, NoSend
<1>3. Alike(files[1])
  BY <1>1, <1>2, SameHead DEF Alike
<1>4. lost \subseteq lost'
  BY <1>2 DEF CopyUnit
<1>5. PICK ps : Fine(found) /\ Exact(found, ps)
  BY <1>1, <1>2, <1>4, ReadsExact
<1>6. files[1].nextbuf = 0
  BY <1>1, <1>5, HeadIsHere
<1>7. QED
  BY <1>1, <1>2, <1>3, <1>6, CopyUnitWhole

LEMMA AfterDirectiveWhole ==
    ASSUME OrderInv, IInv', AfterDirective, NEW found, Whole(found), Fine(found)'
    PROVE  Said(found)'
<1>1. IInv /\ FilesOK /\ Working /\ Head(stack).at = "skipped" /\ Head(stack) = stack[1] /\ pc = "readfile" /\ state = "CONTENT"
      /\ FileHead = files[1] /\ stack[1].at # "read"
  BY Works DEF AfterDirective, Reading, OrderInv, Working, FileHead
<1>2. PICK u : u = IF InBlock(Head(stack).len) THEN UnitName(FileHead.name, Place(Head(stack).len)) ELSE Junk
  OBVIOUS
<1>3. CopyUnit(u) /\ fileleft' = fileleft /\ req' = req /\ SetHead([FileHead EXCEPT !.nextbuf = 0])
  BY <1>2 DEF AfterDirective, NoSend
<1>4. lost \subseteq lost'
  BY <1>3 DEF CopyUnit
<1>5. PICK ps : Fine(found) /\ Exact(found, ps)
  BY <1>1, <1>3, <1>4, ReadsExact
<1>6. PICK t, m, b, l, at, p : /\ t = TextIn(req.page, files[1].name) /\ m = files[1].pos /\ b = files[1].inbuf
                               /\ l = stack[1].len /\ at = stack[1].at /\ p = ps[1]
  OBVIOUS
<1>7. Here(found, t, m, b, l, at, p)
  BY <1>1, <1>5, <1>6, HeadIsHere
<1>8. l \in Nat /\ l < b /\ t[p].is = "char" /\ p = m - b + l + 1
  BY <1>1, <1>6, <1>7 DEF Here
<1>9. /\ \A k \in Nat : /\ Place(k) = m - b + k + 1
                        /\ InBlock(k) <=> k < b
                        /\ UnitAt(k) = t[Place(k)]
  BY <1>1, <1>6, PlacesHere
<1>10. InBlock(l) /\ UnitAt(l).is = "char" /\ Head(stack).len = l
  BY <1>1, <1>6, <1>8, <1>9
<1>11. InBlock(Head(stack).len) /\ ~Directive(Head(stack).len) /\ u = UnitName(FileHead.name, Place(Head(stack).len))
  BY <1>2, <1>10 DEF Directive
<1>12. PICK f : f = [FileHead EXCEPT !.nextbuf = 0]
  OBVIOUS
<1>13. FileHead \in OpenFile /\ files \in Seq(OpenFile) /\ files # <<>>
  BY <1>1 DEF Working, IInv, Types
<1>14. f \in OpenFile /\ f.inbuf = FileHead.inbuf /\ f.pos = FileHead.pos /\ f.name = FileHead.name
  <2>1. PICK x \in Nat : x = 0
    OBVIOUS
  <2>2. f = [FileHead EXCEPT !.nextbuf = x]
    BY <1>12, <2>1
  <2>3. QED
    BY <1>13, <2>2, Marked
<1>15. f.nextbuf = 0
  BY <1>12, <1>13 DEF OpenFile
<1>16. HeadFile(f)
  BY <1>3, <1>12, <1>13, <1>14, HeadFileIs
<1>17. Alike(f)
  BY <1>1, <1>14, <1>16 DEF Alike
<1>18. stack[1].at \in {"copy", "skipped"} /\ CopyUnit(UnitName(FileHead.name, Place(Head(stack).len)))
  BY <1>1, <1>3, <1>11
<1>19. QED
  BY <1>1, <1>3, <1>11, <1>15, <1>17, <1>18, CopyUnitWhole


\* Of a directive the call goes on behind it, with the text it stands for queued.
LEMMA SkipsWhole ==
    ASSUME OrderInv, IInv', InDirective, req' = req, fileleft' = fileleft, state' = state, pc' = pc, lost \subseteq lost',
           NEW f, Alike(f), Stepped("skipped", Behind),
           NEW text, text = IF Wanted.to \in Name THEN Inner(FALSE)[Wanted.to] ELSE <<>>, queued' = queued \o text,
           NEW found, Whole(found), Fine(found)'
    PROVE  Said(found)'
<1>1. /\ IInv /\ FilesOK /\ Working /\ pc = "readfile" /\ state = "CONTENT" /\ stack[1].at = "copy" /\ FileHead = files[1]
      /\ files[1].inbuf # 0
  BY InDirectiveIs DEF OrderInv, Working
<1>2. PICK n, t : n = files[1].name /\ t = TextIn(req.page, n)
  OBVIOUS
<1>3. PICK ps : Fine(found) /\ Exact(found, ps)
  BY <1>1, ReadsExact
<1>4. PICK m, b, l, at, p : m = files[1].pos /\ b = files[1].inbuf /\ l = stack[1].len /\ at = stack[1].at /\ p = ps[1]
  OBVIOUS
<1>5. Here(found, t, m, b, l, at, p) /\ n \in found
  BY <1>1, <1>2, <1>3, <1>4, HeadIsHere
<1>6. /\ p = m - b + l + 1 /\ p \in Nat \ {0} /\ m \in Nat /\ b \in Nat /\ l \in Nat /\ b # 0 /\ (m - b) % BUF = 0
      /\ Len(t) \in Nat /\ b <= m /\ m <= Len(t)
  BY <1>1, <1>4, <1>5 DEF Here
<1>7. /\ \A k \in Nat : Place(k) = m - b + k + 1 /\ (InBlock(k) <=> k < b) /\ UnitAt(k) = t[Place(k)]
      /\ Head(stack).len = l
  BY <1>1, <1>2, <1>4, PlacesHere
<1>8. l < b /\ t[p].is = "start" /\ Wanted = t[p]
  <2>1. Place(l) = p
    BY <1>6, <1>7
  <2>2. InBlock(l) /\ UnitAt(l).is = "start" /\ Wanted = UnitAt(l)
    BY <1>7 DEF InDirective, Directive, Wanted
  <2>3. QED
    BY <1>6, <1>7, <2>1, <2>2
<1>9. l + 2 < b /\ p + 2 <= Len(t) /\ t[p + 1].is = "end" /\ t[p + 2].is = "char"
  BY <1>1, <1>4, <1>5, <1>8, DirectiveHere, SMTT(30)
<1>10. PICK r, len, h : r = p + 2 /\ len = l + 2 /\ h = HeadPieces(FALSE)
  OBVIOUS
<1>11. /\ r \in Nat \ {0} /\ r - 1 = p + 1 /\ r = m - b + len + 1 /\ len < b /\ p + 1 <= Len(t)
       /\ t[r].is = "char" /\ t[r - 1].is = "end"
  BY <1>6, <1>9, <1>10
<1>12. text \in Seq(Sent) /\ From(h, p) = text \o From(h, r)
  <2>1. n = FileHead.name
    BY <1>1, <1>2
  <2>2. text = IF t[p].to \in Name THEN Inner(FALSE)[t[p].to] ELSE <<>>
    BY <1>8
  <2>3. Gone(p, h, text)
    BY <1>1, <1>2, <1>6, <1>8, <1>9, <1>10, <1>11, <2>1, <2>2, DirectiveGone
  <2>4. QED
    BY <1>10, <2>3, Zenon DEF Gone
<1>13. Behind = len
  BY <1>7, <1>10 DEF Behind
<1>14. /\ HeadFile(f) /\ f.name = n /\ f.pos = m /\ f.inbuf = b
  BY <1>2, <1>4 DEF Alike
<1>15. r = NextOf(f, "skipped", len)
  BY <1>11, <1>14 DEF NextOf
<1>16. Onward(req.page, found, f, "skipped", len)
  BY <1>2, <1>5, <1>6, <1>11, <1>14, <1>15 DEF Onward
<1>17. From(HeadPieces(FALSE), ps[1]) = text \o From(HeadPieces(FALSE), r)
  BY <1>4, <1>10, <1>12
<1>18. QED
  BY <1>1, <1>2, <1>3, <1>11, <1>12, <1>13, <1>14, <1>15, <1>16, <1>17, GoesOn

LEMMA ExecWhole ==
    ASSUME OrderInv, IInv', Exec, NEW found, Whole(found), Fine(found)'
    PROVE  Said(found)'
<1>1. /\ InDirective /\ Step("skipped", Behind) /\ req' = req /\ Wanted.to = "exec"
      /\ UNCHANGED <<files, fileleft, queued, lost, state, pc>>
  BY DEF Exec, reply, history, NoSend
<1>2. /\ IInv /\ Working /\ Behind \in Nat /\ stack \in Seq(Activation) /\ stack # <<>> /\ queued \in Seq(Sent)
  BY <1>1, InDirectiveIs DEF OrderInv, Working, IInv, Types
<1>3. Alike(files[1]) /\ Stepped("skipped", Behind)
  BY <1>1, <1>2, SameHead, StepIs DEF Alike
<1>4. PICK text : text = <<>>
  OBVIOUS
<1>5. Wanted.to \notin Name
  BY <1>1, TextAssumption
<1>6. queued' = queued \o text
  BY <1>1, <1>2, <1>4, ConcatEmptySeq
<1>7. text = IF Wanted.to \in Name THEN Inner(FALSE)[Wanted.to] ELSE <<>>
  BY <1>4, <1>5
<1>8. QED
  BY <1>1, <1>3, <1>6, <1>7, SkipsWhole

LEMMA IncludeFailsWhole ==
    ASSUME OrderInv, IInv', IncludeFails, NEW found, Whole(found), Fine(found)'
    PROVE  Said(found)'
<1>1. /\ InDirective /\ Step("skipped", Behind) /\ req' = req
      /\ lost' = lost \cup Refused \cup (IF Wanted.to \in Name THEN {"file"} ELSE {})
      /\ UNCHANGED <<files, fileleft, queued, state, pc>>
  BY DEF IncludeFails, NoSend
<1>2. /\ IInv /\ Working /\ Behind \in Nat /\ stack \in Seq(Activation) /\ stack # <<>> /\ queued \in Seq(Sent)
  BY <1>1, InDirectiveIs DEF OrderInv, Working, IInv, Types
<1>3. Alike(files[1]) /\ Stepped("skipped", Behind)
  BY <1>1, <1>2, SameHead, StepIs DEF Alike
<1>4. PICK text : text = <<>>
  OBVIOUS
<1>5. Wanted.to \notin Name /\ lost \subseteq lost'
  BY <1>1 DEF Fine
<1>6. queued' = queued \o text
  BY <1>1, <1>2, <1>4, ConcatEmptySeq
<1>7. text = IF Wanted.to \in Name THEN Inner(FALSE)[Wanted.to] ELSE <<>>
  BY <1>4, <1>5
<1>8. QED
  BY <1>1, <1>3, <1>5, <1>6, <1>7, SkipsWhole

LEMMA IncludeRoutineWhole ==
    ASSUME OrderInv, IInv', IncludeRoutine, NEW found, Whole(found), Fine(found)'
    PROVE  Said(found)'
<1>1. PICK n, text, new, drop :
        /\ n = Wanted.to /\ text = [i \in 1 .. Len(Text[n]) |-> UnitName(n, i)]
        /\ new = (tx = <<>> \/ Len(text) >= TXBUF - Len(Last(tx))) /\ drop = (new /\ txleft = 0)
  OBVIOUS
<1>2. /\ InDirective /\ req' = req /\ Step("skipped", Behind) /\ Opens /\ n \in Name /\ n \in Routines
      /\ IF drop THEN UNCHANGED <<tx, txleft, queued>> ELSE Put(text, new)
      /\ lost' = lost \cup Refused \cup (IF drop THEN {"text"} ELSE {})
      /\ SetHead([FileHead EXCEPT !.nextbuf = Head(stack).len])
      /\ UNCHANGED <<fileleft, state, pc>>
  BY <1>1 DEF IncludeRoutine, Opens, NoSend
<1>3. /\ IInv /\ Types /\ Working /\ Behind \in Nat /\ Head(stack).len \in Nat
      /\ stack \in Seq(Activation) /\ stack # <<>> /\ fileleft > 0
  BY <1>2, InDirectiveIs DEF OrderInv, Working, IInv, Types, Opens
<1>4. PICK f : Alike(f)
  BY <1>2, <1>3, MarkedAlike
<1>5. Stepped("skipped", Behind)
  BY <1>2, <1>3, StepIs
<1>6. ~drop /\ lost \subseteq lost'
  BY <1>2 DEF Fine
<1>7. queued' = queued \o text
  BY <1>2, <1>6 DEF Put
<1>8. text = Inner(FALSE)[n]
  <2>1. text = RoutineText(n)
    BY <1>1 DEF RoutineText
  <2>2. QED
    BY <1>2, <1>3, <2>1, InnerIs
<1>9. text = IF Wanted.to \in Name THEN Inner(FALSE)[Wanted.to] ELSE <<>>
  BY <1>1, <1>2, <1>8
<1>10. QED
  BY <1>2, <1>4, <1>5, <1>6, <1>7, <1>9, SkipsWhole


\* The innermost call goes on, queueing nothing.
LEMMA MovesOn ==
    ASSUME OrderInv, IInv', Working, req' = req, fileleft' = fileleft, state' = state, pc' = "readfile", queued' = queued,
           NEW found, NEW ps, Exact(found, ps),
           NEW f, HeadFile(f), f.name = files[1].name, NEW at, NEW len, Stepped(at, len),
           ps[1] = NextOf(f, at, len), Onward(req.page, found, f, at, len)
    PROVE  Said(found)'
<1>1. IInv /\ Types /\ files # <<>> /\ Len(files) \in Nat
  BY DEF OrderInv, IInv, Working
<1>2. PICK text, r, h : text = <<>> /\ r = ps[1] /\ h = HeadPieces(FALSE)
  OBVIOUS
<1>3. ps \in Seq(Nat \ {0}) /\ Len(ps) = Len(files)
  BY DEF Exact
<1>4. r \in Nat \ {0} /\ From(h, r) \in Seq(Sent)
  BY <1>1, <1>2, <1>3, UnreadHead
<1>5. queued \in Seq(Sent) /\ text \in Seq(Sent)
  BY <1>1, <1>2 DEF Types
<1>6. queued' = queued \o text /\ From(h, r) = text \o From(h, r)
  BY <1>2, <1>4, <1>5, ConcatEmptySeq
<1>7. From(HeadPieces(FALSE), ps[1]) = text \o From(HeadPieces(FALSE), r)
  BY <1>2, <1>6
<1>8. r = NextOf(f, at, len)
  BY <1>2
<1>9. QED
  BY <1>1, <1>4, <1>5, <1>6, <1>7, <1>8, GoesOn

LEMMA IncludeReturnsWhole ==
    ASSUME OrderInv, IInv', IncludeReturns, state = "CONTENT", NEW found, Whole(found), Fine(found)'
    PROVE  Said(found)'
<1>1. /\ IInv /\ Types /\ pc = "readfile" /\ Head(stack).at = "ssi" /\ stack # <<>> /\ files # <<>>
      /\ stack \in Seq(Activation) /\ files \in Seq(OpenFile)
  BY DEF IncludeReturns, Reading, IInv, CallsOK, Types, OrderInv
<1>2. Len(files) \in Nat \ {0} /\ Head(stack) = stack[1] /\ stack[1] \in Activation
  BY <1>1, FirstOf
<1>3. PICK len, h : len = Head(stack).len /\ h = Len(files) - Head(stack).fi + 1
  OBVIOUS
<1>4. /\ IF h = 1 THEN Step("skipped", len) /\ UNCHANGED <<files, state, pc>>
         ELSE files' = [files EXCEPT ![h].nextbuf = len] /\ Return(FALSE, state)
      /\ UNCHANGED <<fileleft, queued, lost>> /\ req' = req
  BY <1>3 DEF IncludeReturns, history, NoSend
<1>5. PICK ps : Fine(found) /\ Exact(found, ps)
  BY <1>1, <1>4, ReadsExact
<1>6. stack[1].fi = Len(files)
  <2>1. stack[1].fi = Len(files) - 1 + 1
    BY <1>2, <1>5 DEF Exact
  <2>2. QED
    BY <1>2, <2>1
<1>7. h = 1
  BY <1>2, <1>3, <1>6
<1>8. Working
  BY <1>1, <1>2, <1>6, Works
<1>9. /\ Step("skipped", len) /\ files' = files /\ state' = state /\ pc' = pc /\ len = stack[1].len /\ len \in Nat
  BY <1>2, <1>3, <1>4, <1>7 DEF Activation
<1>10. HeadFile(files[1]) /\ Stepped("skipped", len)
  BY <1>1, <1>8, <1>9, SameHead, StepIs
<1>11. ps[1] = NextOf(files[1], "ssi", len) /\ Onward(req.page, found, files[1], "ssi", len)
  <2>1. 1 \in 1 .. Len(files)
    BY <1>2
  <2>2. QED
    BY <1>1, <1>2, <1>5, <1>9, <2>1 DEF Exact
<1>12. ps[1] = NextOf(files[1], "skipped", len) /\ Onward(req.page, found, files[1], "skipped", len)
  BY <1>11 DEF Onward, NextOf
<1>13. QED
  BY <1>1, <1>4, <1>5, <1>8, <1>9, <1>10, <1>12, MovesOn

LEMMA BlockDoneWhole ==
    ASSUME OrderInv, IInv', BlockDone, NEW found, Whole(found), Fine(found)'
    PROVE  Said(found)'
<1>1. IInv /\ Working /\ Head(stack).at = "copy" /\ Head(stack) = stack[1] /\ ~req.binary /\ pc = "readfile" /\ state = "CONTENT"
  BY Works DEF BlockDone, Reading, OrderInv, Working
<1>2. /\ IF FileHead.nextbuf = 0 /\ Head(stack).len > 0
         THEN SetHead([FileHead EXCEPT !.inbuf = 0]) /\ Step("read", 0) /\ UNCHANGED <<state, pc>>
         ELSE ReadDone /\ UNCHANGED files
      /\ UNCHANGED <<fileleft, queued, lost>> /\ req' = req /\ ~InBlock(Head(stack).len)
  BY DEF BlockDone, history, NoSend
<1>3. /\ files[1].inbuf # 0 /\ FileHead = files[1] /\ Len(files) \in Nat \ {0}
      /\ files \in Seq(OpenFile) /\ files # <<>> /\ files[1] \in OpenFile
      /\ stack \in Seq(Activation) /\ stack # <<>>
  BY <1>1 DEF Working, IInv, Types, FileHead
<1>4. PICK ps : Fine(found) /\ Exact(found, ps)
  BY <1>1, <1>2, ReadsExact
<1>5. PICK n, t, m, b, l, at, p : /\ n = files[1].name /\ t = TextIn(req.page, n) /\ m = files[1].pos /\ b = files[1].inbuf
                                  /\ l = stack[1].len /\ at = stack[1].at /\ p = ps[1]
  OBVIOUS
<1>6. Here(found, t, m, b, l, at, p) /\ n \in found /\ files[1].nextbuf = 0
  BY <1>1, <1>4, <1>5, HeadIsHere
<1>7. /\ p = m - b + l + 1 /\ p \in Nat \ {0} /\ m \in Nat /\ b \in Nat /\ l \in Nat /\ b # 0 /\ (m - b) % BUF = 0
      /\ l <= b /\ b <= m /\ m <= Len(t) /\ (b = BUF \/ m = Len(t)) /\ (p = 1 \/ t[p - 1].is # "start")
  BY <1>1, <1>3, <1>5, <1>6 DEF Here
<1>8. ~(l < b) /\ Head(stack).len = l
  <2>1. InBlock(l) <=> l < b
    BY <1>1, <1>5, <1>7, PlacesHere
  <2>2. QED
    BY <1>1, <1>2, <1>5, <2>1
<1>9. l = b /\ p = m + 1 /\ l > 0
  BY <1>7, <1>8
<1>10. SetHead([FileHead EXCEPT !.inbuf = 0]) /\ Step("read", 0) /\ UNCHANGED <<state, pc>>
  BY <1>2, <1>3, <1>6, <1>8, <1>9
<1>11. PICK f : f = [files[1] EXCEPT !.inbuf = 0]
  OBVIOUS
<1>12. f \in OpenFile /\ f.inbuf = 0 /\ f.pos = m /\ f.name = n
  <2>1. PICK g : g = files[1]
    OBVIOUS
  <2>2. g \in OpenFile /\ f = [g EXCEPT !.inbuf = 0]
    BY <1>3, <1>11, <2>1
  <2>3. f \in OpenFile /\ f.inbuf = 0 /\ f.pos = g.pos /\ f.name = g.name
    BY <2>2, SizesAssumption DEF OpenFile
  <2>4. QED
    BY <1>5, <2>1, <2>3
<1>13. HeadFile(f)
  BY <1>3, <1>10, <1>11, <1>12, HeadFileIs
<1>14. Stepped("read", 0)
  BY <1>3, <1>10, StepIs
<1>15. m % BUF = 0 \/ m = Len(t)
  <2>1. CASE b = BUF
    <3>1. (m - BUF) % BUF = 0 /\ BUF <= m /\ m \in Nat
      BY <1>7, <2>1
    <3>2. QED
      BY <3>1, NextBlock
  <2>2. QED
    BY <1>7, <2>1
<1>16. p = NextOf(f, "read", 0)
  BY <1>9, <1>12 DEF NextOf
<1>17. Onward(req.page, found, f, "read", 0)
  BY <1>5, <1>6, <1>7, <1>12, <1>15, <1>16 DEF Onward
<1>18. pc' = "readfile" /\ state' = state
  BY <1>1, <1>10
<1>19. QED
  BY <1>1, <1>2, <1>4, <1>5, <1>12, <1>13, <1>14, <1>16, <1>17, <1>18, MovesOn


LEMMA NothingBehind ==
    ASSUME OrderInv, Working, NEW t, t = TextIn(req.page, files[1].name), NEW p \in Nat \ {0}, p > Len(t)
    PROVE  From(HeadPieces(FALSE), p) = <<>>
<1>1. IInv /\ FilesOK /\ FileHead = files[1]
  BY DEF OrderInv, Working, FileHead
<1>2. PICK n, h : n = FileHead.name /\ h = HeadPieces(FALSE)
  OBVIOUS
<1>3. t = TextIn(req.page, n)
  BY <1>1, <1>2
<1>4. h \in Seq(Seq(Sent)) /\ Len(h) = Len(t)
  BY <1>1, <1>2, <1>3, AtWork
<1>5. From(h, p) = <<>>
  BY <1>4, FromIs
<1>6. QED
  BY <1>2, <1>5

LEMMA ReadMoreWhole ==
    ASSUME OrderInv, IInv', ReadMore, NEW found, Whole(found), Fine(found)'
    PROVE  Said(found)'
<1>1. IInv /\ Working /\ stack[1].at = "read" /\ FilesOK /\ Types /\ Types' /\ state = "CONTENT" /\ pc = "readfile"
  <2>1. Working /\ Head(stack).at = "read" /\ pc = "readfile"
    BY Works DEF ReadMore, Reading, OrderInv
  <2>2. QED
    BY <2>1 DEF OrderInv, Working, IInv
<1>2. PICK f, t, n : /\ f = FileHead /\ t = TextOf(f.name)
                     /\ n = Smaller(BUF - f.inbuf, Len(TextOf(f.name)) - f.pos)
  OBVIOUS
<1>3. f = files[1] /\ f \in OpenFile
  BY <1>1, <1>2 DEF Working, FileHead
<1>4. /\ IF n = 0
         THEN /\ files' = Tail(files) /\ fileleft' = fileleft + 1
              /\ IF Tail(files) # <<>> THEN Return(FALSE, state) ELSE ReadDone
         ELSE /\ SetHead([f EXCEPT !.pos = @ + n, !.inbuf = @ + n])
              /\ IF req.binary THEN ReadDone ELSE Step("copy", f.nextbuf) /\ UNCHANGED <<state, pc>>
              /\ UNCHANGED fileleft
      /\ req' = req /\ queued' = queued /\ lost' = lost
  BY <1>2 DEF ReadMore, history, NoSend
<1>5. files \in Seq(OpenFile) /\ files # <<>> /\ stack \in Seq(Activation) /\ stack # <<>>
  BY <1>1 DEF Types, Working
<1>6. PICK ps : Fine(found) /\ Exact(found, ps)
  BY <1>1, <1>4, ReadsExact
<1>7. ~req.binary
  BY <1>6 DEF Fine
<1>8. t = TextIn(req.page, files[1].name)
  BY <1>2, <1>3, Zenon DEF TextOf, TextIn
<1>9. PICK m, b, l, at, p : m = files[1].pos /\ b = files[1].inbuf /\ l = stack[1].len /\ at = stack[1].at /\ p = ps[1]
  OBVIOUS
<1>10. Here(found, t, m, b, l, at, p) /\ files[1].name \in found
  BY <1>1, <1>6, <1>8, <1>9, HeadIsHere
<1>11. /\ p = m + 1 /\ p \in Nat \ {0} /\ m \in Nat /\ b = 0 /\ Len(t) \in Nat /\ m <= Len(t)
       /\ (m % BUF = 0 \/ m = Len(t)) /\ (p = 1 \/ t[p - 1].is # "start")
  BY <1>1, <1>9, <1>10 DEF Here
<1>12. BUF \in Nat \ {0}
  BY SizesAssumption
<1>13. n = Smaller(BUF - b, Len(t) - m)
  BY <1>2, <1>3, <1>9
<1>14. n \in Nat /\ n <= BUF /\ n <= Len(t) - m /\ (n = 0 => m = Len(t))
  <2>1. PICK x, y : x = BUF - b /\ y = Len(t) - m
    OBVIOUS
  <2>2. x \in Nat \ {0} /\ y \in Nat /\ x = BUF /\ n = Smaller(x, y)
    BY <1>11, <1>12, <1>13, <2>1
  <2>3. n \in Nat /\ n <= x /\ n <= y /\ (n = 0 => y = 0)
    BY <2>2 DEF Smaller
  <2>4. QED
    BY <1>11, <2>1, <2>2, <2>3
<1>15. CASE n = 0
  <2>1. p > Len(t)
    BY <1>11, <1>14, <1>15
  <2>2. From(HeadPieces(FALSE), ps[1]) = <<>>
    BY <1>1, <1>8, <1>9, <1>11, <2>1, NothingBehind
  <2>3. files' = Tail(files) /\ fileleft' = fileleft + 1
    BY <1>4, <1>15
  <2>4. /\ Tail(files) = <<>> => queued' = Expand(FALSE)'
        /\ Tail(files) # <<>> /\ Returned(FALSE, state) => \E qs : Exact(found, qs)'
    BY <1>1, <1>4, <1>6, <2>2, <2>3, ExactPopped
  <2>5. CASE Tail(files) = <<>>
    <3>1. state' = "SENDDATA"
      BY <1>4, <1>15, <2>5 DEF ReadDone
    <3>2. QED
      BY <2>4, <2>5, <3>1 DEF Said
  <2>6. CASE Tail(files) # <<>>
    <3>1. Returned(FALSE, state)
      BY <1>4, <1>5, <1>15, <2>6, ReturnIs
    <3>2. Len(stack) > 1
      <4>1. PICK r : r = Tail(files)
        OBVIOUS
      <4>2. r \in Seq(OpenFile) /\ Len(r) = Len(files) - 1 /\ Len(files) \in Nat \ {0} /\ r # <<>>
        BY <1>5, <2>6, <4>1, FirstOf
      <4>3. Len(r) # 0 /\ Len(r) \in Nat
        BY <4>2, EmptySeq, LenProperties
      <4>4. Len(stack) = Len(files)
        BY <1>6 DEF Exact
      <4>5. QED
        BY <4>2, <4>3, <4>4
    <3>3. state' = "CONTENT" /\ pc' = "readfile"
      <4>1. Len(stack) \in Nat /\ ~(Len(stack) <= 1)
        BY <1>5, <3>2, LenProperties
      <4>2. QED
        BY <1>1, <3>1, <4>1 DEF Returned
    <3>4. QED
      BY <2>4, <2>6, <3>1, <3>3 DEF Said
  <2>7. QED
    BY <2>5, <2>6
<1>16. CASE n # 0
  <2>1. f.inbuf = 0 /\ f.pos = m /\ f.nextbuf = 0
    <3>1. 1 \in 1 .. Len(files)
      BY <1>1 DEF Working
    <3>2. QED
      BY <1>1, <1>3, <1>7, <1>9, <1>11, <3>1 DEF FilesOK
  <2>2. PICK g : g = [f EXCEPT !.pos = f.pos + n, !.inbuf = f.inbuf + n]
    OBVIOUS
  <2>3. g \in OpenFile /\ g.name = f.name /\ g.pos = m + n /\ g.inbuf = n /\ g.nextbuf = 0
    <3>1. PICK k : k = m + n
      OBVIOUS
    <3>2. f \in OpenFile /\ k \in Nat /\ n \in 0 .. BUF /\ g = [f EXCEPT !.pos = k, !.inbuf = n]
      <4>1. f.inbuf + n = n /\ f.pos + n = k /\ n \in 0 .. BUF /\ k \in Nat
        BY <1>11, <1>12, <1>14, <2>1, <3>1
      <4>2. QED
        BY <1>3, <2>2, <4>1
    <3>3. g \in OpenFile /\ g.name = f.name /\ g.pos = k /\ g.inbuf = n /\ g.nextbuf = f.nextbuf
      BY <3>2 DEF OpenFile
    <3>4. QED
      BY <2>1, <3>1, <3>3
  <2>4. SetHead(g) /\ Step("copy", 0) /\ state' = state /\ pc' = pc /\ fileleft' = fileleft
    BY <1>4, <1>7, <1>16, <2>1, <2>2
  <2>5. HeadFile(g) /\ Stepped("copy", 0)
    BY <1>5, <2>3, <2>4, HeadFileIs, StepIs
  <2>6. (m + n) - n = m /\ (m + n) - n + 0 + 1 = p /\ m % BUF = 0 /\ 0 <= n
    BY <1>11, <1>14, <1>16
  <2>7. p = NextOf(g, "copy", 0)
    BY <2>3, <2>6 DEF NextOf
  <2>8. Onward(req.page, found, g, "copy", 0)
    BY <1>3, <1>8, <1>10, <1>11, <1>16, <2>3, <2>6, <2>7 DEF Onward
  <2>9. g.name = files[1].name /\ pc' = "readfile"
    BY <1>1, <1>3, <2>3, <2>4
  <2>10. QED
    BY <1>1, <1>4, <1>6, <1>9, <2>4, <2>5, <2>7, <2>8, <2>9, MovesOn
<1>17. QED
  BY <1>15, <1>16


\* The places of the list of files grown by one.
LEMMA ShiftedPlaces ==
    ASSUME files # <<>>, Len(files) \in Nat \ {0}, Len(files') = Len(files) + 1,
           NEW ps, NEW rs, NEW qs, NEW P, Places(ps, rs, qs, P)
    PROVE  /\ qs[1] = 1 /\ qs[2] = P + 2 /\ qs \in Seq(Nat \ {0}) /\ Len(qs) = Len(files')
           /\ \A i \in 3 .. Len(files) + 1 : qs[i] = ps[i - 1]
<1>1. PICK k, S : k = Len(files) /\ S = Nat \ {0}
  OBVIOUS
<1>2. /\ k \in Nat \ {0}
      /\ ps \in Seq(S) /\ Len(ps) = k /\ rs \in Seq(S) /\ Len(rs) = k /\ rs[1] = P + 2 /\ Tail(rs) = Tail(ps)
      /\ qs \in Seq(S) /\ Len(qs) = k + 1 /\ qs[1] = 1 /\ Tail(qs) = rs
  BY <1>1 DEF Places
<1>3. ps # <<>> /\ rs # <<>> /\ qs # <<>>
  <2>1. Len(ps) # 0 /\ Len(rs) # 0 /\ Len(qs) # 0
    BY <1>2
  <2>2. QED
    BY <2>1
<1>4. /\ \A i \in 1 .. Len(ps) - 1 : Tail(ps)[i] = ps[i + 1]
      /\ \A i \in 1 .. Len(rs) - 1 : Tail(rs)[i] = rs[i + 1]
      /\ \A i \in 1 .. Len(qs) - 1 : Tail(qs)[i] = qs[i + 1]
  BY <1>2, <1>3, FirstOf
<1>5. \A i \in 1 .. k : rs[i] = qs[i + 1]
  <2>1. Len(qs) - 1 = k
    BY <1>2
  <2>2. QED
    BY <1>2, <1>4, <2>1
<1>6. \A i \in 1 .. k - 1 : rs[i + 1] = ps[i + 1]
  BY <1>2, <1>4
<1>7. qs[2] = P + 2
  <2>1. 1 \in 1 .. k /\ 1 + 1 = 2
    BY <1>2
  <2>2. QED
    BY <1>2, <1>5, <2>1
<1>8. ASSUME NEW i \in 3 .. k + 1
      PROVE  qs[i] = ps[i - 1]
  <2>1. PICK j : j = i - 2
    OBVIOUS
  <2>2. j \in 1 .. k - 1 /\ j + 1 \in 1 .. k /\ (j + 1) + 1 = i /\ j + 1 = i - 1
    BY <1>2, <2>1
  <2>3. qs[i] = rs[j + 1] /\ rs[j + 1] = ps[j + 1]
    BY <1>5, <1>6, <2>2
  <2>4. QED
    BY <2>2, <2>3
<1>9. QED
  BY <1>1, <1>2, <1>7, <1>8

LEMMA IncludeFileWhole ==
    ASSUME OrderInv, IInv', IncludeFile, NEW found, Whole(found), Fine(found)'
    PROVE  Said(found)'
<1>1. PICK n, P, h, text : n = Wanted.to /\ P = Place(Head(stack).len) /\ h = HeadPieces(FALSE) /\ text = Inner(FALSE)[n]
  OBVIOUS
<1>2. IInv /\ FilesOK /\ Types /\ Types'
  BY DEF OrderInv, IInv
<1>3. /\ Included(n, P) /\ n \in Name \ Routines /\ n \in Name
      /\ req' = req /\ queued' = queued /\ state' = state /\ InDirective /\ Depth' = Depth
  BY <1>1, <1>2, IncludedIs
<1>4. /\ Working /\ stack[1].at = "copy" /\ Head(stack) = stack[1] /\ pc = "readfile" /\ FileHead = files[1]
      /\ state = "CONTENT" /\ Len(files) \in Nat \ {0} /\ files[1].inbuf # 0 /\ files # <<>>
  BY <1>2, <1>3, InDirectiveIs DEF Working
<1>5. lost \subseteq lost' /\ pc' = pc
  BY DEF IncludeFile
<1>6. PICK ps : Fine(found) /\ Exact(found, ps)
  BY <1>3, <1>4, <1>5, ReadsExact
<1>7. PICK m, b, l, at, p, t, g : /\ m = files[1].pos /\ b = files[1].inbuf /\ l = stack[1].len /\ at = stack[1].at
                                  /\ p = ps[1] /\ g = files[1].name /\ t = TextIn(req.page, g)
  OBVIOUS
<1>8. Here(found, t, m, b, l, at, p) /\ g \in found
  BY <1>4, <1>6, <1>7, HeadIsHere
<1>9. /\ p = m - b + l + 1 /\ p \in Nat \ {0} /\ m \in Nat /\ b \in Nat /\ l \in Nat /\ b # 0 /\ (m - b) % BUF = 0
      /\ Len(t) \in Nat /\ b <= m /\ m <= Len(t) /\ t \in Seq(Unit)
      /\ \A q \in DOMAIN t : t[q].to \in Name => t[q].to \in found
  BY <1>4, <1>7, <1>8 DEF Here
<1>10. /\ \A k \in Nat : Place(k) = m - b + k + 1 /\ (InBlock(k) <=> k < b) /\ UnitAt(k) = t[Place(k)]
       /\ Head(stack).len = l
  BY <1>2, <1>4, <1>7, PlacesHere
<1>11. l < b /\ t[p].is = "start" /\ t[p].to = n /\ P = p
  <2>1. Place(l) = p
    BY <1>9, <1>10
  <2>2. InBlock(l) /\ UnitAt(l).is = "start" /\ Wanted = UnitAt(l)
    BY <1>3, <1>10 DEF InDirective, Directive, Wanted
  <2>3. QED
    BY <1>1, <1>9, <1>10, <2>1, <2>2
<1>12. l + 2 < b /\ p + 2 <= Len(t) /\ t[p + 1].is = "end" /\ t[p + 2].is = "char"
  BY <1>4, <1>7, <1>8, <1>11, DirectiveHere
<1>13. n \in found
  <2>1. p \in DOMAIN t
    <3>1. p \in 1 .. Len(t)
      BY <1>9, <1>12
    <3>2. QED
      BY <1>9, <3>1, LenProperties
  <2>2. QED
    BY <1>3, <1>9, <1>11, <2>1
<1>14. P \in Nat \ {0} /\ P + 1 <= files[1].pos
  <2>1. p + 1 <= m
    BY <1>9, <1>12
  <2>2. QED
    BY <1>7, <1>9, <1>11, <2>1
<1>15. PICK rs, qs : Places(ps, rs, qs, P)
  <2>1. Reached(ps)
    BY <1>2, <1>6, ExactReached
  <2>2. QED
    BY <1>2, <1>3, <1>4, <1>14, <2>1, IncludedReached
<1>16. Len(files') = Len(files) + 1 /\ Len(stack') = Len(files) + 1 /\ files' # <<>>
  <2>1. /\ Len(files') = Len(files) + 1 /\ Len(stack') = Len(stack) + 1
    BY <1>3 DEF Included
  <2>2. Len(stack) = Len(files)
    BY <1>6 DEF Exact
  <2>3. Len(files') # 0
    BY <1>4, <2>1
  <2>4. QED
    BY <2>1, <2>2, <2>3
<1>17. /\ qs[1] = 1 /\ qs[2] = P + 2 /\ qs \in Seq(Nat \ {0}) /\ Len(qs) = Len(files')
       /\ \A i \in 3 .. Len(files) + 1 : qs[i] = ps[i - 1]
  BY <1>4, <1>15, <1>16, ShiftedPlaces
<1>18. ASSUME NEW i \in 1 .. Len(files')
       PROVE  /\ stack'[i].fi = Len(files') - i + 1
              /\ qs[i] = NextOf(files'[i], stack'[i].at, stack'[i].len)
              /\ Onward(req.page, found, files'[i], stack'[i].at, stack'[i].len)
  <2>1. i = 1 \/ i = 2 \/ i \in 3 .. Len(files) + 1
    BY <1>4, <1>16
  <2>2. CASE i = 1
    <3>1. /\ files'[1].pos = 0 /\ files'[1].inbuf = 0 /\ files'[1].name = n
          /\ stack'[1].fi = Len(files) + 1 /\ stack'[1].at = "read"
      BY <1>3 DEF Included
    <3>2. PICK c, k : c = files'[1] /\ k = stack'[1].len
      OBVIOUS
    <3>3. c.pos = 0 /\ c.inbuf = 0 /\ c.name = n
      BY <3>1, <3>2
    <3>4. 1 = NextOf(c, "read", k)
      BY <3>3 DEF NextOf
    <3>5. c.pos % BUF = 0
      BY <3>3, SizesAssumption
    <3>6. Onward(req.page, found, c, "read", k)
      BY <1>13, <3>3, <3>4, <3>5, Zenon DEF Onward
    <3>7. stack'[1].fi = Len(files') - 1 + 1
      BY <1>4, <1>16, <3>1
    <3>8. QED
      BY <1>17, <2>2, <3>1, <3>2, <3>4, <3>6, <3>7
  <2>3. CASE i = 2
    <3>1. /\ files'[2].name = g /\ files'[2].pos = m /\ files'[2].inbuf = b
          /\ stack'[2].fi = Len(files) /\ stack'[2].at = "ssi"
          /\ m - b + stack'[2].len + 1 = P + 2 /\ stack' \in Seq(Activation)
      BY <1>2, <1>3, <1>7 DEF Included, Types
    <3>2. PICK c, k, r : c = files'[2] /\ k = stack'[2].len /\ r = P + 2
      OBVIOUS
    <3>3. k \in Nat
      <4>1. 2 \in 1 .. Len(stack')
        BY <1>4, <1>16
      <4>2. stack'[2] \in Activation
        BY <3>1, <4>1, ElementOfSeq
      <4>3. QED
        BY <3>2, <4>2 DEF Activation
    <3>4. c.name = g /\ c.pos = m /\ c.inbuf = b /\ m - b + k + 1 = r
      BY <3>1, <3>2
    <3>5. k = l + 2 /\ k < b /\ r = p + 2 /\ r - 1 = p + 1
      <4>1. /\ m \in Nat /\ b \in Nat /\ l \in Nat /\ k \in Nat /\ p \in Nat
            /\ p = m - b + l + 1 /\ m - b + k + 1 = r /\ r = p + 2 /\ l + 2 < b
        BY <1>9, <1>11, <1>12, <3>2, <3>3, <3>4
      <4>2. QED
        BY <4>1
    <3>6. r = NextOf(c, "ssi", k)
      BY <3>4 DEF NextOf
    <3>7. t[r].is = "char" /\ t[r - 1].is # "start"
      BY <1>12, <3>5
    <3>8. Onward(req.page, found, c, "ssi", k)
      BY <1>7, <1>8, <1>9, <3>4, <3>5, <3>6, <3>7 DEF Onward
    <3>9. stack'[2].fi = Len(files') - 2 + 1
      BY <1>4, <1>16, <3>1
    <3>10. QED
      BY <1>17, <2>3, <3>1, <3>2, <3>6, <3>8, <3>9
  <2>4. CASE i \in 3 .. Len(files) + 1
    <3>1. PICK j : j = i - 1
      OBVIOUS
    <3>2. j \in 1 .. Len(files) /\ Len(files) - j + 1 = Len(files') - i + 1 /\ i \in 3 .. Len(stack) + 1
      <4>1. Len(stack) = Len(files)
        BY <1>6 DEF Exact
      <4>2. QED
        BY <1>4, <1>16, <2>4, <3>1, <4>1
    <3>3. files'[i] = files[j] /\ stack'[i] = stack[j] /\ qs[i] = ps[j]
      BY <1>3, <1>17, <2>4, <3>1, <3>2 DEF Included
    <3>4. QED
      BY <1>6, <3>2, <3>3 DEF Exact
  <2>5. QED
    BY <2>1, <2>2, <2>3, <2>4
<1>19. PICK o, F, a : o = Outer(FALSE, Tail(ps)) /\ F = From(h, P + 2) /\ a = queued
  OBVIOUS
<1>20. Unread(FALSE, qs)' = text \o (F \o o) /\ text \in Seq(Sent) /\ F \in Seq(Sent) /\ o \in Seq(Sent)
  <2>1. UnreadThen(FALSE, n, P, ps, qs)
    BY <1>1, <1>2, <1>3, <1>15, IncludedUnread
  <2>2. QED
    BY <1>1, <1>19, <2>1, Zenon DEF UnreadThen
<1>21. Unread(FALSE, ps) = From(h, P) \o o
  <2>1. ps \in Seq(Nat \ {0}) /\ Len(ps) = Len(files)
    BY <1>6 DEF Exact
  <2>2. Unread(FALSE, ps) = From(h, ps[1]) \o o
    BY <1>1, <1>2, <1>4, <1>19, <2>1, UnreadHead
  <2>3. QED
    BY <1>7, <1>11, <2>2
<1>22. From(h, P) = text \o F
  <2>1. g = FileHead.name /\ t = TextIn(req.page, g)
    BY <1>4, <1>7
  <2>2. text = IF t[p].to \in Name THEN Inner(FALSE)[t[p].to] ELSE <<>>
    BY <1>1, <1>3, <1>11
  <2>3. p + 1 <= Len(t)
    BY <1>9, <1>12
  <2>4. Gone(p, h, text)
    BY <1>1, <1>2, <1>4, <1>9, <1>11, <1>12, <2>1, <2>2, <2>3, DirectiveGone
  <2>5. QED
    BY <1>11, <1>19, <2>4, Zenon DEF Gone
<1>23. (text \o F) \o o = text \o (F \o o)
  <2>1. ThreeAlike(text, F, o)
    BY <1>20, ThreeTexts
  <2>2. QED
    BY <2>1, Zenon DEF ThreeAlike
<1>24. queued' \o Unread(FALSE, qs)' = Expand(FALSE)'
  <2>1. queued \o Unread(FALSE, ps) = Expand(FALSE)
    BY <1>6 DEF Exact
  <2>2. Expand(FALSE)' = Expand(FALSE)
    BY <1>3, SameExpand
  <2>3. QED
    BY <1>3, <1>20, <1>21, <1>22, <1>23, <2>1, <2>2
<1>25. Exact(found, qs)'
  <2>1. req'.page = req.page
    BY <1>3
  <2>2. qs \in Seq(Nat \ {0}) /\ Len(qs) = Len(files') /\ Len(stack') = Len(files') /\ files' # <<>>
    BY <1>16, <1>17
  <2>3. QED
    BY <1>18, <1>24, <2>1, <2>2 DEF Exact
<1>26. state' = "CONTENT" /\ pc' = "readfile"
  BY <1>3, <1>4, <1>5
<1>27. QED
  BY <1>25, <1>26 DEF Said


LEMMA IncludeFaultsWhole ==
    ASSUME OrderInv, IInv', IncludeFaults, NEW found
    PROVE  Said(found)'
<1>1. state = "CONTENT"
  <2>1. IInv /\ InDirective
    BY DEF OrderInv, IncludeFaults
  <2>2. QED
    BY <2>1, InDirectiveIs DEF Working
<1>2. state' = state /\ pc' = "over"
  BY DEF IncludeFaults
<1>3. QED
  BY <1>1, <1>2 DEF Said

----------------------------------------------------------------------------
(* Sending, and the visits *)

\* Once the reply is being sent, nothing more is queued.
LEMMA SentWhole ==
    ASSUME req' = req, queued' = queued, Depth' = Depth, lost \subseteq lost', state' # "CONTENT",
           state' = "SENDDATA" => state = "SENDDATA", NEW found, Whole(found), Fine(found)'
    PROVE  Said(found)'
<1>1. Fine(found)
  BY DEF Fine, Closed
<1>2. state = "SENDDATA" => queued = Expand(FALSE)
  BY <1>1 DEF Whole, Said
<1>3. Expand(FALSE)' = Expand(FALSE)
  BY SameExpand
<1>4. QED
  BY <1>2, <1>3 DEF Said

LEMMA SendWhole ==
    ASSUME OrderInv, SendTextHeader \/ SendTxbuf \/ TextSent, NEW found, Whole(found), Fine(found)'
    PROVE  Said(found)'
<1>1. pc = "sockwrite" /\ req' = req /\ queued' = queued /\ files' = files /\ fileleft' = fileleft /\ lost \subseteq lost'
  BY DEF SendTextHeader, SendTxbuf, TextSent, NoRead, SendHeader
<1>2. state = "SENDDATA" /\ stack \in Seq(Activation)
  <2>1. IInv /\ pc \in {"sockwrite", "movebinary"}
    BY <1>1 DEF OrderInv
  <2>2. QED
    BY <2>1, Sending
<1>3. \/ state' = state
      \/ \E error \in BOOLEAN, st \in {"SENDDATA", "ENDING"} : Return(error, st)
  BY <1>2 DEF SendTextHeader, SendTxbuf, TextSent
<1>4. state' # "CONTENT"
  <2>1. ASSUME NEW error \in BOOLEAN, NEW st \in {"SENDDATA", "ENDING"}, Return(error, st)
        PROVE  state' # "CONTENT"
    <3>1. Returned(error, st)
      BY <1>2, <2>1, ReturnIs
    <3>2. QED
      BY <3>1 DEF Returned
  <2>2. QED
    BY <1>2, <1>3, <2>1
<1>5. Depth' = Depth
  BY <1>1 DEF Depth
<1>6. QED
  BY <1>1, <1>2, <1>4, <1>5, SentWhole

LEMMA MoveWhole ==
    ASSUME OrderInv, MoveHeader \/ MoveBlock, NEW found, Fine(found)'
    PROVE  FALSE
<1>1. req' = req /\ pc \in {"sockwrite", "movebinary"} /\ req.binary
  BY DEF MoveHeader, MoveBlock, NoRead, OrderInv, IInv, CallsOK
<1>2. QED
  BY <1>1 DEF Fine

\* A call that returns when the reply is already being sent.
LEMMA ReturnsWhole ==
    ASSUME OrderInv, IInv', IncludeReturns, state # "CONTENT", NEW found, Whole(found), Fine(found)'
    PROVE  Said(found)'
<1>1. /\ IInv /\ Types /\ pc = "readfile" /\ stack # <<>> /\ files # <<>>
      /\ stack \in Seq(Activation) /\ files \in Seq(OpenFile) /\ Len(files) \in Nat \ {0}
      /\ Head(stack) = stack[1] /\ stack[1] \in Activation /\ 1 \in 1 .. Len(stack)
  <2>1. /\ IInv /\ Types /\ pc = "readfile" /\ stack # <<>> /\ files # <<>>
        /\ stack \in Seq(Activation) /\ files \in Seq(OpenFile)
    BY DEF IncludeReturns, Reading, IInv, CallsOK, Types, OrderInv
  <2>2. QED
    BY <2>1, FirstOf
<1>2. stack[1].fi \in Nat /\ stack[1].fi # 0 /\ stack[1].fi <= Len(files) /\ stack[1].len \in Nat
  BY <1>1 DEF IInv, CallsOK, Activation
<1>3. PICK len, h : len = Head(stack).len /\ h = Len(files) - Head(stack).fi + 1
  OBVIOUS
<1>4. /\ IF h = 1 THEN Step("skipped", len) /\ UNCHANGED <<files, state, pc>>
         ELSE files' = [files EXCEPT ![h].nextbuf = len] /\ Return(FALSE, state)
      /\ UNCHANGED <<fileleft, queued, lost>> /\ req' = req
  BY <1>3 DEF IncludeReturns, history, NoSend
<1>5. CASE h = 1
  <2>1. files' = files /\ state' = state
    BY <1>4, <1>5
  <2>2. Depth' = Depth
    BY <1>4, <2>1 DEF Depth
  <2>3. QED
    BY <1>4, <2>1, <2>2, SentWhole
<1>6. CASE h # 1
  <2>1. files' = [files EXCEPT ![h].nextbuf = len] /\ Return(FALSE, state)
    BY <1>4, <1>6
  <2>2. h \in 1 .. Len(files) /\ len \in Nat
    BY <1>1, <1>2, <1>3
  <2>3. PICK g : g = [files[h] EXCEPT !.nextbuf = len]
    OBVIOUS
  <2>4. files[h] \in OpenFile
    BY <1>1, <2>2, ElementOfSeq
  <2>5. g \in OpenFile
    BY <2>2, <2>3, <2>4, Marked
  <2>6. files' = [files EXCEPT ![h] = g]
    BY <2>1, <2>3
  <2>7. Len(files') = Len(files)
    BY <1>1, <2>2, <2>5, <2>6, ExceptSeq
  <2>8. Depth' = Depth
    BY <1>4, <2>7 DEF Depth
  <2>9. Returned(FALSE, state)
    BY <1>1, <2>1, ReturnIs
  <2>10. state' # "CONTENT" /\ (state' = "SENDDATA" => state = "SENDDATA")
    BY <2>9 DEF Returned
  <2>11. QED
    BY <1>4, <2>8, <2>10, SentWhole
<1>7. QED
  BY <1>5, <1>6

\* The reply as it begins: nothing is queued, and the whole page is unread.
LEMMA PageUnread ==
    ASSUME Types, files = <<Newly("page")>>, NEW ps, ps = << 1 >>
    PROVE  Unread(FALSE, ps) = Expand(FALSE) /\ Expand(FALSE) \in Seq(Sent)
<1>1. PICK c : c = Newly("page")
  OBVIOUS
<1>2. c.name = "page"
  BY <1>1 DEF Newly
<1>3. /\ Len(files) = 1 /\ files[1] = c /\ files # <<>> /\ Tail(files) = <<>>
  <2>1. files = <<c>>
    BY <1>1
  <2>2. QED
    BY <2>1, EmptySeq
<1>4. Depth = fileleft + 1 /\ Depth \in Nat \ {0} /\ fileleft \in Nat
  BY <1>3 DEF Depth, Types
<1>5. ps \in Seq(Nat \ {0}) /\ Len(ps) = 1 /\ ps[1] = 1 /\ Tail(ps) = <<>>
  OBVIOUS
<1>6. PICK h : h = HeadPieces(FALSE)
  OBVIOUS
<1>7. /\ h \in Seq(Seq(Sent)) /\ From(h, 1) \in Seq(Sent)
      /\ Unread(FALSE, ps) = From(h, 1) \o Outer(FALSE, <<>>)
  <2>1. /\ h \in Seq(Seq(Sent)) /\ From(h, ps[1]) \in Seq(Sent)
        /\ Unread(FALSE, ps) = From(h, ps[1]) \o Outer(FALSE, Tail(ps))
    BY <1>3, <1>5, <1>6, UnreadHead
  <2>2. QED
    BY <1>5, <2>1
<1>8. PICK E, page, d, k : E = Expanded(FALSE, req.page, Depth) /\ page = req.page /\ d = Depth /\ k = fileleft + 1
  OBVIOUS
<1>9. Outer(FALSE, <<>>) = <<>>
  <2>1. RestOf(FALSE, page, E, k, <<>>, <<>>) = <<>>
    BY DEF RestOf
  <2>2. Outer(FALSE, <<>>) = FlattenSeq(RestOf(FALSE, page, E, k, <<>>, <<>>))
    BY <1>3, <1>8, Zenon DEF Outer
  <2>3. QED
    BY <2>1, <2>2, FlatEmpty
<1>10. From(h, 1) = Expand(FALSE)
  <2>1. Expand(FALSE) = E[d]["page"]
    BY <1>8, ExpandIs
  <2>2. page \in Seq(Unit)
    BY <1>8, LevelsNow
  <2>3. E[d]["page"] = FlattenSeq(Pieces(FALSE, page, "page", E[d - 1]))
    <3>1. E = Expanded(FALSE, page, d) /\ d \in Nat \ {0}
      BY <1>4, <1>8
    <3>2. FALSE \in BOOLEAN
      OBVIOUS
    <3>3. QED
      BY <2>2, <3>1, <3>2, OfThePage, Zenon
  <2>4. fileleft = d - 1
    BY <1>4, <1>8
  <2>5. h = Pieces(FALSE, page, "page", E[d - 1])
    BY <1>2, <1>3, <1>6, <1>8, <2>4, Zenon DEF HeadPieces
  <2>6. FlattenSeq(h) = From(h, 1)
    <3>1. 1 \in Nat \ {0} /\ h \in Seq(Seq(Sent))
      BY <1>7
    <3>2. QED
      BY <3>1, FromIs
  <2>7. QED
    BY <2>1, <2>3, <2>5, <2>6
<1>11. QED
  BY <1>7, <1>9, <1>10, ConcatEmptySeq

Starts(page, found, fs, s, ps) ==
    /\ ps \in Seq(Nat \ {0}) /\ Len(ps) = Len(fs) /\ Len(s) = Len(fs) /\ fs # <<>>
    /\ \A i \in 1 .. Len(fs) :
          /\ s[i].fi = Len(fs) - i + 1
          /\ ps[i] = NextOf(fs[i], s[i].at, s[i].len)
          /\ Onward(page, found, fs[i], s[i].at, s[i].len)

\* The first call begins with the first place of the page.
LEMMA FirstCall ==
    ASSUME NEW page, NEW found, "page" \in found, NEW fs, fs = <<Newly("page")>>, NEW s, s = Call(<<>>, 1),
           NEW ps, ps = << 1 >>
    PROVE  Starts(page, found, fs, s, ps)
<1>1. PICK c, a : c = Newly("page") /\ a = [fi |-> 1, at |-> "read", len |-> 0]
  OBVIOUS
<1>2. c.name = "page" /\ c.pos = 0 /\ c.inbuf = 0
  BY <1>1 DEF Newly
<1>3. a.fi = 1 /\ a.at = "read" /\ a.len = 0
  BY <1>1
<1>4. s = <<a>>
  <2>1. s = <<a>> \o <<>>
    BY <1>1 DEF Call
  <2>2. QED
    BY <2>1, ConcatEmptySeq
<1>5. fs = <<c>>
  BY <1>1
<1>6. Len(fs) = 1 /\ fs[1] = c /\ Len(s) = 1 /\ s[1] = a /\ Len(ps) = 1 /\ ps[1] = 1 /\ ps \in Seq(Nat \ {0}) /\ fs # <<>>
  BY <1>4, <1>5
<1>7. 1 = NextOf(c, "read", 0)
  BY <1>2 DEF NextOf
<1>8. c.pos % BUF = 0
  BY <1>2, SizesAssumption
<1>9. Onward(page, found, c, "read", 0)
  BY <1>2, <1>7, <1>8, Zenon DEF Onward
<1>10. \A i \in 1 .. Len(fs) : i = 1
  BY <1>6
<1>11. s[1].fi = Len(fs) - 1 + 1
  BY <1>3, <1>6
<1>12. QED
  BY <1>3, <1>6, <1>7, <1>9, <1>10, <1>11 DEF Starts

LEMMA ExactStays ==
    ASSUME req' = req, files' = files, stack' = stack, queued' = queued, fileleft' = fileleft,
           NEW found, NEW ps, Exact(found, ps)
    PROVE  Exact(found, ps)'
<1>1. Depth' = Depth
  BY DEF Depth
<1>2. Expand(FALSE)' = Expand(FALSE) /\ Unread(FALSE, ps)' = Unread(FALSE, ps)
  BY <1>1, SameExpand, SameUnread
<1>3. queued' \o Unread(FALSE, ps)' = Expand(FALSE)'
  BY <1>2 DEF Exact
<1>4. QED
  BY <1>3 DEF Exact

LEMMA QuietWhole ==
    ASSUME OrderInv, Poll \/ VisitSendData \/ Drain \/ Others \/ UNCHANGED vars,
           NEW found, Whole(found), Fine(found)'
    PROVE  Said(found)'
<1>1. /\ UNCHANGED <<req, state, files, queued, fileleft, lost, stack>>
      /\ state = "CONTENT" => pc' = pc \/ pc = "poll"
  BY DEF Poll, VisitSendData, Drain, Others, Still, reply, history, vars
<1>2. Fine(found)
  BY <1>1 DEF Fine, Closed
<1>3. Said(found)
  BY <1>2 DEF Whole
<1>4. CASE state = "CONTENT"
  <2>1. (pc = "over" \/ Idle \/ (pc = "readfile" /\ \E ps : Exact(found, ps))) /\ pc' = pc
    BY <1>1, <1>3, <1>4 DEF Said, Idle
  <2>2. CASE pc = "over"
    BY <1>1, <1>4, <2>1, <2>2 DEF Said
  <2>3. CASE Idle
    <3>1. Idle'
      BY <1>1, <2>1, <2>3 DEF Idle
    <3>2. QED
      BY <1>1, <1>4, <3>1 DEF Said
  <2>4. CASE pc = "readfile" /\ \E ps : Exact(found, ps)
    <3>1. \E ps : Exact(found, ps)'
      BY <1>1, <2>4, ExactStays
    <3>2. QED
      BY <1>1, <1>4, <2>1, <2>4, <3>1 DEF Said
  <2>5. QED
    BY <2>1, <2>2, <2>3, <2>4
<1>5. CASE state # "CONTENT"
  <2>1. Depth' = Depth
    BY <1>1 DEF Depth
  <2>2. QED
    BY <1>1, <1>5, <2>1, SentWhole
<1>6. QED
  BY <1>4, <1>5

LEMMA VisitContentWhole ==
    ASSUME OrderInv, VisitContent, NEW found, Whole(found), Fine(found)'
    PROVE  Said(found)'
<1>1. /\ UNCHANGED <<req, state, files, queued, fileleft, lost>> /\ state = "CONTENT" /\ pc = "visit" /\ pc' = "readfile"
      /\ stack' = Call(<<>>, Len(files))
  BY DEF VisitContent, reply, history
<1>2. Fine(found)
  BY <1>1 DEF Fine, Closed
<1>3. Idle
  BY <1>1, <1>2 DEF Whole, Said
<1>4. files = <<Newly("page")>> /\ queued = <<>> /\ Len(files) = 1
  BY <1>3 DEF Idle
<1>5. PICK ps, s, fs : ps = <<1>> /\ s = stack' /\ fs = files
  OBVIOUS
<1>6. Starts(req.page, found, fs, s, ps)
  <2>1. "page" \in found
    BY <1>2 DEF Fine, Closed
  <2>2. s = Call(<<>>, 1) /\ fs = <<Newly("page")>>
    BY <1>1, <1>4, <1>5
  <2>3. QED
    BY <1>5, <2>1, <2>2, FirstCall
<1>7. Unread(FALSE, ps) = Expand(FALSE) /\ Expand(FALSE) \in Seq(Sent)
  BY <1>4, <1>5, PageUnread DEF OrderInv, IInv
<1>8. queued' \o Unread(FALSE, ps)' = Expand(FALSE)'
  <2>1. Depth' = Depth
    BY <1>1 DEF Depth
  <2>2. Expand(FALSE)' = Expand(FALSE) /\ Unread(FALSE, ps)' = Unread(FALSE, ps)
    BY <1>1, <2>1, SameExpand, SameUnread
  <2>3. queued' = <<>>
    BY <1>1, <1>4
  <2>4. QED
    BY <1>7, <2>2, <2>3, ConcatEmptySeq
<1>9. Exact(found, ps)'
  BY <1>1, <1>5, <1>6, <1>8 DEF Exact, Starts
<1>10. QED
  BY <1>1, <1>9 DEF Said

----------------------------------------------------------------------------

LEMMA StartsWhole == Init => WholeInv
<1>1. SUFFICES ASSUME Init
               PROVE  WholeInv
  OBVIOUS
<1>2. OrderInv /\ Types
  BY <1>1, StartsOrder DEF OrderInv, IInv
<1>3. /\ state = "CONTENT" /\ files = <<Newly("page")>> /\ queued = <<>>
      /\ \/ stack = Call(<<>>, 1) /\ pc = "readfile"
         \/ stack = <<>> /\ pc = "visit"
  BY <1>1 DEF Init
<1>4. ASSUME NEW found, Fine(found)
      PROVE  Said(found)
  <2>1. CASE stack = <<>> /\ pc = "visit"
    BY <1>3, <2>1 DEF Said, Idle
  <2>2. CASE stack = Call(<<>>, 1) /\ pc = "readfile"
    <3>1. PICK ps, s, fs : ps = <<1>> /\ s = stack /\ fs = files
      OBVIOUS
    <3>2. "page" \in found
      BY <1>4 DEF Fine, Closed
    <3>3. Starts(req.page, found, fs, s, ps)
      BY <1>3, <2>2, <3>1, <3>2, FirstCall
    <3>4. Unread(FALSE, ps) = Expand(FALSE) /\ Expand(FALSE) \in Seq(Sent)
      BY <1>2, <1>3, <3>1, PageUnread
    <3>5. queued \o Unread(FALSE, ps) = Expand(FALSE)
      BY <1>3, <3>4, ConcatEmptySeq
    <3>6. Exact(found, ps)
      BY <3>1, <3>3, <3>5 DEF Exact, Starts
    <3>7. QED
      BY <1>3, <2>2, <3>6 DEF Said
  <2>3. QED
    BY <1>3, <2>1, <2>2
<1>5. QED
  BY <1>2, <1>4 DEF WholeInv, Whole

LEMMA NextWhole == WholeInv /\ [Next]_vars => WholeInv'
<1>1. SUFFICES ASSUME WholeInv, [Next]_vars
               PROVE  WholeInv'
  OBVIOUS
<1>2. OrderInv /\ OrderInv' /\ IInv'
  BY <1>1, NextOrder DEF WholeInv, OrderInv
<1>3. ASSUME NEW found, Fine(found)'
      PROVE  Said(found)'
  <2>1. Whole(found)
    BY <1>1 DEF WholeInv
  <2>2. CASE Read
    <3>1. CASE IncludeReturns
      BY <1>2, <1>3, <2>1, <3>1, IncludeReturnsWhole, ReturnsWhole
    <3>2. CASE ReadMore \/ CopyText \/ AfterDirective \/ BlockDone
      BY <1>2, <1>3, <2>1, <3>2, ReadMoreWhole, CopyTextWhole, AfterDirectiveWhole, BlockDoneWhole
    <3>3. QED
      BY <2>2, <3>1, <3>2 DEF Read
  <2>3. CASE Include
    BY <1>2, <1>3, <2>1, <2>3, ExecWhole, IncludeFailsWhole, IncludeFileWhole, IncludeRoutineWhole, IncludeFaultsWhole DEF Include
  <2>4. CASE Write
    BY <1>2, <1>3, <2>1, <2>4, SendWhole, MoveWhole DEF Write
  <2>5. CASE VisitContent
    BY <1>2, <1>3, <2>1, <2>5, VisitContentWhole
  <2>6. CASE Poll \/ VisitSendData \/ Drain \/ Others \/ UNCHANGED vars
    BY <1>2, <1>3, <2>1, <2>6, QuietWhole
  <2>7. QED
    BY <1>1, <2>2, <2>3, <2>4, <2>5, <2>6 DEF Next, Server
<1>4. QED
  BY <1>2, <1>3 DEF WholeInv, Whole

LEMMA WholeFollows == WholeInv => PageExpanded
<1>1. SUFFICES ASSUME WholeInv, state = "SENDDATA", ~req.binary, Regular, lost \subseteq {"send", "form"}
               PROVE  queued = Expand(FALSE)
  BY DEF PageExpanded
<1>2. PICK found : Closed(req.page, found)
  BY <1>1, RegularIs
<1>3. Fine(found)
  BY <1>1, <1>2 DEF Fine
<1>4. QED
  BY <1>1, <1>3 DEF WholeInv, Whole, Said

\* "When the page is displayed, the include tag is replaced" (progman.html): for every
\* page and files whose directives lie in one block with a character behind them, for
\* every buffer size and any depth of includes the tables had slots for, what is queued
\* when the reply begins is the text with its includes in place.
THEOREM PageWhole == Spec => []PageExpanded
<1>1. Spec => []WholeInv
  BY StartsWhole, NextWhole, PTL DEF Spec
<1>2. QED
  BY <1>1, WholeFollows, PTL

=============================================================================
