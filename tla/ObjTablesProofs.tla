---------------------------- MODULE ObjTablesProofs ----------------------------
(***************************************************************************)
(* The object tables for every size of the tables: the links of each list  *)
(* are a path of slots in use, and no call breaks one.                     *)
(***************************************************************************)
EXTENDS ObjTables, SequenceLemmas, FiniteSetTheorems

----------------------------------------------------------------------------
(* Lists *)

\* The links from head visit the slots of q, once each and in this order.
IsPath(head, rec, q, Slots) ==
    /\ q \in Seq(Slots)
    /\ \A i, j \in 1 .. Len(q) : q[i] = q[j] => i = j
    /\ head = IF Len(q) = 0 THEN NULL ELSE q[1]
    /\ \A i \in 1 .. Len(q) : rec[q[i]].next = IF i = Len(q) THEN NULL ELSE q[i + 1]

LEMMA PathLength ==
    ASSUME NEW Slots, IsFiniteSet(Slots), NEW q \in Seq(Slots),
           \A i, j \in 1 .. Len(q) : q[i] = q[j] => i = j
    PROVE  Len(q) <= Cardinality(Slots)
<1>1. q \in Injection(1 .. Len(q), Slots)
  BY DEF Injection, IsInjective
<1>2. Cardinality(1 .. Len(q)) <= Cardinality(Slots)
  BY <1>1, FS_Injection
<1>3. Len(q) \in Nat /\ Cardinality(1 .. Len(q)) = Len(q)
  BY FS_Interval
<1>4. QED
  BY <1>2, <1>3

\* The walk of ListOf meets the slots of the path.
LEMMA ListOfPath ==
    ASSUME NEW Slots, IsFiniteSet(Slots), NULL \notin Slots, NEW head, NEW rec, NEW q,
           IsPath(head, rec, q, Slots)
    PROVE  ListOf(head, rec, Slots) = q
<1> DEFINE n == Cardinality(Slots)
           after(p) == IF p = NULL THEN NULL ELSE rec[p].next
           Next1(f) == [i \in 0 .. n |-> IF i = 0 THEN head ELSE after(f[i - 1])]
           Walk(f) == [j \in 1 .. Cardinality({i \in 0 .. n : f[i] # NULL}) |-> f[j - 1]]
           g == [i \in 0 .. n |-> IF i < Len(q) THEN q[i + 1] ELSE NULL]
<1>1. n \in Nat /\ Len(q) \in Nat /\ Len(q) <= n
  BY FS_CardinalityType, PathLength DEF IsPath
<1>2. \A i \in 1 .. Len(q) : q[i] # NULL
  BY DEF IsPath
<1>3. ListOf(head, rec, Slots) = Walk(CHOOSE f : f = Next1(f))
  BY Zenon DEF ListOf
<1> HIDE DEF n
<1>4. g = Next1(g)
  <2>1. ASSUME NEW i \in 0 .. n
        PROVE  g[i] = IF i = 0 THEN head ELSE after(g[i - 1])
    <3>1. CASE i = 0
      BY <1>1, <3>1 DEF IsPath
    <3>2. CASE i # 0
      <4>1. i - 1 \in 0 .. n /\ (i - 1) + 1 = i
        BY <3>2, <1>1
      <4>2. g[i - 1] = IF i - 1 < Len(q) THEN q[i] ELSE NULL
        BY <4>1
      <4>3. CASE i - 1 < Len(q)
        <5>1. i \in 1 .. Len(q)
          BY <4>3, <1>1, <3>2
        <5>2. after(g[i - 1]) = rec[q[i]].next
          BY <4>2, <4>3, <1>2, <5>1
        <5>3. rec[q[i]].next = IF i = Len(q) THEN NULL ELSE q[i + 1]
          BY <5>1 DEF IsPath
        <5>4. QED
          BY <5>1, <5>2, <5>3, <3>2, <1>1
      <4>4. CASE ~(i - 1 < Len(q))
        BY <4>2, <4>4, <3>2, <1>1
      <4>5. QED
        BY <4>3, <4>4
    <3>3. QED
      BY <3>1, <3>2
  <2>2. QED
    BY <2>1
<1>5. ASSUME NEW f, f = Next1(f)
      PROVE  f = g
  <2> DEFINE T == {i \in 0 .. n : f[i] # g[i]}
  <2>1. CASE T = {}
    BY <1>4, <1>5, <2>1
  <2>2. CASE T # {}
    <3>0. T \subseteq Nat
      BY <1>1
    <3>1. PICK m \in T : \A i \in T : m <= i
      BY <2>2, <3>0, LeastNat, Zenon
    <3>2. f[m] = (IF m = 0 THEN head ELSE after(f[m - 1])) /\ m \in 0 .. n
      BY <1>5
    <3>3. g[m] = (IF m = 0 THEN head ELSE after(g[m - 1]))
      BY <1>4
    <3>4. m # 0 => f[m - 1] = g[m - 1]
      <4>1. m # 0 => m - 1 \in 0 .. n /\ ~ (m <= m - 1)
        BY <3>2, <1>1
      <4>2. QED
        BY <4>1, <3>1
    <3>5. f[m] # g[m]
      OBVIOUS
    <3>6. QED
      BY <3>2, <3>3, <3>4, <3>5, Zenon
  <2>3. QED
    BY <2>1, <2>2
<1>6. (CHOOSE f : f = Next1(f)) = g
  <2> HIDE DEF g, Next1
  <2>1. QED
    BY <1>4, <1>5
<1>7. ListOf(head, rec, Slots) = Walk(g)
  <2> HIDE DEF g, Walk, Next1
  <2>1. QED
    BY <1>3, <1>6, Zenon
<1>8. {i \in 0 .. n : g[i] # NULL} = 0 .. (Len(q) - 1)
  <2>1. \A i \in 0 .. n : g[i] # NULL <=> i < Len(q)
    BY <1>1, <1>2
  <2>2. QED
    BY <1>1, <2>1
<1>9. Cardinality(0 .. (Len(q) - 1)) = Len(q)
  <2>1. \A k \in Nat : k - 1 \in Int /\ (k - 1) - 0 + 1 = k /\ (0 > k - 1 <=> k = 0)
    OBVIOUS
  <2>2. Cardinality(0 .. (Len(q) - 1)) = IF 0 > Len(q) - 1 THEN 0 ELSE (Len(q) - 1) - 0 + 1
    <3>1. 0 \in Int /\ Len(q) - 1 \in Int
      BY <1>1, <2>1
    <3>2. QED
      BY <3>1, FS_Interval, Zenon
  <2>3. QED
    BY <1>1, <2>1, <2>2
<1>10. ListOf(head, rec, Slots) = [j \in 1 .. Len(q) |-> g[j - 1]]
  BY <1>7, <1>8, <1>9, Zenon
<1>11. \A j \in 1 .. Len(q) : g[j - 1] = q[j]
  BY <1>1
<1>12. q = [j \in 1 .. Len(q) |-> q[j]]
  BY DEF IsPath
<1>13. QED
  BY <1>10, <1>11, <1>12

LEMMA PathTypes ==
    ASSUME NEW Slots, NEW head, NEW rec, NEW q, IsPath(head, rec, q, Slots)
    PROVE  /\ q \in Seq(Slots) /\ Len(q) \in Nat /\ DOMAIN q = 1 .. Len(q)
           /\ \A i \in 1 .. Len(q) : q[i] \in Slots /\ q[i] \in Elements(q)
           /\ Elements(q) = {q[i] : i \in 1 .. Len(q)} /\ Elements(q) \subseteq Slots
           /\ \A p \in Elements(q) : \E i \in 1 .. Len(q) : q[i] = p
BY DEF IsPath, Elements

\* A path whose links are left alone stays one.
LEMMA PathFrame ==
    ASSUME NEW Slots, NEW head, NEW rec, NEW q, IsPath(head, rec, q, Slots),
           NEW after, \A p \in Elements(q) : after[p].next = rec[p].next
    PROVE  IsPath(head, after, q, Slots)
BY PathTypes DEF IsPath

\* Slot p in front of the path.
Pushed(p, q) == [j \in 1 .. Len(q) + 1 |-> IF j = 1 THEN p ELSE q[j - 1]]

LEMMA PathPush ==
    ASSUME NEW Slots, NEW head, NEW rec, NEW q, IsPath(head, rec, q, Slots),
           NEW p \in Slots, p \notin Elements(q), NEW after, after[p].next = head,
           \A t \in Elements(q) : after[t].next = rec[t].next,
           NULL \notin Slots
    PROVE  /\ IsPath(p, after, Pushed(p, q), Slots)
           /\ Elements(Pushed(p, q)) = Elements(q) \cup {p}
<1> DEFINE r == Pushed(p, q)
<1>1. /\ q \in Seq(Slots) /\ Len(q) \in Nat
      /\ \A i \in 1 .. Len(q) : q[i] \in Slots /\ q[i] \in Elements(q)
      /\ Elements(q) = {q[i] : i \in 1 .. Len(q)}
  BY PathTypes
<1>2. r \in Seq(Slots) /\ Len(r) = Len(q) + 1 /\ DOMAIN r = 1 .. Len(r)
  <2>1. \A j \in 1 .. Len(q) + 1 : (IF j = 1 THEN p ELSE q[j - 1]) \in Slots
    BY <1>1
  <2>2. QED
    BY <1>1, <2>1 DEF Pushed
<1>3. r[1] = p /\ \A j \in 1 .. Len(q) : r[j + 1] = q[j] /\ j + 1 \in 1 .. Len(r)
  BY <1>1, <1>2 DEF Pushed
<1>4. \A i \in 1 .. Len(r) : i # 1 => i - 1 \in 1 .. Len(q) /\ r[i] = q[i - 1]
  BY <1>1, <1>2 DEF Pushed
<1> HIDE DEF r
<1>5. \A i, j \in 1 .. Len(r) : r[i] = r[j] => i = j
  <2>1. ASSUME NEW i \in 1 .. Len(r), NEW j \in 1 .. Len(r), r[i] = r[j], i # 1, j # 1
        PROVE  i = j
    <3>0. /\ i - 1 \in 1 .. Len(q) /\ j - 1 \in 1 .. Len(q) /\ q[i - 1] = q[j - 1]
          /\ \A k, l \in 1 .. Len(q) : q[k] = q[l] => k = l
      BY <1>4, <2>1, Zenon DEF IsPath
    <3>1. i - 1 = j - 1
      BY <3>0, Zenon
    <3>2. QED
      BY <3>1, <1>1, <1>2
  <2>2. \A i \in 1 .. Len(r) : i # 1 => r[i] # p
    BY <1>1, <1>4
  <2>3. QED
    BY <2>1, <2>2, <1>3
<1>6. ASSUME NEW i \in 1 .. Len(r)
      PROVE  after[r[i]].next = IF i = Len(r) THEN NULL ELSE r[i + 1]
  <2>1. CASE i = 1
    <3>1. Len(q) = 0 => head = NULL /\ i = Len(r)
      BY <1>2, <2>1 DEF IsPath
    <3>2. Len(q) # 0 => head = q[1] /\ i # Len(r) /\ r[i + 1] = q[1]
      BY <1>1, <1>2, <1>3, <2>1 DEF IsPath
    <3>3. after[r[i]].next = head
      BY <1>3, <2>1
    <3>4. QED
      BY <3>1, <3>2, <3>3
  <2>2. CASE i # 1
    <3>1. i - 1 \in 1 .. Len(q) /\ r[i] = q[i - 1]
      BY <1>4, <2>2
    <3>2. after[q[i - 1]].next = rec[q[i - 1]].next
      BY <1>1, <3>1
    <3>3. rec[q[i - 1]].next = IF i - 1 = Len(q) THEN NULL ELSE q[(i - 1) + 1]
      BY <3>1 DEF IsPath
    <3>4. i - 1 # Len(q) => i \in 1 .. Len(q) /\ (i - 1) + 1 = i /\ r[i + 1] = q[i] /\ i # Len(r)
      BY <3>1, <1>1, <1>2, <1>3
    <3>5. i - 1 = Len(q) => i = Len(r)
      BY <3>1, <1>1, <1>2
    <3>6. QED
      BY <3>1, <3>2, <3>3, <3>4, <3>5
  <2>3. QED
    BY <2>1, <2>2
<1>7. IsPath(p, after, r, Slots)
  <2>1. Len(r) # 0
    BY <1>1, <1>2
  <2>2. QED
    BY <1>2, <1>3, <1>5, <1>6, <2>1 DEF IsPath
<1>8. Elements(r) = Elements(q) \cup {p}
  <2>1. \A x \in Elements(r) : x \in Elements(q) \cup {p}
    BY <1>1, <1>2, <1>3, <1>4 DEF Elements
  <2>2. \A x \in Elements(q) \cup {p} : x \in Elements(r)
    <3>1. 1 \in 1 .. Len(r)
      BY <1>1, <1>2
    <3>2. p \in Elements(r)
      BY <1>2, <1>3, <3>1, Zenon DEF Elements
    <3>3. ASSUME NEW x \in Elements(q)
          PROVE  x \in Elements(r)
      <4>1. PICK k \in 1 .. Len(q) : q[k] = x
        BY <1>1
      <4>2. r[k + 1] = x /\ k + 1 \in DOMAIN r
        BY <1>2, <1>3, <4>1
      <4>3. QED
        BY <4>2, Zenon DEF Elements
    <3>4. QED
      BY <3>2, <3>3
  <2>3. QED
    BY <2>1, <2>2
<1>9. QED
  BY <1>7, <1>8 DEF r

\* Slot p behind the last one.
LEMMA PathAppend ==
    ASSUME NEW Slots, NEW head, NEW rec, NEW q, IsPath(head, rec, q, Slots), Len(q) # 0,
           NEW p \in Slots, p \notin Elements(q), NEW after, after[p].next = NULL,
           \A t \in Elements(q) : after[t].next = IF t = q[Len(q)] THEN p ELSE rec[t].next
    PROVE  /\ IsPath(head, after, Append(q, p), Slots)
           /\ Elements(Append(q, p)) = Elements(q) \cup {p}
<1> DEFINE r == Append(q, p)
<1>1. /\ q \in Seq(Slots) /\ Len(q) \in Nat
      /\ \A i \in 1 .. Len(q) : q[i] \in Slots /\ q[i] \in Elements(q)
      /\ Elements(q) = {q[i] : i \in 1 .. Len(q)}
  BY PathTypes
<1>2. /\ r \in Seq(Slots) /\ Len(r) = Len(q) + 1 /\ DOMAIN r = 1 .. Len(r) /\ r[Len(r)] = p
      /\ \A i \in 1 .. Len(q) : r[i] = q[i] /\ i \in 1 .. Len(r) /\ i # Len(r)
      /\ \A i \in 1 .. Len(r) : i # Len(r) => i \in 1 .. Len(q)
  BY <1>1
<1> HIDE DEF r
<1>3. /\ \A i, j \in 1 .. Len(q) : q[i] = q[j] => i = j
      /\ head = q[1]
      /\ \A i \in 1 .. Len(q) : rec[q[i]].next = IF i = Len(q) THEN NULL ELSE q[i + 1]
  BY Zenon DEF IsPath
<1>4. \A i, j \in 1 .. Len(r) : r[i] = r[j] => i = j
  <2>1. \A i \in 1 .. Len(r) : i # Len(r) => r[i] = q[i] /\ r[i] # p
    BY <1>1, <1>2
  <2>2. ASSUME NEW i \in 1 .. Len(r), NEW j \in 1 .. Len(r), r[i] = r[j]
        PROVE  i = j
    <3>1. CASE i # Len(r) /\ j # Len(r)
      BY <1>2, <1>3, <2>1, <2>2, <3>1, ZenonT(60)
    <3>2. CASE i = Len(r) \/ j = Len(r)
      BY <1>2, <2>1, <2>2, <3>2, Zenon
    <3>3. QED
      BY <3>1, <3>2
  <2>3. QED
    BY <2>2
<1>5. ASSUME NEW i \in 1 .. Len(r)
      PROVE  after[r[i]].next = IF i = Len(r) THEN NULL ELSE r[i + 1]
  <2>1. CASE i = Len(r)
    BY <1>2, <2>1
  <2>2. CASE i = Len(q)
    <3>1. i \in 1 .. Len(q) /\ i # Len(r) /\ i + 1 = Len(r)
      BY <1>1, <1>2, <2>2
    <3>2. QED
      BY <1>1, <1>2, <2>2, <3>1
  <2>3. CASE i # Len(r) /\ i # Len(q)
    <3>1. i \in 1 .. Len(q) /\ i + 1 \in 1 .. Len(q) /\ Len(q) \in 1 .. Len(q)
      BY <1>1, <1>2, <2>3
    <3>2. q[i] # q[Len(q)]
      BY <1>3, <2>3, <3>1
    <3>3. after[q[i]].next = rec[q[i]].next
      BY <1>1, <3>1, <3>2
    <3>4. QED
      BY <1>2, <1>3, <2>3, <3>1, <3>3
  <2>4. QED
    BY <2>1, <2>2, <2>3
<1>6. IsPath(head, after, r, Slots)
  <2>1. Len(r) # 0 /\ head = r[1]
    <3>1. 1 \in 1 .. Len(q) /\ Len(q) + 1 # 0
      BY <1>1
    <3>2. QED
      BY <1>2, <1>3, <3>1
  <2>2. QED
    BY <1>2, <1>4, <1>5, <2>1, Zenon DEF IsPath
<1>7. Elements(r) = Elements(q) \cup {p}
  <2>1. ASSUME NEW x \in Elements(r)
        PROVE  x \in Elements(q) \cup {p}
    BY <1>1, <1>2 DEF Elements
  <2>2. Len(r) \in DOMAIN r
    BY <1>1, <1>2
  <2>3. p \in Elements(r)
    BY <1>2, <2>2, Zenon DEF Elements
  <2>4. ASSUME NEW x \in Elements(q)
        PROVE  x \in Elements(r)
    <3>1. PICK k \in 1 .. Len(q) : q[k] = x
      BY <1>1
    <3>2. QED
      BY <1>2, <3>1, Zenon DEF Elements
  <2>5. QED
    BY <2>1, <2>3, <2>4
<1>8. QED
  BY <1>6, <1>7 DEF r

\* The path without its k-th slot.
Skipping(q, k) == [j \in 1 .. Len(q) - 1 |-> IF j < k THEN q[j] ELSE q[j + 1]]

\* The unlinking walk takes slot p out, wherever it is.
LEMMA PathUnlink ==
    ASSUME NEW Slots, NULL \notin Slots,
           NEW head, NEW rec, NEW q, IsPath(head, rec, q, Slots),
           NEW k \in 1 .. Len(q), NEW after,
           \A t \in Elements(q) \ {q[k]} :
               after[t].next = IF rec[t].next = q[k] THEN rec[q[k]].next ELSE rec[t].next
    PROVE  /\ IsPath(HeadWithout(head, rec, q[k]), after, Skipping(q, k), Slots)
           /\ Elements(Skipping(q, k)) = Elements(q) \ {q[k]}
<1> DEFINE r == Skipping(q, k)
<1>1. /\ q \in Seq(Slots) /\ Len(q) \in Nat /\ k \in Nat /\ 1 <= k /\ k <= Len(q)
      /\ \A i \in 1 .. Len(q) : q[i] \in Slots /\ q[i] \in Elements(q) /\ q[i] # NULL
      /\ Elements(q) = {q[i] : i \in 1 .. Len(q)}
  BY PathTypes
<1>2. \A i, j \in 1 .. Len(q) : q[i] = q[j] => i = j
  BY Zenon DEF IsPath
<1>3. \A i \in 1 .. Len(q) : rec[q[i]].next = IF i = Len(q) THEN NULL ELSE q[i + 1]
  BY Zenon DEF IsPath
<1>4. r \in Seq(Slots) /\ Len(r) = Len(q) - 1 /\ DOMAIN r = 1 .. Len(r)
  <2>1. \A j \in 1 .. Len(q) - 1 : (IF j < k THEN q[j] ELSE q[j + 1]) \in Slots
    BY <1>1
  <2>2. Len(q) - 1 \in Nat
    BY <1>1
  <2>3. QED
    BY <2>1, <2>2 DEF Skipping
<1>5. \A j \in 1 .. Len(r) : r[j] = IF j < k THEN q[j] ELSE q[j + 1]
  BY <1>4 DEF Skipping
<1> DEFINE at(j) == IF j < k THEN j ELSE j + 1
<1>6. /\ \A j \in 1 .. Len(r) : at(j) \in 1 .. Len(q) /\ r[j] = q[at(j)] /\ at(j) # k
      /\ \A i, j \in 1 .. Len(r) : at(i) = at(j) => i = j
  <2> HIDE DEF r
  <2>1. \A j \in 1 .. Len(r) : r[j] = q[at(j)]
    BY <1>5
  <2>2. \A j \in 1 .. Len(r) : at(j) \in 1 .. Len(q) /\ at(j) # k
    BY <1>1, <1>4
  <2>3. \A i, j \in 1 .. Len(r) : at(i) = at(j) => i = j
    BY <1>1, <1>4
  <2>4. QED
    BY <2>1, <2>2, <2>3
<1>7. ASSUME NEW i \in 1 .. Len(q), i # k
      PROVE  \E j \in 1 .. Len(r) : r[j] = q[i]
  <2>1. CASE i < k
    <3>1. i \in 1 .. Len(r)
      BY <1>1, <1>4, <2>1
    <3>2. QED
      BY <1>5, <2>1, <3>1
  <2>2. CASE ~(i < k)
    <3>1. i - 1 \in 1 .. Len(r) /\ ~(i - 1 < k) /\ (i - 1) + 1 = i
      BY <1>1, <1>4, <1>7, <2>2
    <3>2. QED
      BY <1>5, <3>1
  <2>3. QED
    BY <2>1, <2>2
<1>8. \A i, j \in 1 .. Len(r) : r[i] = r[j] => i = j
  <2> HIDE DEF r, at
  <2>1. ASSUME NEW i \in 1 .. Len(r), NEW j \in 1 .. Len(r), r[i] = r[j]
        PROVE  i = j
    <3>1. q[at(i)] = q[at(j)] /\ at(i) \in 1 .. Len(q) /\ at(j) \in 1 .. Len(q)
      BY <1>6, <2>1, Zenon
    <3>2. at(i) = at(j)
      BY <1>2, <3>1, Zenon
    <3>3. QED
      BY <1>6, <3>2, Zenon
  <2>2. QED
    BY <2>1
<1>9. ASSUME NEW j \in 1 .. Len(r)
      PROVE  after[r[j]].next = IF j = Len(r) THEN NULL ELSE r[j + 1]
  <2>1. /\ r[j] = q[at(j)] /\ at(j) \in 1 .. Len(q) /\ at(j) # k
        /\ r[j] \in Elements(q) \ {q[k]}
    <3>1. r[j] = q[at(j)] /\ at(j) \in 1 .. Len(q) /\ at(j) # k
      BY <1>6
    <3>2. q[at(j)] # q[k] /\ q[at(j)] \in Elements(q)
      <4> HIDE DEF at
      <4>1. QED
        BY <1>1, <1>2, <3>1, Zenon
    <3>3. QED
      BY <3>1, <3>2
  <2>2. after[r[j]].next = IF rec[r[j]].next = q[k] THEN rec[q[k]].next ELSE rec[r[j]].next
    BY <2>1
  <2>3. /\ rec[r[j]].next = IF at(j) = Len(q) THEN NULL ELSE q[at(j) + 1]
        /\ rec[q[k]].next = IF k = Len(q) THEN NULL ELSE q[k + 1]
        /\ q[k] # NULL
    <3> HIDE DEF r, at
    <3>1. QED
      BY <1>1, <1>3, <2>1, Zenon
  <2>4. CASE at(j) = Len(q)
    <3>1. j = Len(r)
      BY <1>4, <2>4, <2>1, <1>1
    <3>2. QED
      BY <2>2, <2>3, <2>4, <3>1
  <2>5. CASE at(j) # Len(q) /\ at(j) + 1 = k
    <3>1. j + 1 = k /\ (k = Len(q) <=> j = Len(r))
      BY <1>1, <1>4, <2>5
    <3>2. rec[r[j]].next = q[k]
      BY <2>3, <2>5
    <3>3. j # Len(r) => r[j + 1] = q[k + 1]
      <4>1. j # Len(r) => j + 1 \in 1 .. Len(r) /\ ~(j + 1 < k)
        BY <1>4, <3>1, <1>1
      <4>2. QED
        BY <1>5, <3>1, <4>1
    <3>4. QED
      BY <2>2, <2>3, <3>1, <3>2, <3>3
  <2>6. CASE at(j) # Len(q) /\ at(j) + 1 # k
    <3>1. at(j) + 1 \in 1 .. Len(q) /\ j # Len(r) /\ j + 1 \in 1 .. Len(r) /\ at(j + 1) = at(j) + 1
      BY <1>1, <1>4, <2>1, <2>6
    <3>2. q[at(j) + 1] # q[k]
      <4> HIDE DEF at
      <4>1. QED
        BY <1>2, <2>6, <3>1
    <3>3. r[j + 1] = q[at(j) + 1]
      BY <1>6, <3>1
    <3>4. rec[r[j]].next = q[at(j) + 1]
      <4> HIDE DEF r, at
      <4>1. QED
        BY <2>3, <2>6, Zenon
    <3>5. QED
      <4> HIDE DEF r, at
      <4>1. QED
        BY <2>2, <3>1, <3>2, <3>3, <3>4, Zenon
  <2>7. QED
    BY <2>4, <2>5, <2>6
<1>10. HeadWithout(head, rec, q[k]) = IF Len(r) = 0 THEN NULL ELSE r[1]
  <2>1. head = q[1] /\ 1 \in 1 .. Len(q) /\ Len(q) # 0
    BY <1>1 DEF IsPath
  <2>2. CASE k = 1
    <3>1. HeadWithout(head, rec, q[k]) = IF 1 = Len(q) THEN NULL ELSE q[1 + 1]
      BY <1>3, <2>1, <2>2 DEF HeadWithout
    <3>2. 1 # Len(q) => 1 \in 1 .. Len(r) /\ ~(1 < k)
      BY <1>1, <1>4, <2>2
    <3>3. 1 = Len(q) <=> Len(r) = 0
      BY <1>1, <1>4
    <3>4. 1 # Len(q) => r[1] = q[1 + 1]
      BY <1>5, <3>2
    <3>5. QED
      BY <3>1, <3>3, <3>4
  <2>3. CASE k # 1
    <3>1. q[1] # q[k]
      BY <1>2, <2>1, <2>3
    <3>2. 1 \in 1 .. Len(r) /\ 1 < k /\ Len(r) # 0
      <4> HIDE DEF r
      <4>1. Len(r) = Len(q) - 1
        BY <1>4
      <4>2. 1 < k /\ 1 \in 1 .. Len(q) - 1 /\ Len(q) - 1 # 0
        BY <1>1, <2>3
      <4>3. QED
        BY <4>1, <4>2, Zenon
    <3>3. r[1] = q[1]
      BY <1>5, <3>2
    <3>4. QED
      BY <2>1, <3>1, <3>2, <3>3 DEF HeadWithout
  <2>4. QED
    BY <2>2, <2>3
<1>11. Elements(r) = Elements(q) \ {q[k]}
  <2>1. ASSUME NEW x \in Elements(r)
        PROVE  x \in Elements(q) \ {q[k]}
    <3>1. PICK j \in 1 .. Len(r) : r[j] = x
      BY <1>4 DEF Elements
    <3>2. at(j) \in 1 .. Len(q) /\ x = q[at(j)] /\ at(j) # k
      BY <1>6, <3>1
    <3> HIDE DEF at
    <3>3. QED
      BY <1>1, <1>2, <3>2, Zenon
  <2>2. ASSUME NEW x \in Elements(q) \ {q[k]}
        PROVE  x \in Elements(r)
    <3>1. PICK i \in 1 .. Len(q) : q[i] = x
      BY <1>1
    <3>2. PICK j \in 1 .. Len(r) : r[j] = q[i]
      BY <1>7, <2>2, <3>1
    <3> HIDE DEF r
    <3>3. QED
      BY <1>4, <3>1, <3>2, Zenon DEF Elements
  <2>3. QED
    BY <2>1, <2>2
<1>12. IsPath(HeadWithout(head, rec, q[k]), after, r, Slots)
  <2> HIDE DEF r
  <2>1. QED
    BY <1>4, <1>8, <1>9, <1>10, Zenon DEF IsPath
<1>13. QED
  BY <1>11, <1>12

LEMMA PathPop ==
    ASSUME NEW Slots, NULL \notin Slots,
           NEW head, NEW rec, NEW q, IsPath(head, rec, q, Slots), head # NULL,
           NEW after, \A t \in Elements(q) \ {head} : after[t].next = rec[t].next
    PROVE  /\ Len(q) # 0 /\ head = q[1] /\ head \in Elements(q)
           /\ IsPath(rec[head].next, after, Skipping(q, 1), Slots)
           /\ Elements(Skipping(q, 1)) = Elements(q) \ {head}
<1>1. /\ Len(q) \in Nat /\ Elements(q) = {q[i] : i \in 1 .. Len(q)}
      /\ \A i \in 1 .. Len(q) : q[i] \in Slots /\ q[i] \in Elements(q)
  BY PathTypes
<1>2. Len(q) # 0 /\ head = q[1]
  BY Zenon DEF IsPath
<1>3. 1 \in 1 .. Len(q)
  BY <1>1, <1>2
<1>4. \A i \in 1 .. Len(q) : rec[q[i]].next # q[1]
  <2>1. /\ \A i, j \in 1 .. Len(q) : q[i] = q[j] => i = j
        /\ \A i \in 1 .. Len(q) : rec[q[i]].next = IF i = Len(q) THEN NULL ELSE q[i + 1]
    BY Zenon DEF IsPath
  <2>2. \A i \in 1 .. Len(q) : i # Len(q) => i + 1 \in 1 .. Len(q) /\ i + 1 # 1
    BY <1>1
  <2>3. q[1] # NULL
    BY <1>1, <1>3
  <2>4. QED
    BY <1>3, <2>1, <2>2, <2>3, ZenonT(60)
<1>5. \A t \in Elements(q) \ {q[1]} :
          after[t].next = IF rec[t].next = q[1] THEN rec[q[1]].next ELSE rec[t].next
  <2>1. \A t \in Elements(q) : rec[t].next # q[1]
    BY <1>1, <1>4
  <2>2. QED
    BY <1>2, <2>1
<1>6. HeadWithout(head, rec, q[1]) = rec[head].next
  BY <1>2 DEF HeadWithout
<1>7. /\ IsPath(HeadWithout(head, rec, q[1]), after, Skipping(q, 1), Slots)
      /\ Elements(Skipping(q, 1)) = Elements(q) \ {q[1]}
  BY <1>3, <1>5, PathUnlink
<1>8. QED
  BY <1>1, <1>2, <1>3, <1>6, <1>7

\* The links that the unlinking walk leaves, in a path.
LEMMA UnlinkedLinks ==
    ASSUME NEW Slots, IsFiniteSet(Slots), NULL \notin Slots,
           NEW head, NEW rec, NEW q, IsPath(head, rec, q, Slots),
           \A t \in Slots : \A v : [rec[t] EXCEPT !.next = v].next = v,
           NEW p \in Elements(q), NEW t \in Elements(q) \ {p}
    PROVE  LinksWithout(head, rec, Slots, p)[t].next =
               IF rec[t].next = p THEN rec[p].next ELSE rec[t].next
<1>1. ListOf(head, rec, Slots) = q
  BY ListOfPath
<1>2. t \in Slots /\ p \in Slots /\ p # NULL
  BY PathTypes
<1>3. head = p => rec[t].next # p
  <2>1. ASSUME head = p
        PROVE  rec[t].next # p
    <3>1. PICK i \in 1 .. Len(q) : q[i] = t
      BY PathTypes, Zenon
    <3>2. Len(q) \in Nat
      BY PathTypes
    <3>3. /\ p = q[1]
          /\ \A k, j \in 1 .. Len(q) : q[k] = q[j] => k = j
          /\ rec[t].next = IF i = Len(q) THEN NULL ELSE q[i + 1]
      BY <1>2, <2>1, <3>1, Zenon DEF IsPath
    <3>4. i # Len(q) => i + 1 \in 1 .. Len(q) /\ i + 1 # 1 /\ 1 \in 1 .. Len(q)
      BY <3>1, <3>2
    <3>5. QED
      BY <1>2, <3>3, <3>4, Zenon
  <2>2. QED
    BY <2>1
<1>4. LinksWithout(head, rec, Slots, p)[t] =
          IF head # p /\ rec[t].next = p THEN [rec[t] EXCEPT !.next = rec[p].next] ELSE rec[t]
  BY <1>1, <1>2, Zenon DEF LinksWithout
<1>5. QED
  BY <1>2, <1>3, <1>4

LEMMA EmptyPath ==
    ASSUME NEW Slots, NEW rec
    PROVE  IsPath(NULL, rec, <<>>, Slots) /\ Elements(<<>>) = {}
BY DEF IsPath, Elements

----------------------------------------------------------------------------
(* Slots *)

LEMMA SlotSets ==
    /\ IsFiniteSet(Sess) /\ IsFiniteSet(TxSlot) /\ IsFiniteSet(FileSlot) /\ IsFiniteSet(EoSlot)
    /\ Sess \subseteq Nat /\ TxSlot \subseteq Nat /\ FileSlot \subseteq Nat /\ EoSlot \subseteq Nat
    /\ NULL \notin Sess /\ NULL \notin TxSlot /\ NULL \notin FileSlot /\ NULL \notin EoSlot
<1>1. \A n \in Nat : IsFiniteSet(1 .. n) /\ 1 .. n \subseteq Nat /\ 0 \notin 1 .. n
  <2>1. ASSUME NEW n \in Nat
        PROVE  IsFiniteSet(1 .. n)
    BY FS_Interval
  <2>2. \A n \in Nat : 1 .. n \subseteq Nat /\ 0 \notin 1 .. n
    OBVIOUS
  <2>3. QED
    BY <2>1, <2>2
<1>2. QED
  BY <1>1, TablesAssumption DEF Sess, TxSlot, FileSlot, EoSlot, NULL

LEMMA FirstSlotFree ==
    ASSUME NEW S, S \subseteq Nat, S # {}
    PROVE  FirstSlot(S) \in S
<1>1. \E t \in S : \A u \in S : t <= u
  BY LeastNat
<1>2. QED
  BY <1>1, Zenon DEF FirstSlot

----------------------------------------------------------------------------
(* The inductive invariant: a part for each kind of object *)

Types ==
    /\ wi_sessions \in Sess \cup {NULL} /\ sess_used \subseteq Sess /\ ws \in [Sess -> WiSess]
    /\ tx_used \subseteq TxSlot /\ txbuf \in [TxSlot -> TxBuf]
    /\ file_used \subseteq FileSlot /\ file \in [FileSlot -> WiFile]
    /\ em_openlist \in EoSlot \cup {NULL} /\ eo_used \subseteq EoSlot /\ eo \in [EoSlot -> EoFile]

SessPath(q) == IsPath(wi_sessions, ws, q, Sess) /\ Elements(q) = sess_used
SessionsOK  == \E q : SessPath(q)

\* The chain q of session s, and the tail wi_txalloc trusts.
TextPath(s, q) ==
    /\ IsPath(ws[s].txbufs, txbuf, q, TxSlot)
    /\ \A t \in Elements(q) : t \in tx_used /\ txbuf[t].session = s
    /\ ws[s].txbufs # NULL => ws[s].txtail = q[Len(q)]
    /\ ws[s].txbufs = NULL /\ ~ws[s].ending => ws[s].txtail = NULL

TextsOK ==
    /\ \A s \in sess_used : \E q : TextPath(s, q)
    /\ \A t \in tx_used : \E s \in sess_used : t \in Elements(Chain(s))
    /\ \A t \in tx_used : Len(txbuf[t].data) \in 1 .. WI_TXBUFSIZE

FilePath(s, q) ==
    /\ IsPath(ws[s].filelist, file, q, FileSlot)
    /\ \A f \in Elements(q) : f \in file_used /\ file[f].sess = s

OpenPath(q) == IsPath(em_openlist, eo, q, EoSlot) /\ Elements(q) = eo_used

FilesOK ==
    /\ \A s \in sess_used : \E q : FilePath(s, q)
    /\ \A f \in file_used : file[f].fd \in eo_used
    /\ \A f, g \in file_used : file[f].fd = file[g].fd => f = g
    /\ \A e \in eo_used : \E f \in file_used : file[f].fd = e
    /\ \E q : OpenPath(q)
    /\ \A e \in eo_used : eo[e].emfile \in Name /\ eo[e].position <= Size[eo[e].emfile]

IInv == Types /\ SessionsOK /\ TextsOK /\ FilesOK

\* The walks find these paths.
LEMMA PathsFound ==
    /\ \A q : SessPath(q) => ListOf(wi_sessions, ws, Sess) = q
    /\ \A s, q : TextPath(s, q) => Chain(s) = q
    /\ \A s, q : FilePath(s, q) => FileList(s) = q
    /\ \A q : OpenPath(q) => OpenList = q
BY SlotSets, ListOfPath DEF SessPath, TextPath, FilePath, OpenPath, Chain, FileList, OpenList

LEMMA PathsThere ==
    ASSUME IInv
    PROVE  /\ SessPath(ListOf(wi_sessions, ws, Sess)) /\ Linked = sess_used
           /\ \A s \in sess_used : TextPath(s, Chain(s)) /\ FilePath(s, FileList(s))
           /\ OpenPath(OpenList)
BY PathsFound DEF IInv, SessionsOK, TextsOK, FilesOK, Linked, SessPath

\* No session but its own has a txbuf in its chain.
LEMMA ChainsApart ==
    ASSUME IInv, NEW s \in sess_used, NEW t \in sess_used, s # t
    PROVE  Elements(Chain(s)) \cap Elements(Chain(t)) = {}
BY PathsThere DEF TextPath

LEMMA InitIInv ==
    ASSUME Init
    PROVE  IInv
<1>1. Types
  <2>1. /\ ZeroSess \in WiSess /\ ZeroTx \in TxBuf /\ ZeroFile \in WiFile /\ ZeroEo \in EoFile
    BY DEF WiSess, ZeroSess, TxBuf, ZeroTx, WiFile, ZeroFile, EoFile, ZeroEo
  <2>2. QED
    BY <2>1 DEF Init, Types
<1>2. SessPath(<<>>)
  BY EmptyPath DEF Init, SessPath
<1>3. TextsOK
  BY DEF Init, TextsOK
<1>4. OpenPath(<<>>)
  BY EmptyPath DEF Init, OpenPath
<1>5. FilesOK
  BY <1>4 DEF Init, FilesOK
<1>6. QED
  BY <1>1, <1>2, <1>3, <1>5 DEF IInv, SessionsOK

----------------------------------------------------------------------------
(* What a step leaves alone *)

LEMMA SessionsFrame ==
    ASSUME SessionsOK, UNCHANGED sessions, \A s \in sess_used : ws'[s].next = ws[s].next
    PROVE  SessionsOK'
<1>1. PICK q : SessPath(q)
  BY DEF SessionsOK
<1>2. IsPath(wi_sessions, ws', q, Sess)
  BY <1>1, PathFrame DEF SessPath
<1>3. SessPath(q)'
  BY <1>1, <1>2 DEF SessPath, sessions
<1>4. QED
  BY <1>3 DEF SessionsOK

LEMMA TextsFrame ==
    ASSUME TextsOK, UNCHANGED <<sess_used, texts>>,
           \A s \in sess_used : /\ ws'[s].txbufs = ws[s].txbufs /\ ws'[s].txtail = ws[s].txtail
                                /\ ws'[s].ending = ws[s].ending \/ ws'[s].ending
    PROVE  TextsOK'
<1>1. \A s \in sess_used : Chain(s)' = Chain(s)
  BY DEF Chain, texts
<1>2. \A s \in sess_used : \A q : TextPath(s, q) => TextPath(s, q)'
  BY DEF TextPath, texts
<1>3. \A s \in sess_used' : \E q : TextPath(s, q)'
  BY <1>2 DEF TextsOK
<1>4. \A t \in tx_used' : \E s \in sess_used' : t \in Elements(Chain(s)')
  BY <1>1 DEF TextsOK, texts
<1>5. QED
  BY <1>3, <1>4 DEF TextsOK, texts

LEMMA FilesFrame ==
    ASSUME FilesOK, UNCHANGED <<sess_used, files, eofiles>>,
           \A s \in sess_used : ws'[s].filelist = ws[s].filelist
    PROVE  FilesOK'
<1>1. \A s \in sess_used : \A q : FilePath(s, q) => FilePath(s, q)'
  BY DEF FilePath, files
<1>2. \A q : OpenPath(q) => OpenPath(q)'
  BY DEF OpenPath, eofiles
<1>3. QED
  BY <1>1, <1>2 DEF FilesOK, files, eofiles

LEMMA PathsFoundNext ==
    /\ \A q : SessPath(q)' => ListOf(wi_sessions', ws', Sess) = q
    /\ \A s, q : TextPath(s, q)' => Chain(s)' = q
    /\ \A s, q : FilePath(s, q)' => FileList(s)' = q
    /\ \A q : OpenPath(q)' => OpenList' = q
BY SlotSets, ListOfPath DEF SessPath, TextPath, FilePath, OpenPath, Chain, FileList, OpenList

\* A chain none of whose txbufs is relinked or freed.
LEMMA TextKept ==
    ASSUME NEW s, NEW q, TextPath(s, q),
           ws'[s].txbufs = ws[s].txbufs, ws'[s].txtail = ws[s].txtail, ws'[s].ending = ws[s].ending,
           \A t \in Elements(q) : /\ t \in tx_used' /\ txbuf'[t].next = txbuf[t].next
                                  /\ txbuf'[t].session = txbuf[t].session
    PROVE  TextPath(s, q)'
<1>1. IsPath(ws[s].txbufs, txbuf', q, TxSlot)
  BY PathFrame DEF TextPath
<1>2. QED
  BY <1>1 DEF TextPath

LEMMA FileKept ==
    ASSUME NEW s, NEW q, FilePath(s, q), ws'[s].filelist = ws[s].filelist,
           \A f \in Elements(q) : f \in file_used' /\ file'[f] = file[f]
    PROVE  FilePath(s, q)'
<1>1. IsPath(ws[s].filelist, file', q, FileSlot)
  BY PathFrame DEF FilePath
<1>2. QED
  BY <1>1 DEF FilePath

----------------------------------------------------------------------------
(* A session is taken *)

LEMMA NewsessKeepsIInv ==
    ASSUME IInv, wi_newsess
    PROVE  IInv'
<1>0. PICK s : s = FirstSlot(Sess \ sess_used)
  OBVIOUS
<1>1. s \in Sess /\ s \notin sess_used
  <2>1. Sess \ sess_used # {} /\ Sess \ sess_used \subseteq Nat
    BY SlotSets DEF wi_newsess, IInv, Types
  <2>2. QED
    BY <1>0, <2>1, FirstSlotFree
<1>2. /\ sess_used' = sess_used \cup {s} /\ wi_sessions' = s
      /\ ws' = [ws EXCEPT ![s] = [ZeroSess EXCEPT !.next = wi_sessions]]
      /\ UNCHANGED <<texts, files, eofiles>>
  BY <1>0, Zenon DEF wi_newsess
<1>3. Types /\ sess_used \subseteq Sess
  BY DEF IInv, Types
<1>4. /\ [ZeroSess EXCEPT !.next = wi_sessions] \in WiSess
      /\ ws'[s] = [ZeroSess EXCEPT !.next = wi_sessions]
      /\ ws'[s].next = wi_sessions /\ ws'[s].txbufs = NULL /\ ws'[s].txtail = NULL
      /\ ws'[s].filelist = NULL
  BY <1>1, <1>2, <1>3 DEF Types, ZeroSess, WiSess
<1>5. \A t \in sess_used : ws'[t] = ws[t]
  BY <1>1, <1>2, <1>3 DEF Types
<1>6. Types'
  BY <1>1, <1>2, <1>3, <1>4 DEF Types, texts, files, eofiles
<1>7. SessionsOK'
  <2>1. PICK q : SessPath(q)
    BY DEF IInv, SessionsOK
  <2>2. IsPath(s, ws', Pushed(s, q), Sess) /\ Elements(Pushed(s, q)) = Elements(q) \cup {s}
    <3>1. /\ IsPath(wi_sessions, ws, q, Sess) /\ s \notin Elements(q) /\ ws'[s].next = wi_sessions
          /\ \A t \in Elements(q) : ws'[t].next = ws[t].next
      BY <1>1, <1>4, <1>5, <2>1 DEF SessPath
    <3>2. QED
      BY <1>1, <3>1, SlotSets, PathPush
  <2>3. SessPath(Pushed(s, q))'
    BY <1>2, <2>1, <2>2 DEF SessPath
  <2>4. QED
    BY <2>3 DEF SessionsOK
<1>8. TextsOK'
  <2>1. \A t \in sess_used : TextPath(t, Chain(t))' /\ Chain(t)' = Chain(t)
    <3>1. \A t \in sess_used : TextPath(t, Chain(t))
      BY PathsThere
    <3>2. \A t \in sess_used : \A q : TextPath(t, q) => TextPath(t, q)'
      BY <1>2, <1>5 DEF TextPath, texts
    <3>3. \A t \in sess_used : Chain(t)' = Chain(t)
      BY <1>2, <1>5 DEF Chain, texts
    <3>4. QED
      BY <1>2, <3>1, <3>2, <3>3, PathsFoundNext
  <2>2. TextPath(s, <<>>)'
    BY <1>4, EmptyPath DEF TextPath
  <2>3. QED
    BY <1>2, <2>1, <2>2 DEF IInv, TextsOK, texts
<1>9. FilesOK'
  <2>1. \A t \in sess_used : \A q : FilePath(t, q) => FilePath(t, q)'
    BY <1>2, <1>5 DEF FilePath, files
  <2>2. FilePath(s, <<>>)'
    BY <1>4, EmptyPath DEF FilePath
  <2>3. \A q : OpenPath(q) => OpenPath(q)'
    BY <1>2 DEF OpenPath, eofiles
  <2>4. QED
    BY <1>2, <2>1, <2>2, <2>3 DEF IInv, FilesOK, files, eofiles
<1>10. QED
  BY <1>6, <1>7, <1>8, <1>9 DEF IInv

----------------------------------------------------------------------------
(* Text is put and sent *)

\* The step that gives session s the chain q, and leaves the other sessions theirs.
LEMMA OneChain ==
    ASSUME IInv, NEW s \in sess_used, sess_used' = sess_used, NEW q, TextPath(s, q)',
           \A t \in sess_used \ {s} : /\ ws'[t].txbufs = ws[t].txbufs /\ ws'[t].txtail = ws[t].txtail
                                      /\ ws'[t].ending = ws[t].ending,
           \A x \in tx_used \ Elements(Chain(s)) : x \in tx_used' /\ txbuf'[x] = txbuf[x],
           \A x \in tx_used' : x \in Elements(q) \/ x \in tx_used \ Elements(Chain(s)),
           \A x \in tx_used' : Len(txbuf'[x].data) \in 1 .. WI_TXBUFSIZE
    PROVE  /\ TextsOK' /\ Chain(s)' = q
           /\ \A t \in sess_used \ {s} : Chain(t)' = Chain(t)
<1>1. ASSUME NEW t \in sess_used \ {s}
      PROVE  Chain(t)' = Chain(t) /\ \E c : TextPath(t, c)'
  <2>1. PICK c : c = Chain(t)
    OBVIOUS
  <2>2. TextPath(t, c) /\ c = Chain(t) /\ Elements(c) \cap Elements(Chain(s)) = {}
    BY <2>1, PathsThere, ChainsApart
  <2>3. \A x \in Elements(c) : x \in tx_used' /\ txbuf'[x] = txbuf[x]
    BY <2>2 DEF TextPath
  <2>4. TextPath(t, c)'
    BY <2>2, <2>3, TextKept
  <2>5. Chain(t)' = c
    BY <2>4, PathsFoundNext
  <2>6. QED
    BY <2>2, <2>4, <2>5
<1>2. Chain(s)' = q
  BY PathsFoundNext
<1>3. ASSUME NEW x \in tx_used'
      PROVE  \E t \in sess_used : x \in Elements(Chain(t)')
  <2>1. CASE x \in Elements(q)
    BY <1>2, <2>1
  <2>2. CASE x \in tx_used \ Elements(Chain(s))
    <3>1. PICK t \in sess_used : x \in Elements(Chain(t))
      BY <2>2 DEF IInv, TextsOK
    <3>2. t # s
      BY <2>2, <3>1
    <3>3. QED
      BY <1>1, <3>1, <3>2
  <2>3. QED
    BY <2>1, <2>2
<1>4. TextsOK'
  BY <1>1, <1>3 DEF TextsOK
<1>5. QED
  BY <1>1, <1>2, <1>4

\* wi_txalloc links the new txbuf behind the last one, if there is one.
LEMMA TxallocChain ==
    ASSUME IInv, NEW s \in sess_used, ~ws[s].ending, NEW q, TextPath(s, q),
           NEW new \in TxSlot, new \notin tx_used, NEW unit \in Unit, wi_txalloc(s, new, unit)
    PROVE  /\ TextPath(s, Append(q, new))'
           /\ Elements(Append(q, new)) = Elements(q) \cup {new}
           /\ tx_used' = tx_used \cup {new}
           /\ txbuf' \in [TxSlot -> TxBuf] /\ txbuf'[new].data = <<unit>>
           /\ \A x \in TxSlot : x # new => txbuf'[x].data = txbuf[x].data
           /\ \A x \in TxSlot : x # new /\ x \notin Elements(q) => txbuf'[x] = txbuf[x]
           /\ ws' \in [Sess -> WiSess] /\ \A t \in sess_used \ {s} : ws'[t] = ws[t]
           /\ ws'[s].next = ws[s].next /\ ws'[s].filelist = ws[s].filelist
           /\ ~ws'[s].ending
<1>1. Types /\ s \in Sess /\ ws[s] \in WiSess /\ txbuf \in [TxSlot -> TxBuf] /\ ws \in [Sess -> WiSess]
  BY DEF IInv, Types
<1> DEFINE first == [ZeroTx EXCEPT !.session = s, !.data = <<unit>>]
           fresh == [txbuf EXCEPT ![new] = first]
<1>2. first \in TxBuf /\ first.next = NULL /\ first.session = s /\ first.data = <<unit>>
  <2>1. <<unit>> \in Seq(Unit) /\ ZeroTx \in TxBuf /\ ZeroTx.next = NULL
    BY DEF ZeroTx, TxBuf
  <2>2. QED
    BY <1>1, <2>1 DEF TxBuf
<1>3. /\ tx_used' = tx_used \cup {new}
      /\ txbuf' = IF ws[s].txtail = NULL THEN fresh ELSE [fresh EXCEPT ![ws[s].txtail].next = new]
      /\ ws' = [ws EXCEPT ![s].txtail = new, ![s].txbufs = IF @ = NULL THEN new ELSE @]
  BY Zenon DEF wi_txalloc
<1>4. /\ ws' \in [Sess -> WiSess] /\ \A t \in sess_used \ {s} : ws'[t] = ws[t]
      /\ ws'[s].next = ws[s].next /\ ws'[s].filelist = ws[s].filelist /\ ~ws'[s].ending
      /\ ws'[s].txtail = new /\ ws'[s].txbufs = IF ws[s].txbufs = NULL THEN new ELSE ws[s].txbufs
  BY <1>1, <1>3 DEF Types, WiSess
<1>5. fresh \in [TxSlot -> TxBuf] /\ fresh[new] = first /\ \A x \in TxSlot : x # new => fresh[x] = txbuf[x]
  BY <1>1, <1>2
<1> HIDE DEF first, fresh
<1>6. new \notin Elements(q) /\ new # NULL /\ q \in Seq(TxSlot) /\ Len(q) \in Nat
  BY SlotSets, PathTypes DEF TextPath
<1>7. CASE ws[s].txbufs = NULL
  <2>1. Len(q) = 0 /\ q = <<>>
    <3>1. Len(q) # 0 => q[1] \in TxSlot /\ ws[s].txbufs = q[1]
      BY <1>6 DEF TextPath, IsPath
    <3>2. QED
      BY <1>6, <1>7, <3>1, SlotSets
  <2>2. ws[s].txtail = NULL
    BY <1>7 DEF TextPath
  <2>3. txbuf' = fresh
    BY <1>3, <2>2
  <2>4. /\ Append(q, new) = <<new>> /\ Len(<<new>>) = 1 /\ <<new>>[1] = new
        /\ Elements(<<new>>) = {new} /\ Elements(q) = {} /\ <<new>> \in Seq(TxSlot)
    BY <2>1 DEF Elements
  <2>5. fresh[new].next = NULL /\ fresh[new].session = s /\ fresh[new].data = <<unit>>
    BY <1>2, <1>5
  <2>6. IsPath(new, fresh, <<new>>, TxSlot)
    BY <2>4, <2>5 DEF IsPath
  <2>7. TextPath(s, Append(q, new))'
    BY <1>3, <1>4, <1>6, <1>7, <2>3, <2>4, <2>5, <2>6 DEF TextPath
  <2>8. QED
    BY <1>3, <1>4, <1>5, <2>3, <2>4, <2>5, <2>7
<1>8. CASE ws[s].txbufs # NULL
  <2>1. Len(q) # 0 /\ Len(q) \in 1 .. Len(q)
    BY <1>6, <1>8 DEF TextPath, IsPath
  <2>2. PICK tail : tail = ws[s].txtail
    OBVIOUS
  <2>3. tail = q[Len(q)] /\ tail \in Elements(q) /\ tail \in TxSlot /\ tail # NULL /\ tail # new
    BY <1>6, <1>8, <2>1, <2>2, PathTypes, SlotSets DEF TextPath
  <2>4. txbuf' = [fresh EXCEPT ![tail].next = new]
    BY <1>3, <2>2, <2>3
  <2>5. /\ txbuf' \in [TxSlot -> TxBuf]
        /\ txbuf'[tail].next = new /\ txbuf'[tail].session = txbuf[tail].session
        /\ txbuf'[tail].data = txbuf[tail].data
        /\ \A x \in TxSlot : x # new /\ x # tail => txbuf'[x] = txbuf[x]
        /\ txbuf'[new] = first
    BY <1>1, <1>5, <2>3, <2>4 DEF TxBuf
  <2>6. txbuf'[new].next = NULL /\ txbuf'[new].session = s /\ txbuf'[new].data = <<unit>>
    BY <1>2, <2>5
  <2>7. \A x \in Elements(q) : x \in TxSlot /\ x # new
    BY <1>6, PathTypes DEF TextPath
  <2>8. \A x \in Elements(q) : txbuf'[x].next = IF x = q[Len(q)] THEN new ELSE txbuf[x].next
    BY <2>3, <2>5, <2>7
  <2>9. /\ IsPath(ws[s].txbufs, txbuf', Append(q, new), TxSlot)
        /\ Elements(Append(q, new)) = Elements(q) \cup {new}
    <3>1. IsPath(ws[s].txbufs, txbuf, q, TxSlot)
      BY DEF TextPath
    <3>2. QED
      BY <1>6, <2>1, <2>6, <2>8, <3>1, PathAppend
  <2>10. Append(q, new)[Len(Append(q, new))] = new
    BY <1>6
  <2>11. \A x \in Elements(q) : x \in tx_used' /\ txbuf'[x].session = s
    BY <1>3, <2>3, <2>5, <2>7 DEF TextPath
  <2>12. TextPath(s, Append(q, new))'
    BY <1>3, <1>4, <1>6, <1>8, <2>6, <2>9, <2>10, <2>11 DEF TextPath
  <2>13. QED
    BY <1>3, <1>4, <2>3, <2>5, <2>6, <2>9, <2>12
<1>9. QED
  BY <1>7, <1>8

\* What a call on the text of session s leaves of the others' state.
OnlyText(s) ==
    /\ UNCHANGED <<sessions, files, eofiles>>
    /\ ws' \in [Sess -> WiSess] /\ \A t \in sess_used \ {s} : ws'[t] = ws[t]
    /\ ws'[s].next = ws[s].next /\ ws'[s].filelist = ws[s].filelist

LEMMA OnlyTextKeeps ==
    ASSUME IInv, NEW s \in sess_used, OnlyText(s)
    PROVE  SessionsOK' /\ FilesOK'
<1>1. \A t \in sess_used : ws'[t].next = ws[t].next /\ ws'[t].filelist = ws[t].filelist
  BY DEF OnlyText
<1>2. QED
  BY <1>1, SessionsFrame, FilesFrame DEF OnlyText, IInv, sessions

\* A unit of text: the tail takes it, or a new txbuf does, or there is none.
PutOutcome(s, unit) ==
    /\ OnlyText(s) /\ TextsOK' /\ Types' /\ \A t \in sess_used \ {s} : Chain(t)' = Chain(t)
    /\ \/ /\ ret' = 0 /\ Chain(s)' = Chain(s) /\ Len(Chain(s)) # 0
          /\ txbuf' = [txbuf EXCEPT ![Chain(s)[Len(Chain(s))]].data = Append(@, unit)]
       \/ \E new \in TxSlot \ tx_used :
             /\ ret' = 0 /\ Chain(s)' = Append(Chain(s), new)
             /\ txbuf'[new].data = <<unit>>
             /\ \A x \in TxSlot : x # new => txbuf'[x].data = txbuf[x].data
       \/ ret' = WI_E_MEMORY /\ UNCHANGED <<texts, ws>>

LEMMA PutTextCases ==
    ASSUME IInv, NEW s \in sess_used, ~ws[s].ending, NEW unit \in Unit, NEW fits, PutText(s, unit, fits),
           fits => ws[s].txtail # NULL /\ Total(s) + 1 <= WI_TXBUFSIZE /\ ws[s].txbufs # NULL
    PROVE  PutOutcome(s, unit)
<1>1. Types /\ s \in Sess /\ ws[s] \in WiSess /\ txbuf \in [TxSlot -> TxBuf] /\ ws \in [Sess -> WiSess]
  BY DEF IInv, Types
<1>2. PICK q : q = Chain(s)
  OBVIOUS
<1>3. TextPath(s, q) /\ Elements(q) = Elements(Chain(s)) /\ q \in Seq(TxSlot) /\ Len(q) \in Nat
  BY <1>2, PathsThere, PathTypes DEF TextPath
<1>4. UNCHANGED <<sessions, files, eofiles>> /\ sess_used' = sess_used
  BY DEF PutText, sessions
<1>5. ASSUME fits, txbuf' = [txbuf EXCEPT ![ws[s].txtail].data = Append(@, unit)],
             UNCHANGED <<tx_used, ws>>, ret' = 0
      PROVE  /\ OnlyText(s) /\ TextsOK' /\ Types' /\ \A t \in sess_used \ {s} : Chain(t)' = Chain(t)
             /\ Chain(s)' = Chain(s) /\ Len(Chain(s)) # 0
             /\ txbuf' = [txbuf EXCEPT ![Chain(s)[Len(Chain(s))]].data = Append(@, unit)]
  <2>1. PICK tail : tail = ws[s].txtail
    OBVIOUS
  <2>2. tail = q[Len(q)] /\ Len(q) # 0 /\ tail \in Elements(q) /\ tail \in TxSlot
    <3>1. tail = q[Len(q)]
      BY <1>3, <1>5, <2>1 DEF TextPath
    <3>2. Len(q) # 0
      BY <1>3, <1>5 DEF TextPath, IsPath
    <3>3. Len(q) \in 1 .. Len(q)
      BY <1>3, <3>2
    <3>4. QED
      BY <1>3, <3>1, <3>2, <3>3, PathTypes DEF TextPath
  <2>3. txbuf' = [txbuf EXCEPT ![tail].data = Append(@, unit)]
    BY <1>5, <2>1
  <2>4. txbuf[tail] \in TxBuf /\ Append(txbuf[tail].data, unit) \in Seq(Unit)
        /\ Len(Append(txbuf[tail].data, unit)) = Len(txbuf[tail].data) + 1
    BY <1>1, <2>2 DEF TxBuf
  <2>5. /\ txbuf' \in [TxSlot -> TxBuf]
        /\ txbuf'[tail].data = Append(txbuf[tail].data, unit)
        /\ \A x \in TxSlot : txbuf'[x].next = txbuf[x].next /\ txbuf'[x].session = txbuf[x].session
        /\ \A x \in TxSlot : x # tail => txbuf'[x] = txbuf[x]
    BY <1>1, <2>2, <2>3, <2>4 DEF TxBuf
  <2>6. Types' /\ OnlyText(s)
    BY <1>1, <1>4, <1>5, <2>5 DEF Types, OnlyText, sessions, files, eofiles
  <2>7. \A x \in Elements(q) : x \in TxSlot /\ x \in tx_used
    BY <1>3, PathTypes DEF TextPath
  <2>8. TextPath(s, q)'
    BY <1>3, <1>5, <2>5, <2>7, TextKept
  <2>9. \A x \in tx_used' : Len(txbuf'[x].data) \in 1 .. WI_TXBUFSIZE
    <3>1. Len(txbuf[tail].data) + 1 <= WI_TXBUFSIZE /\ Len(txbuf[tail].data) \in Nat
      BY <1>5, <2>1, <2>4 DEF Total, TxBuf
    <3>2. Len(txbuf'[tail].data) \in 1 .. WI_TXBUFSIZE
      BY <2>4, <2>5, <3>1, TextAssumption
    <3>3. \A x \in tx_used : x \in TxSlot /\ Len(txbuf[x].data) \in 1 .. WI_TXBUFSIZE
      BY <1>1 DEF IInv, TextsOK, Types
    <3>4. QED
      BY <1>5, <2>5, <3>2, <3>3
  <2>10. \A x \in tx_used \ Elements(Chain(s)) : x \in tx_used' /\ txbuf'[x] = txbuf[x]
    BY <1>1, <1>3, <1>5, <2>2, <2>5 DEF Types
  <2>11. TextsOK' /\ Chain(s)' = q /\ \A t \in sess_used \ {s} : Chain(t)' = Chain(t)
    BY <1>3, <1>4, <1>5, <2>8, <2>9, <2>10, OneChain
  <2>12. QED
    BY <1>2, <2>2, <2>3, <2>6, <2>11
<1>6. ASSUME NEW new, new = FirstSlot(TxSlot \ tx_used), tx_used # TxSlot, wi_txalloc(s, new, unit)
      PROVE  /\ OnlyText(s) /\ TextsOK' /\ Types' /\ \A t \in sess_used \ {s} : Chain(t)' = Chain(t)
             /\ new \in TxSlot \ tx_used /\ Chain(s)' = Append(Chain(s), new)
             /\ txbuf'[new].data = <<unit>>
             /\ \A x \in TxSlot : x # new => txbuf'[x].data = txbuf[x].data
  <2>1. new \in TxSlot /\ new \notin tx_used
    <3>1. TxSlot \ tx_used # {} /\ TxSlot \ tx_used \subseteq Nat
      BY <1>1, <1>6, SlotSets DEF Types
    <3>2. QED
      BY <1>6, <3>1, FirstSlotFree
  <2>2. /\ TextPath(s, Append(q, new))'
        /\ Elements(Append(q, new)) = Elements(q) \cup {new}
        /\ tx_used' = tx_used \cup {new}
        /\ txbuf' \in [TxSlot -> TxBuf] /\ txbuf'[new].data = <<unit>>
        /\ \A x \in TxSlot : x # new => txbuf'[x].data = txbuf[x].data
        /\ \A x \in TxSlot : x # new /\ x \notin Elements(q) => txbuf'[x] = txbuf[x]
        /\ ws' \in [Sess -> WiSess] /\ \A t \in sess_used \ {s} : ws'[t] = ws[t]
        /\ ws'[s].next = ws[s].next /\ ws'[s].filelist = ws[s].filelist
    BY <1>3, <1>6, <2>1, TxallocChain, ZenonT(60)
  <2>3. Types' /\ OnlyText(s)
    BY <1>1, <1>4, <2>1, <2>2 DEF Types, OnlyText, sessions, files, eofiles
  <2>4. \A x \in tx_used' : Len(txbuf'[x].data) \in 1 .. WI_TXBUFSIZE
    <3>1. Len(<<unit>>) = 1 /\ 1 \in 1 .. WI_TXBUFSIZE
      BY TextAssumption
    <3>2. \A x \in tx_used : x \in TxSlot /\ Len(txbuf[x].data) \in 1 .. WI_TXBUFSIZE
      BY <1>1 DEF IInv, TextsOK, Types
    <3>3. QED
      BY <2>2, <3>1, <3>2, ZenonT(60)
  <2>5. \A x \in tx_used \ Elements(Chain(s)) : x \in tx_used' /\ txbuf'[x] = txbuf[x]
    BY <1>1, <1>3, <2>1, <2>2 DEF Types
  <2>6. \A x \in tx_used' : x \in Elements(Append(q, new)) \/ x \in tx_used \ Elements(Chain(s))
    BY <1>3, <2>2
  <2>7. TextsOK' /\ Chain(s)' = Append(q, new) /\ \A t \in sess_used \ {s} : Chain(t)' = Chain(t)
    BY <1>4, <2>2, <2>4, <2>5, <2>6, OneChain
  <2>8. QED
    BY <1>2, <2>1, <2>2, <2>3, <2>7
<1>7. ASSUME UNCHANGED <<texts, ws>>
      PROVE  OnlyText(s) /\ TextsOK' /\ Types' /\ \A t \in sess_used \ {s} : Chain(t)' = Chain(t)
  <2>1. Types' /\ OnlyText(s)
    BY <1>1, <1>4, <1>7 DEF Types, OnlyText, sessions, texts, files, eofiles
  <2>2. TextsOK'
    BY <1>4, <1>7, TextsFrame DEF IInv
  <2>3. QED
    BY <1>7, <2>1, <2>2 DEF Chain, texts
<1>8. QED
  BY <1>5, <1>6, <1>7 DEF PutText, PutOutcome

LEMMA PutCases ==
    ASSUME IInv, NEW s \in sess_used, NEW unit \in Unit, wi_printf(s, unit) \/ CopyChar(s, unit)
    PROVE  PutOutcome(s, unit)
<1>1. /\ s \in Sess /\ ws[s].txtail \in TxSlot \cup {NULL} /\ ws[s].txbufs \in TxSlot \cup {NULL}
      /\ txbuf \in [TxSlot -> TxBuf]
  BY DEF IInv, Types, WiSess
<1>2. PICK q : TextPath(s, q)
  BY DEF IInv, TextsOK
<1>3. ws[s].txbufs # NULL => ws[s].txtail \in TxSlot
  <2>1. ASSUME ws[s].txbufs # NULL
        PROVE  ws[s].txtail \in TxSlot
    <3>1. Len(q) \in Nat /\ Len(q) # 0
      BY <1>2, <2>1, PathTypes DEF TextPath, IsPath
    <3>2. Len(q) \in 1 .. Len(q)
      BY <3>1
    <3>3. q[Len(q)] \in TxSlot
      BY <1>2, <3>2, PathTypes DEF TextPath
    <3>4. QED
      BY <1>2, <2>1, <3>3 DEF TextPath
  <2>2. QED
    BY <2>1
<1>4. CASE wi_printf(s, unit)
  <2> DEFINE fits == ws[s].txtail # NULL /\ 1 < WI_TXBUFSIZE - Total(s)
  <2>1. ~ws[s].ending /\ PutText(s, unit, fits)
    BY <1>4, Zenon DEF wi_printf
  <2>2. fits => ws[s].txbufs # NULL
    BY <1>2, <2>1 DEF TextPath
  <2>3. fits => Total(s) + 1 <= WI_TXBUFSIZE
    <3>1. fits => Total(s) \in Nat
      BY <1>1 DEF Total, TxBuf
    <3>2. QED
      BY <3>1, TextAssumption
  <2> HIDE DEF fits
  <2>4. fits => ws[s].txtail # NULL
    BY DEF fits
  <2>5. QED
    BY <2>1, <2>2, <2>3, <2>4, PutTextCases
<1>5. CASE CopyChar(s, unit)
  <2> DEFINE fits == ws[s].txbufs # NULL /\ Total(s) < WI_TXBUFSIZE
  <2>1. ~ws[s].ending /\ PutText(s, unit, fits)
    BY <1>5, Zenon DEF CopyChar
  <2>2. fits => ws[s].txbufs # NULL /\ ws[s].txtail # NULL
    BY <1>3, SlotSets
  <2>3. fits => Total(s) + 1 <= WI_TXBUFSIZE
    <3>1. fits => Total(s) \in Nat
      BY <1>1, <1>3 DEF Total, TxBuf
    <3>2. QED
      BY <3>1, TextAssumption
  <2> HIDE DEF fits
  <2>4. QED
    BY <2>1, <2>2, <2>3, PutTextCases
<1>6. QED
  BY <1>4, <1>5

LEMMA LastOfSkipping ==
    ASSUME NEW S, NEW q \in Seq(S), Len(q) # 0
    PROVE  /\ Len(Skipping(q, 1)) = Len(q) - 1 /\ DOMAIN Skipping(q, 1) = 1 .. Len(q) - 1
           /\ \A i \in 1 .. Len(q) - 1 : Skipping(q, 1)[i] = q[i + 1]
           /\ Len(q) # 1 => Skipping(q, 1)[Len(q) - 1] = q[Len(q)]
<1>1. Len(q) - 1 \in Nat /\ Len(q) \in Nat
  OBVIOUS
<1>2. \A i \in 1 .. Len(q) - 1 : ~(i < 1)
  BY <1>1
<1>3. Skipping(q, 1) = [i \in 1 .. Len(q) - 1 |-> q[i + 1]]
  BY <1>2 DEF Skipping
<1>4. Skipping(q, 1) \in Seq(S) /\ Len(Skipping(q, 1)) = Len(q) - 1
  BY <1>1, <1>3
<1>5. Len(q) # 1 => Len(q) - 1 \in 1 .. Len(q) - 1 /\ (Len(q) - 1) + 1 = Len(q)
  BY <1>1
<1>6. QED
  BY <1>3, <1>4, <1>5

LEMMA SendHeadCases ==
    ASSUME IInv, NEW s \in sess_used, SendHead(s)
    PROVE  /\ OnlyText(s) /\ TextsOK' /\ Types' /\ \A t \in sess_used \ {s} : Chain(t)' = Chain(t)
           /\ Len(Chain(s)) # 0 /\ Chain(s)' = Skipping(Chain(s), 1) /\ ret' = 0
           /\ \A x \in TxSlot : x # Chain(s)[1] => txbuf'[x] = txbuf[x]
<1>1. Types /\ s \in Sess /\ ws[s] \in WiSess /\ txbuf \in [TxSlot -> TxBuf] /\ ws \in [Sess -> WiSess]
  BY DEF IInv, Types
<1>2. PICK q : q = Chain(s)
  OBVIOUS
<1>3. TextPath(s, q) /\ Elements(q) = Elements(Chain(s)) /\ q \in Seq(TxSlot) /\ Len(q) \in Nat
  BY <1>2, PathsThere, PathTypes DEF TextPath
<1>4. PICK head : head = ws[s].txbufs
  OBVIOUS
<1>5. PICK rest : rest = txbuf[head].next
  OBVIOUS
<1>6. /\ ~ws[s].ending /\ head # NULL
      /\ ws' = [ws EXCEPT ![s].txbufs = rest, ![s].ending = (rest = NULL)]
      /\ txbuf' = [txbuf EXCEPT ![head] = ZeroTx]
      /\ tx_used' = tx_used \ {head}
      /\ ret' = 0
      /\ UNCHANGED <<sessions, files, eofiles>>
  BY <1>4, <1>5, Zenon DEF SendHead
<1>7. IsPath(head, txbuf, q, TxSlot)
  BY <1>3, <1>4 DEF TextPath
<1>8. head \in TxSlot
  BY <1>1, <1>4, <1>6 DEF WiSess
<1>9. rest \in TxSlot \cup {NULL} /\ ZeroTx \in TxBuf
  BY <1>1, <1>5, <1>8 DEF TxBuf, ZeroTx
<1>10. /\ ws' \in [Sess -> WiSess] /\ \A t \in sess_used \ {s} : ws'[t] = ws[t]
       /\ ws'[s].next = ws[s].next /\ ws'[s].filelist = ws[s].filelist
       /\ ws'[s].txtail = ws[s].txtail /\ ws'[s].txbufs = rest /\ ws'[s].ending = (rest = NULL)
  BY <1>1, <1>6, <1>9 DEF Types, WiSess
<1>11. txbuf' \in [TxSlot -> TxBuf] /\ \A x \in TxSlot : x # head => txbuf'[x] = txbuf[x]
  BY <1>1, <1>6, <1>9
<1>12. /\ Len(q) # 0 /\ head = q[1] /\ head \in Elements(q)
       /\ IsPath(rest, txbuf', Skipping(q, 1), TxSlot)
       /\ Elements(Skipping(q, 1)) = Elements(q) \ {head}
  <2>1. \A t \in Elements(q) \ {head} : txbuf'[t].next = txbuf[t].next
    BY <1>7, <1>11, PathTypes
  <2>2. /\ Len(q) # 0 /\ head = q[1] /\ head \in Elements(q)
        /\ IsPath(txbuf[head].next, txbuf', Skipping(q, 1), TxSlot)
        /\ Elements(Skipping(q, 1)) = Elements(q) \ {head}
    <3>1. NULL \notin TxSlot /\ head # NULL
      BY <1>6, SlotSets
    <3>2. QED
      BY <1>7, <2>1, <3>1, PathPop
  <2>3. QED
    BY <1>5, <2>2
<1>13. rest # NULL => ws[s].txtail = Skipping(q, 1)[Len(Skipping(q, 1))]
  <2>1. ASSUME rest # NULL
        PROVE  ws[s].txtail = Skipping(q, 1)[Len(Skipping(q, 1))]
    <3>1. Len(Skipping(q, 1)) = Len(q) - 1 /\ (Len(q) # 1 => Skipping(q, 1)[Len(q) - 1] = q[Len(q)])
      BY <1>3, <1>12, LastOfSkipping
    <3>2. Len(Skipping(q, 1)) # 0
      BY <1>12, <2>1 DEF IsPath
    <3>3. Len(q) # 1
      BY <3>1, <3>2
    <3>4. ws[s].txtail = q[Len(q)]
      BY <1>3, <1>4, <1>6 DEF TextPath
    <3>5. QED
      BY <3>1, <3>3, <3>4
  <2>2. QED
    BY <2>1
<1>14. TextPath(s, Skipping(q, 1))'
  <2>1. \A t \in Elements(q) \ {head} : t \in tx_used' /\ txbuf'[t].session = s
    BY <1>3, <1>6, <1>7, <1>11, PathTypes DEF TextPath
  <2>2. QED
    BY <1>10, <1>12, <1>13, <2>1 DEF TextPath
<1>15. Types' /\ OnlyText(s)
  BY <1>1, <1>6, <1>10, <1>11 DEF Types, OnlyText, sessions, files, eofiles
<1>16. \A x \in tx_used' : Len(txbuf'[x].data) \in 1 .. WI_TXBUFSIZE
  BY <1>1, <1>6, <1>11 DEF IInv, TextsOK, Types
<1>17. \A x \in tx_used \ Elements(Chain(s)) : x \in tx_used' /\ txbuf'[x] = txbuf[x]
  BY <1>1, <1>3, <1>6, <1>11, <1>12 DEF Types
<1>18. \A x \in tx_used' : x \in Elements(Skipping(q, 1)) \/ x \in tx_used \ Elements(Chain(s))
  BY <1>3, <1>6, <1>12
<1>19. sess_used' = sess_used
  BY <1>6 DEF sessions
<1>20. TextsOK' /\ Chain(s)' = Skipping(q, 1) /\ \A t \in sess_used \ {s} : Chain(t)' = Chain(t)
  BY <1>10, <1>14, <1>16, <1>17, <1>18, <1>19, OneChain
<1>21. QED
  BY <1>2, <1>6, <1>11, <1>12, <1>15, <1>20

----------------------------------------------------------------------------
(* Files are opened, read and closed *)

\* What a call on the files of session s leaves of its text and of the other sessions.
OnlyFiles(s) ==
    /\ UNCHANGED <<sessions, texts>>
    /\ ws' \in [Sess -> WiSess] /\ \A t \in sess_used \ {s} : ws'[t] = ws[t]
    /\ ws'[s].next = ws[s].next /\ ws'[s].txbufs = ws[s].txbufs
    /\ ws'[s].txtail = ws[s].txtail /\ ws'[s].ending = ws[s].ending

LEMMA OnlyFilesKeeps ==
    ASSUME IInv, NEW s \in sess_used, OnlyFiles(s)
    PROVE  SessionsOK' /\ TextsOK'
<1>1. \A t \in sess_used : /\ ws'[t].next = ws[t].next /\ ws'[t].txbufs = ws[t].txbufs
                           /\ ws'[t].txtail = ws[t].txtail /\ ws'[t].ending = ws[t].ending
  BY DEF OnlyFiles
<1>2. SessionsOK'
  BY <1>1, SessionsFrame DEF OnlyFiles, IInv
<1>3. sess_used' = sess_used
  BY DEF OnlyFiles, sessions
<1>4. TextsOK'
  BY <1>1, <1>3, TextsFrame DEF OnlyFiles, IInv
<1>5. QED
  BY <1>2, <1>4

\* No session but its own has a file in its list.
LEMMA FilesApart ==
    ASSUME IInv, NEW s \in sess_used, NEW t \in sess_used, s # t
    PROVE  Elements(FileList(s)) \cap Elements(FileList(t)) = {}
BY PathsThere DEF FilePath

\* A list that is left alone.
LEMMA FileListKept ==
    ASSUME IInv, NEW t \in sess_used, ws'[t].filelist = ws[t].filelist,
           \A f \in Elements(FileList(t)) : f \in file_used' /\ file'[f] = file[f]
    PROVE  FileList(t)' = FileList(t) /\ \E c : FilePath(t, c)'
<1>1. PICK c : c = FileList(t)
  OBVIOUS
<1>2. FilePath(t, c)
  BY <1>1, PathsThere
<1>3. FilePath(t, c)'
  BY <1>1, <1>2, FileKept
<1>4. QED
  BY <1>1, <1>3, PathsFoundNext

LEMMA FopenFoundCases ==
    ASSUME IInv, NEW s \in sess_used, NEW name, FopenFound(s, name)
    PROVE  /\ OnlyFiles(s) /\ FilesOK' /\ Types' /\ ret' = 0 /\ name \in Name
           /\ \A t \in sess_used \ {s} : FileList(t)' = FileList(t)
           /\ \E f \in FileSlot \ file_used, e \in EoSlot \ eo_used :
                 /\ FileList(s)' = Pushed(f, FileList(s)) /\ file'[f].fd = e
                 /\ eo'[e].emfile = name /\ eo'[e].position = 0
                 /\ \A g \in FileSlot : g # f => file'[g] = file[g]
                 /\ \A x \in EoSlot : x # e => eo'[x] = eo[x]
<1>1. /\ Types /\ s \in Sess /\ ws[s] \in WiSess /\ ws \in [Sess -> WiSess]
      /\ file \in [FileSlot -> WiFile] /\ eo \in [EoSlot -> EoFile]
      /\ file_used \subseteq FileSlot /\ eo_used \subseteq EoSlot
  BY DEF IInv, Types
<1>2. PICK e : e = FirstSlot(EoSlot \ eo_used)
  OBVIOUS
<1>3. PICK f : f = FirstSlot(FileSlot \ file_used)
  OBVIOUS
<1>4. /\ name \in Name /\ eo_used # EoSlot /\ file_used # FileSlot
      /\ eo' = [eo EXCEPT ![e] = [next |-> em_openlist, emfile |-> name, position |-> 0]]
      /\ eo_used' = eo_used \cup {e} /\ em_openlist' = e
      /\ file_used' = file_used \cup {f}
      /\ file' = [file EXCEPT ![f] = [next |-> ws[s].filelist, fd |-> e, sess |-> s]]
      /\ ws' = [ws EXCEPT ![s].filelist = f]
      /\ ret' = 0
      /\ UNCHANGED <<sessions, texts>>
  BY <1>2, <1>3, Zenon DEF FopenFound, Opened, NoEofile
<1>5. e \in EoSlot /\ e \notin eo_used /\ f \in FileSlot /\ f \notin file_used
  <2>1. /\ EoSlot \ eo_used # {} /\ EoSlot \ eo_used \subseteq Nat
        /\ FileSlot \ file_used # {} /\ FileSlot \ file_used \subseteq Nat
    BY <1>1, <1>4, SlotSets
  <2>2. QED
    BY <1>2, <1>3, <2>1, FirstSlotFree
<1>6. /\ eo' \in [EoSlot -> EoFile] /\ eo'[e].next = em_openlist /\ eo'[e].emfile = name
      /\ eo'[e].position = 0 /\ \A x \in EoSlot : x # e => eo'[x] = eo[x]
  BY <1>1, <1>4, <1>5 DEF Types, EoFile
<1>7. /\ file' \in [FileSlot -> WiFile] /\ file'[f].next = ws[s].filelist /\ file'[f].fd = e
      /\ file'[f].sess = s /\ \A g \in FileSlot : g # f => file'[g] = file[g]
  <2>1. [next |-> ws[s].filelist, fd |-> e, sess |-> s] \in WiFile
    BY <1>1, <1>5 DEF WiSess, WiFile
  <2>2. QED
    BY <1>1, <1>4, <1>5, <2>1
<1>8. /\ ws' \in [Sess -> WiSess] /\ \A t \in sess_used \ {s} : ws'[t] = ws[t]
      /\ ws'[s].next = ws[s].next /\ ws'[s].filelist = f /\ ws'[s].ending = ws[s].ending
      /\ ws'[s].txtail = ws[s].txtail /\ ws'[s].txbufs = ws[s].txbufs
  BY <1>1, <1>4, <1>5 DEF Types, WiSess
<1>9. Types' /\ OnlyFiles(s)
  BY <1>1, <1>4, <1>5, <1>6, <1>7, <1>8 DEF Types, OnlyFiles, sessions, texts
<1>10. \E q : OpenPath(q)'
  <2>1. PICK q : OpenPath(q)
    BY DEF IInv, FilesOK
  <2>2. \A x \in Elements(q) : eo'[x].next = eo[x].next
    BY <1>1, <1>5, <1>6, <2>1 DEF OpenPath
  <2>3. IsPath(e, eo', Pushed(e, q), EoSlot) /\ Elements(Pushed(e, q)) = Elements(q) \cup {e}
    <3>1. IsPath(em_openlist, eo, q, EoSlot) /\ e \notin Elements(q) /\ NULL \notin EoSlot
      BY <1>5, <2>1, SlotSets DEF OpenPath
    <3>2. QED
      BY <1>5, <1>6, <2>2, <3>1, PathPush
  <2>4. OpenPath(Pushed(e, q))'
    BY <1>4, <2>1, <2>3 DEF OpenPath
  <2>5. QED
    BY <2>4
<1>11. PICK q : q = FileList(s)
  OBVIOUS
<1>12. FilePath(s, q)
  BY <1>11, PathsThere
<1>13. FilePath(s, Pushed(f, q))'
  <2>1. /\ IsPath(ws[s].filelist, file, q, FileSlot) /\ f \notin Elements(q) /\ NULL \notin FileSlot
        /\ \A g \in Elements(q) : g \in FileSlot /\ g # f /\ g \in file_used /\ file[g].sess = s
    BY <1>1, <1>5, <1>12, SlotSets DEF FilePath
  <2>2. \A g \in Elements(q) : file'[g].next = file[g].next
    BY <1>7, <2>1
  <2>3. IsPath(f, file', Pushed(f, q), FileSlot) /\ Elements(Pushed(f, q)) = Elements(q) \cup {f}
    BY <1>5, <1>7, <2>1, <2>2, PathPush
  <2>4. \A g \in Elements(q) \cup {f} : g \in file_used' /\ file'[g].sess = s
    BY <1>4, <1>7, <2>1
  <2>5. QED
    BY <1>8, <2>3, <2>4 DEF FilePath
<1>14. ASSUME NEW t \in sess_used \ {s}
       PROVE  FileList(t)' = FileList(t) /\ \E c : FilePath(t, c)'
  <2>1. \A g \in Elements(FileList(t)) : g \in file_used
    BY PathsThere DEF FilePath
  <2>2. \A g \in Elements(FileList(t)) : g \in file_used' /\ file'[g] = file[g]
    BY <1>1, <1>4, <1>5, <1>7, <2>1
  <2>3. ws'[t].filelist = ws[t].filelist
    BY <1>8
  <2>4. QED
    BY <2>2, <2>3, FileListKept
<1>15. /\ \A g \in file_used' : file'[g].fd \in eo_used'
       /\ \A g, h \in file_used' : file'[g].fd = file'[h].fd => g = h
       /\ \A x \in eo_used' : \E g \in file_used' : file'[g].fd = x
       /\ \A x \in eo_used' : eo'[x].emfile \in Name /\ eo'[x].position <= Size[eo'[x].emfile]
  <2>1. \A g \in file_used : g \in FileSlot /\ g # f /\ file'[g] = file[g] /\ file[g].fd \in eo_used
    BY <1>1, <1>5, <1>7 DEF IInv, FilesOK
  <2>2. \A x \in eo_used : x \in EoSlot /\ x # e /\ eo'[x] = eo[x]
    BY <1>1, <1>5, <1>6
  <2>3. eo'[e].position <= Size[eo'[e].emfile] /\ eo'[e].emfile \in Name
    <3>1. Size[name] \in Nat
      BY <1>4, FilesAssumption
    <3>2. QED
      BY <1>4, <1>6, <3>1
  <2>4. \A g \in file_used' : file'[g].fd \in eo_used'
    BY <1>4, <1>7, <2>1
  <2>5. \A g, h \in file_used' : file'[g].fd = file'[h].fd => g = h
    BY <1>4, <1>5, <1>7, <2>1 DEF IInv, FilesOK
  <2>6. \A x \in eo_used' : \E g \in file_used' : file'[g].fd = x
    BY <1>4, <1>7, <2>1 DEF IInv, FilesOK
  <2>7. \A x \in eo_used' : eo'[x].emfile \in Name /\ eo'[x].position <= Size[eo'[x].emfile]
    BY <1>4, <2>2, <2>3 DEF IInv, FilesOK
  <2>8. QED
    BY <2>4, <2>5, <2>6, <2>7
<1>16. FilesOK'
  <2>1. sess_used' = sess_used
    BY <1>4 DEF sessions
  <2>2. QED
    BY <1>10, <1>13, <1>14, <1>15, <2>1 DEF FilesOK
<1>17. FileList(s)' = Pushed(f, FileList(s))
  BY <1>11, <1>13, PathsFoundNext
<1>18. QED
  BY <1>4, <1>5, <1>6, <1>7, <1>9, <1>14, <1>16, <1>17

\* wi_fclose of the head of a session's list: one wi_file and its EOFILE go.
LEMMA FcloseFacts ==
    ASSUME IInv, NEW s \in sess_used, NEW f, f = ws[s].filelist, f # NULL, NEW e, e = file[f].fd,
           wi_fclose(f)
    PROVE  /\ f \in file_used /\ f \in FileSlot /\ file[f].sess = s /\ e \in eo_used /\ em_verify(e)
           /\ file_used' = file_used \ {f} /\ file' \in [FileSlot -> WiFile]
           /\ \A g \in FileSlot : g # f => file'[g] = file[g]
           /\ em_openlist' \in EoSlot \cup {NULL}
           /\ eo_used' = eo_used \ {e} /\ eo' \in [EoSlot -> EoFile]
           /\ \A x \in EoSlot : x # e => eo'[x].emfile = eo[x].emfile /\ eo'[x].position = eo[x].position
           /\ \E q : OpenPath(q)'
           /\ \A g \in file_used' : file'[g].fd \in eo_used'
           /\ \A g, h \in file_used' : file'[g].fd = file'[h].fd => g = h
           /\ \A x \in eo_used' : \E g \in file_used' : file'[g].fd = x
           /\ \A x \in eo_used' : eo'[x].emfile \in Name /\ eo'[x].position <= Size[eo'[x].emfile]
<1>1. /\ Types /\ s \in Sess /\ ws[s] \in WiSess /\ ws \in [Sess -> WiSess]
      /\ file \in [FileSlot -> WiFile] /\ eo \in [EoSlot -> EoFile]
      /\ file_used \subseteq FileSlot /\ eo_used \subseteq EoSlot
  BY DEF IInv, Types
<1>2. f \in FileSlot /\ f \in file_used /\ file[f].sess = s /\ e \in eo_used /\ e \in EoSlot
  <2>1. PICK q : FilePath(s, q)
    BY DEF IInv, FilesOK
  <2>2. Len(q) # 0 /\ Len(q) \in Nat /\ f = q[1]
    BY <2>1, PathTypes DEF FilePath, IsPath
  <2>3. f \in Elements(q)
    BY <2>1, <2>2, PathTypes DEF FilePath
  <2>4. f \in file_used /\ file[f].sess = s
    BY <2>1, <2>3 DEF FilePath
  <2>5. QED
    BY <1>1, <2>4 DEF IInv, FilesOK
<1>3. PICK q : OpenPath(q)
  BY DEF IInv, FilesOK
<1>4. em_verify(e) /\ e \in Elements(q)
  BY <1>2, <1>3, PathsFound DEF em_verify, OpenPath
<1>5. /\ em_openlist' = HeadWithout(em_openlist, eo, e)
      /\ eo' = [LinksWithout(em_openlist, eo, EoSlot, e) EXCEPT ![e] = ZeroEo]
      /\ eo_used' = eo_used \ {e}
      /\ file' = [LinksWithout(f, file, FileSlot, f) EXCEPT ![f] = ZeroFile]
      /\ file_used' = file_used \ {f}
  BY <1>2, <1>4, Zenon DEF wi_fclose
<1>6. file' \in [FileSlot -> WiFile] /\ \A g \in FileSlot : g # f => file'[g] = file[g]
  <2>1. LinksWithout(f, file, FileSlot, f) = [g \in FileSlot |-> file[g]]
    BY DEF LinksWithout
  <2>2. ZeroFile \in WiFile
    BY DEF ZeroFile, WiFile
  <2>3. QED
    BY <1>1, <1>5, <2>1, <2>2
<1>7. eo[e].next \in EoSlot \cup {NULL} /\ em_openlist \in EoSlot \cup {NULL}
  BY <1>1, <1>2 DEF EoFile, Types
<1> DEFINE links == LinksWithout(em_openlist, eo, EoSlot, e)
<1>8. \A x \in EoSlot : /\ links[x] \in EoFile /\ links[x].emfile = eo[x].emfile
                        /\ links[x].position = eo[x].position
  <2>1. \A x \in EoSlot : /\ [eo[x] EXCEPT !.next = eo[e].next] \in EoFile
                          /\ [eo[x] EXCEPT !.next = eo[e].next].emfile = eo[x].emfile
                          /\ [eo[x] EXCEPT !.next = eo[e].next].position = eo[x].position
    BY <1>1, <1>7 DEF EoFile
  <2>2. \A x \in EoSlot : links[x] = eo[x] \/ links[x] = [eo[x] EXCEPT !.next = eo[e].next]
    BY DEF LinksWithout
  <2>3. \A x \in EoSlot : eo[x] \in EoFile
    BY <1>1
  <2> HIDE DEF links
  <2>4. QED
    BY <2>1, <2>2, <2>3
<1>9. /\ eo' \in [EoSlot -> EoFile] /\ em_openlist' \in EoSlot \cup {NULL}
      /\ \A x \in EoSlot : x # e => eo'[x] = links[x]
  <2>1. ZeroEo \in EoFile
    BY DEF ZeroEo, EoFile
  <2>2. links = [x \in EoSlot |-> links[x]]
    BY DEF LinksWithout
  <2>3. eo' = [links EXCEPT ![e] = ZeroEo]
    BY <1>5
  <2>4. em_openlist' \in EoSlot \cup {NULL}
    BY <1>5, <1>7 DEF HeadWithout
  <2> HIDE DEF links
  <2>5. QED
    BY <1>8, <2>1, <2>2, <2>3, <2>4
<1>10. \E r : OpenPath(r)'
  <2>1. PICK k \in 1 .. Len(q) : q[k] = e
    BY <1>3, <1>4, PathTypes DEF OpenPath
  <2>2. \A t \in Elements(q) \ {q[k]} :
            eo'[t].next = IF eo[t].next = q[k] THEN eo[q[k]].next ELSE eo[t].next
    <3>1. \A t \in EoSlot : \A v : [eo[t] EXCEPT !.next = v].next = v
      BY <1>1 DEF EoFile
    <3>2. IsPath(em_openlist, eo, q, EoSlot) /\ IsFiniteSet(EoSlot) /\ NULL \notin EoSlot
      BY <1>3, SlotSets DEF OpenPath
    <3>3. ASSUME NEW t \in Elements(q) \ {e}
          PROVE  links[t].next = IF eo[t].next = e THEN eo[e].next ELSE eo[t].next
      BY <1>4, <3>1, <3>2, <3>3, UnlinkedLinks
    <3>4. \A t \in Elements(q) : t \in EoSlot
      BY <3>2, PathTypes
    <3> HIDE DEF links
    <3>5. QED
      BY <1>9, <2>1, <3>3, <3>4
  <2>3. /\ IsPath(HeadWithout(em_openlist, eo, q[k]), eo', Skipping(q, k), EoSlot)
        /\ Elements(Skipping(q, k)) = Elements(q) \ {q[k]}
    <3>1. IsPath(em_openlist, eo, q, EoSlot) /\ NULL \notin EoSlot
      BY <1>3, SlotSets DEF OpenPath
    <3>2. QED
      BY <2>1, <2>2, <3>1, PathUnlink
  <2>4. OpenPath(Skipping(q, k))'
    BY <1>3, <1>5, <2>1, <2>3 DEF OpenPath
  <2>5. QED
    BY <2>4
<1>11. /\ \A g \in file_used' : file'[g].fd \in eo_used'
       /\ \A g, h \in file_used' : file'[g].fd = file'[h].fd => g = h
       /\ \A x \in eo_used' : \E g \in file_used' : file'[g].fd = x
  <2>1. \A g \in file_used' : g \in file_used /\ g # f /\ file'[g] = file[g]
    BY <1>1, <1>5, <1>6
  <2>2. \A g \in file_used : file[g].fd = e => g = f
    BY <1>2 DEF IInv, FilesOK
  <2>3. QED
    BY <1>5, <2>1, <2>2, SMTT(30) DEF IInv, FilesOK
<1>12. /\ \A x \in EoSlot : x # e => eo'[x].emfile = eo[x].emfile /\ eo'[x].position = eo[x].position
       /\ \A x \in eo_used' : eo'[x].emfile \in Name /\ eo'[x].position <= Size[eo'[x].emfile]
  <2> HIDE DEF links
  <2>1. \A x \in EoSlot : x # e => eo'[x].emfile = eo[x].emfile /\ eo'[x].position = eo[x].position
    BY <1>8, <1>9
  <2>2. QED
    BY <1>1, <1>5, <2>1 DEF IInv, FilesOK
<1>13. QED
  BY <1>2, <1>4, <1>5, <1>6, <1>9, <1>10, <1>11, <1>12

LEMMA CloseHeadCases ==
    ASSUME IInv, NEW s \in sess_used, CloseHead(s)
    PROVE  /\ OnlyFiles(s) /\ FilesOK' /\ Types' /\ ret' = 0
           /\ \A t \in sess_used \ {s} : FileList(t)' = FileList(t)
           /\ Len(FileList(s)) # 0 /\ FileList(s)' = Skipping(FileList(s), 1)
           /\ \A g \in FileSlot : g # FileList(s)[1] => file'[g] = file[g]
           /\ \A x \in EoSlot : x # file[FileList(s)[1]].fd =>
                 eo'[x].emfile = eo[x].emfile /\ eo'[x].position = eo[x].position
<1>1. /\ Types /\ s \in Sess /\ ws[s] \in WiSess /\ ws \in [Sess -> WiSess]
      /\ file \in [FileSlot -> WiFile] /\ file_used \subseteq FileSlot
  BY DEF IInv, Types
<1>2. PICK f : f = ws[s].filelist
  OBVIOUS
<1>3. PICK e : e = file[f].fd
  OBVIOUS
<1>4. /\ f # NULL /\ wi_fclose(f)
      /\ ws' = [ws EXCEPT ![s].filelist = HeadWithout(@, file, f)]
      /\ ret' = (IF em_verify(e) THEN 0 ELSE WI_E_BADFILE)
      /\ UNCHANGED <<sessions, texts>>
  BY <1>2, <1>3, Zenon DEF CloseHead
<1>5. /\ f \in file_used /\ f \in FileSlot /\ file[f].sess = s /\ e \in eo_used /\ em_verify(e)
      /\ file_used' = file_used \ {f} /\ file' \in [FileSlot -> WiFile]
      /\ \A g \in FileSlot : g # f => file'[g] = file[g]
      /\ em_openlist' \in EoSlot \cup {NULL}
      /\ eo_used' = eo_used \ {e} /\ eo' \in [EoSlot -> EoFile]
      /\ \A x \in EoSlot : x # e => eo'[x].emfile = eo[x].emfile /\ eo'[x].position = eo[x].position
      /\ \E q : OpenPath(q)'
      /\ \A g \in file_used' : file'[g].fd \in eo_used'
      /\ \A g, h \in file_used' : file'[g].fd = file'[h].fd => g = h
      /\ \A x \in eo_used' : \E g \in file_used' : file'[g].fd = x
      /\ \A x \in eo_used' : eo'[x].emfile \in Name /\ eo'[x].position <= Size[eo'[x].emfile]
  BY <1>2, <1>3, <1>4, FcloseFacts
<1>6. HeadWithout(ws[s].filelist, file, f) = file[f].next /\ file[f].next \in FileSlot \cup {NULL}
  BY <1>1, <1>2, <1>5 DEF HeadWithout, WiFile
<1>7. /\ ws' \in [Sess -> WiSess] /\ \A t \in sess_used \ {s} : ws'[t] = ws[t]
      /\ ws'[s].next = ws[s].next /\ ws'[s].filelist = file[f].next /\ ws'[s].ending = ws[s].ending
      /\ ws'[s].txtail = ws[s].txtail /\ ws'[s].txbufs = ws[s].txbufs
  BY <1>1, <1>4, <1>6 DEF Types, WiSess
<1>8. Types' /\ OnlyFiles(s)
  BY <1>1, <1>4, <1>5, <1>7 DEF Types, OnlyFiles, sessions, texts
<1>9. PICK q : q = FileList(s)
  OBVIOUS
<1>10. FilePath(s, q) /\ Elements(q) = Elements(FileList(s))
  BY <1>9, PathsThere
<1>11. /\ Len(q) # 0 /\ f = q[1] /\ f \in Elements(q)
       /\ IsPath(file[f].next, file', Skipping(q, 1), FileSlot)
       /\ Elements(Skipping(q, 1)) = Elements(q) \ {f}
  <2>1. IsPath(f, file, q, FileSlot) /\ NULL \notin FileSlot /\ f # NULL
    BY <1>2, <1>4, <1>10, SlotSets DEF FilePath
  <2>2. \A g \in Elements(q) \ {f} : file'[g].next = file[g].next
    BY <1>5, <2>1, PathTypes
  <2>3. QED
    BY <2>1, <2>2, PathPop
<1>12. FilePath(s, Skipping(q, 1))'
  <2>1. \A g \in Elements(q) \ {f} : g \in file_used' /\ file'[g].sess = s
    BY <1>1, <1>5, <1>10 DEF FilePath
  <2>2. QED
    BY <1>7, <1>11, <2>1 DEF FilePath
<1>13. ASSUME NEW t \in sess_used \ {s}
       PROVE  FileList(t)' = FileList(t) /\ \E c : FilePath(t, c)'
  <2>1. \A g \in Elements(FileList(t)) : g \in file_used /\ g # f
    BY <1>10, <1>11, PathsThere, FilesApart DEF FilePath
  <2>2. \A g \in Elements(FileList(t)) : g \in file_used' /\ file'[g] = file[g]
    BY <1>1, <1>5, <2>1
  <2>3. ws'[t].filelist = ws[t].filelist
    BY <1>7
  <2>4. QED
    BY <2>2, <2>3, FileListKept
<1>14. FilesOK'
  <2>1. sess_used' = sess_used
    BY <1>4 DEF sessions
  <2>2. QED
    BY <1>5, <1>12, <1>13, <2>1 DEF FilesOK
<1>15. FileList(s)' = Skipping(FileList(s), 1)
  BY <1>9, <1>12, PathsFoundNext
<1>16. QED
  BY <1>3, <1>4, <1>5, <1>8, <1>9, <1>11, <1>13, <1>14, <1>15

\* A read moves the position of the head's EOFILE, within the file.
LEMMA ReadKeeps ==
    ASSUME IInv, NEW s \in sess_used, NEW e \in eo_used, NEW n \in Nat,
           eo' = [eo EXCEPT ![e].position = n], n <= Size[eo[e].emfile],
           UNCHANGED <<sessions, ws, texts, files, em_openlist, eo_used>>
    PROVE  /\ OnlyFiles(s) /\ FilesOK' /\ Types'
           /\ \A t \in sess_used : FileList(t)' = FileList(t)
           /\ \A x \in EoSlot : eo'[x].emfile = eo[x].emfile
           /\ \A x \in EoSlot : x # e => eo'[x].position = eo[x].position
           /\ eo'[e].position = n
<1>1. Types /\ eo \in [EoSlot -> EoFile] /\ e \in EoSlot /\ eo_used \subseteq EoSlot
  BY DEF IInv, Types
<1>2. /\ eo' \in [EoSlot -> EoFile] /\ eo'[e].position = n
      /\ \A x \in EoSlot : eo'[x].next = eo[x].next /\ eo'[x].emfile = eo[x].emfile
      /\ \A x \in EoSlot : x # e => eo'[x].position = eo[x].position
  BY <1>1 DEF EoFile
<1>3. Types' /\ OnlyFiles(s)
  BY <1>1, <1>2 DEF Types, OnlyFiles, sessions, texts, files
<1>4. \E q : OpenPath(q)'
  <2>1. PICK q : OpenPath(q)
    BY DEF IInv, FilesOK
  <2>2. \A x \in Elements(q) : eo'[x].next = eo[x].next
    BY <1>1, <1>2, <2>1 DEF OpenPath
  <2>3. IsPath(em_openlist, eo', q, EoSlot)
    BY <2>1, <2>2, PathFrame DEF OpenPath
  <2>4. OpenPath(q)'
    BY <2>1, <2>3 DEF OpenPath
  <2>5. QED
    BY <2>4
<1>5. \A x \in eo_used' : eo'[x].emfile \in Name /\ eo'[x].position <= Size[eo'[x].emfile]
  BY <1>1, <1>2 DEF IInv, FilesOK
<1>6. sess_used' = sess_used /\ eo_used' = eo_used
  BY DEF sessions
<1>7. \A t, q : FilePath(t, q) => FilePath(t, q)'
  BY DEF FilePath, files
<1>8. \A t \in sess_used' : \E q : FilePath(t, q)'
  BY <1>6, <1>7 DEF IInv, FilesOK
<1>9. FilesOK'
  BY <1>4, <1>5, <1>6, <1>8 DEF IInv, FilesOK, files
<1>10. QED
  BY <1>2, <1>3, <1>9 DEF FileList, files

LEMMA HeadFile ==
    ASSUME IInv, NEW s \in sess_used, ws[s].filelist # NULL
    PROVE  /\ Len(FileList(s)) # 0 /\ ws[s].filelist = FileList(s)[1]
           /\ ws[s].filelist \in file_used /\ file[ws[s].filelist].fd \in eo_used
           /\ em_verify(file[ws[s].filelist].fd)
<1>1. PICK q : q = FileList(s)
  OBVIOUS
<1>2. FilePath(s, q)
  BY <1>1, PathsThere
<1>3. Len(q) # 0 /\ Len(q) \in Nat /\ ws[s].filelist = q[1]
  BY <1>2, PathTypes DEF FilePath, IsPath
<1>4. ws[s].filelist \in Elements(q)
  BY <1>2, <1>3, PathTypes DEF FilePath
<1>5. ws[s].filelist \in file_used /\ file[ws[s].filelist].fd \in eo_used
  BY <1>2, <1>4 DEF FilePath, IInv, FilesOK
<1>6. Elements(OpenList) = eo_used
  BY PathsThere DEF OpenPath
<1>7. QED
  BY <1>1, <1>3, <1>5, <1>6 DEF em_verify

LEMMA ReadHeadCases ==
    ASSUME IInv, NEW s \in sess_used, NEW n \in Chunk, ReadHead(s, n)
    PROVE  /\ OnlyFiles(s) /\ FilesOK' /\ Types'
           /\ \A t \in sess_used : FileList(t)' = FileList(t)
           /\ UNCHANGED files
           /\ \A x \in EoSlot : eo'[x].emfile = eo[x].emfile
           /\ Len(FileList(s)) # 0
           /\ LET e == file[FileList(s)[1]].fd
              IN  /\ e \in eo_used /\ ret' = em_fread(e, n)
                  /\ eo'[e].position = eo[e].position + em_fread(e, n)
                  /\ \A x \in EoSlot : x # e => eo'[x].position = eo[x].position
<1>1. PICK e : e = file[ws[s].filelist].fd
  OBVIOUS
<1>2. ws[s].filelist # NULL
  BY Zenon DEF ReadHead
<1>3. /\ Len(FileList(s)) # 0 /\ e = file[FileList(s)[1]].fd /\ e \in eo_used /\ em_verify(e)
  BY <1>1, <1>2, HeadFile
<1>4. PICK m : m = em_fread(e, n)
  OBVIOUS
<1>5. /\ ret' = m /\ eo' = [eo EXCEPT ![e].position = @ + m]
      /\ UNCHANGED <<sessions, ws, texts, files, em_openlist, eo_used>>
  BY <1>1, <1>3, <1>4, Zenon DEF ReadHead
<1>6. /\ e \in EoSlot /\ eo \in [EoSlot -> EoFile] /\ eo[e].position \in Nat
      /\ Size[eo[e].emfile] \in Nat /\ eo[e].position <= Size[eo[e].emfile] /\ n \in Nat
  BY <1>3, FilesAssumption DEF IInv, Types, FilesOK, EoFile
<1>7. m \in Nat /\ eo[e].position + m <= Size[eo[e].emfile]
  BY <1>4, <1>6 DEF em_fread
<1>8. PICK p : p = eo[e].position + m
  OBVIOUS
<1>9. eo' = [eo EXCEPT ![e].position = p] /\ p \in Nat /\ p <= Size[eo[e].emfile]
  BY <1>5, <1>6, <1>7, <1>8
<1>10. /\ OnlyFiles(s) /\ FilesOK' /\ Types'
       /\ \A t \in sess_used : FileList(t)' = FileList(t)
       /\ \A x \in EoSlot : eo'[x].emfile = eo[x].emfile
       /\ \A x \in EoSlot : x # e => eo'[x].position = eo[x].position
       /\ eo'[e].position = p
  <2>1. UNCHANGED <<sessions, ws, texts, files, em_openlist, eo_used>> /\ e \in eo_used
    BY <1>3, <1>5
  <2>2. QED
    BY <1>9, <2>1, ReadKeeps
<1>11. QED
  BY <1>3, <1>4, <1>5, <1>8, <1>10

LEMMA FileLengthCases ==
    ASSUME IInv, NEW s \in sess_used, FileLength(s)
    PROVE  /\ UNCHANGED <<sessions, ws, texts, files, eofiles>>
           /\ Len(FileList(s)) # 0 /\ ret' = Size[eo[file[FileList(s)[1]].fd].emfile]
<1>1. PICK e : e = file[ws[s].filelist].fd
  OBVIOUS
<1>2. ws[s].filelist # NULL
  BY Zenon DEF FileLength
<1>3. /\ Len(FileList(s)) # 0 /\ e = file[FileList(s)[1]].fd /\ e \in eo_used
  BY <1>1, <1>2, HeadFile
<1>4. PICK size : size = Size[eo[e].emfile]
  OBVIOUS
<1>5. /\ e \in EoSlot /\ eo \in [EoSlot -> EoFile] /\ eo[e] \in EoFile /\ eo[e].position \in Nat
      /\ size \in Nat /\ eo[e].position <= size
  BY <1>3, <1>4, FilesAssumption DEF IInv, Types, FilesOK, EoFile
<1>6. em_fseek(size, eo[e].position, 0, "SEEK_END") = size
  BY <1>5 DEF em_fseek
<1>7. em_fseek(size, size, eo[e].position, "SEEK_SET") = eo[e].position
  BY <1>5 DEF em_fseek
<1>8. /\ ret' = em_fseek(size, eo[e].position, 0, "SEEK_END")
      /\ eo' = [eo EXCEPT ![e].position =
                  em_fseek(size, em_fseek(size, eo[e].position, 0, "SEEK_END"), @, "SEEK_SET")]
      /\ UNCHANGED <<sessions, ws, texts, files, em_openlist, eo_used>>
  BY <1>1, <1>4, Zenon DEF FileLength
<1>9. ret' = size /\ em_openlist' = em_openlist /\ eo_used' = eo_used
  BY <1>6, <1>8
<1>10. eo' = eo
  BY <1>5, <1>6, <1>7, <1>8 DEF EoFile
<1>11. QED
  BY <1>3, <1>4, <1>8, <1>9, <1>10 DEF eofiles

----------------------------------------------------------------------------
(* A session is deleted *)

LEMMA DelsessCases ==
    ASSUME IInv, NEW s \in sess_used, wi_delsess(s)
    PROVE  /\ IInv' /\ ret' = 0 /\ sess_used' = sess_used \ {s}
           /\ \A t \in sess_used \ {s} :
                 /\ Chain(t)' = Chain(t) /\ FileList(t)' = FileList(t)
                 /\ \A x \in Elements(Chain(t)) : txbuf'[x] = txbuf[x]
                 /\ \A g \in Elements(FileList(t)) :
                       /\ file'[g] = file[g]
                       /\ eo'[file[g].fd].emfile = eo[file[g].fd].emfile
                       /\ eo'[file[g].fd].position = eo[file[g].fd].position
<1>1. /\ Types /\ s \in Sess /\ ws \in [Sess -> WiSess] /\ sess_used \subseteq Sess
      /\ txbuf \in [TxSlot -> TxBuf] /\ tx_used \subseteq TxSlot
      /\ file \in [FileSlot -> WiFile] /\ file_used \subseteq FileSlot
      /\ eo \in [EoSlot -> EoFile] /\ eo_used \subseteq EoSlot
  BY DEF IInv, Types
<1>2. PICK list : list = ListOf(wi_sessions, ws, Sess)
  OBVIOUS
<1>3. SessPath(list) /\ IsPath(wi_sessions, ws, list, Sess) /\ Elements(list) = sess_used
  BY <1>2, PathsThere DEF SessPath
<1> DEFINE links == LinksWithout(wi_sessions, ws, Sess, s)
<1>4. PICK c : c = Chain(s)
  OBVIOUS
<1>5. /\ wi_sessions' = HeadWithout(wi_sessions, ws, s)
      /\ ws' = [links EXCEPT ![s] = ZeroSess]
      /\ sess_used' = sess_used \ {s}
      /\ tx_used' = tx_used \ Elements(c)
      /\ txbuf' = [t \in TxSlot |-> IF t \in Elements(c) THEN ZeroTx ELSE txbuf[t]]
      /\ (IF ws[s].filelist = NULL THEN UNCHANGED <<files, eofiles>> ELSE wi_fclose(ws[s].filelist))
      /\ ret' = 0
  BY <1>4, Zenon DEF wi_delsess
<1>6. ws[s].next \in Sess \cup {NULL} /\ wi_sessions \in Sess \cup {NULL}
  BY <1>1 DEF Types, WiSess
<1>7. \A t \in Sess : /\ links[t] \in WiSess
                      /\ links[t].txbufs = ws[t].txbufs /\ links[t].txtail = ws[t].txtail
                      /\ links[t].filelist = ws[t].filelist /\ links[t].ending = ws[t].ending
  <2>1. \A t \in Sess : LET r == [ws[t] EXCEPT !.next = ws[s].next]
                        IN  /\ r \in WiSess
                            /\ r.txbufs = ws[t].txbufs /\ r.txtail = ws[t].txtail
                            /\ r.filelist = ws[t].filelist /\ r.ending = ws[t].ending
    BY <1>1, <1>6 DEF WiSess
  <2>2. \A t \in Sess : links[t] = ws[t] \/ links[t] = [ws[t] EXCEPT !.next = ws[s].next]
    BY DEF LinksWithout
  <2>3. \A t \in Sess : ws[t] \in WiSess
    BY <1>1
  <2> HIDE DEF links
  <2>4. QED
    BY <2>1, <2>2, <2>3
<1>8. /\ ws' \in [Sess -> WiSess] /\ wi_sessions' \in Sess \cup {NULL}
      /\ \A t \in Sess : t # s => ws'[t] = links[t]
  <2>1. ZeroSess \in WiSess
    BY DEF ZeroSess, WiSess
  <2>2. links = [t \in Sess |-> links[t]]
    BY DEF LinksWithout
  <2>3. wi_sessions' \in Sess \cup {NULL}
    BY <1>5, <1>6 DEF HeadWithout
  <2> HIDE DEF links
  <2>4. QED
    BY <1>5, <1>7, <2>1, <2>2, <2>3
<1>9. \A t \in sess_used \ {s} : /\ t \in Sess
                                 /\ ws'[t].txbufs = ws[t].txbufs /\ ws'[t].txtail = ws[t].txtail
                                 /\ ws'[t].filelist = ws[t].filelist /\ ws'[t].ending = ws[t].ending
  <2> HIDE DEF links
  <2>1. QED
    BY <1>1, <1>7, <1>8
<1>10. SessionsOK'
  <2>1. PICK k \in 1 .. Len(list) : list[k] = s
    BY <1>3, PathTypes
  <2>2. \A t \in Elements(list) \ {list[k]} :
            ws'[t].next = IF ws[t].next = list[k] THEN ws[list[k]].next ELSE ws[t].next
    <3>1. \A t \in Sess : \A v : [ws[t] EXCEPT !.next = v].next = v
      BY <1>1 DEF WiSess
    <3>2. IsFiniteSet(Sess) /\ NULL \notin Sess
      BY SlotSets
    <3>3. ASSUME NEW t \in Elements(list) \ {s}
          PROVE  links[t].next = IF ws[t].next = s THEN ws[s].next ELSE ws[t].next
      BY <1>3, <3>1, <3>2, <3>3, UnlinkedLinks
    <3>4. \A t \in Elements(list) : t \in Sess
      BY <1>1, <1>3
    <3> HIDE DEF links
    <3>5. QED
      BY <1>8, <2>1, <3>3, <3>4
  <2>3. /\ IsPath(HeadWithout(wi_sessions, ws, list[k]), ws', Skipping(list, k), Sess)
        /\ Elements(Skipping(list, k)) = Elements(list) \ {list[k]}
    <3>1. NULL \notin Sess
      BY SlotSets
    <3>2. QED
      BY <1>3, <2>1, <2>2, <3>1, PathUnlink
  <2>4. SessPath(Skipping(list, k))'
    BY <1>3, <1>5, <2>1, <2>3 DEF SessPath
  <2>5. QED
    BY <2>4 DEF SessionsOK
<1>11. /\ txbuf' \in [TxSlot -> TxBuf] /\ tx_used' \subseteq TxSlot
       /\ \A x \in TxSlot : x \notin Elements(c) => txbuf'[x] = txbuf[x]
  <2>1. ZeroTx \in TxBuf
    BY DEF ZeroTx, TxBuf
  <2>2. QED
    BY <1>1, <1>5, <2>1
<1>12. ASSUME NEW t \in sess_used \ {s}
       PROVE  /\ Chain(t)' = Chain(t) /\ \E q : TextPath(t, q)'
              /\ \A x \in Elements(Chain(t)) : txbuf'[x] = txbuf[x]
  <2>1. PICK q : q = Chain(t)
    OBVIOUS
  <2>2. TextPath(t, q) /\ Elements(q) \cap Elements(c) = {}
    BY <1>4, <2>1, PathsThere, ChainsApart
  <2>3. \A x \in Elements(q) : x \in tx_used /\ x \in TxSlot /\ x \notin Elements(c)
    BY <1>1, <2>2 DEF TextPath
  <2>4. \A x \in Elements(q) : x \in tx_used' /\ txbuf'[x] = txbuf[x]
    BY <1>5, <1>11, <2>3
  <2>5. TextPath(t, q)'
    BY <1>9, <2>2, <2>4, TextKept
  <2>6. QED
    BY <2>1, <2>4, <2>5, PathsFoundNext
<1>13. TextsOK'
  <2>1. \A x \in tx_used' : \E t \in sess_used' : x \in Elements(Chain(t)')
    <3>1. \A x \in tx_used : \E t \in sess_used : x \in Elements(Chain(t))
      BY DEF IInv, TextsOK
    <3>2. ASSUME NEW x \in tx_used'
          PROVE  \E t \in sess_used' : x \in Elements(Chain(t)')
      <4>1. PICK t \in sess_used : x \in Elements(Chain(t))
        BY <1>5, <3>1
      <4>2. t # s
        BY <1>4, <1>5, <4>1
      <4>3. QED
        BY <1>5, <1>12, <4>1, <4>2
    <3>3. QED
      BY <3>2
  <2>2. \A x \in tx_used' : Len(txbuf'[x].data) \in 1 .. WI_TXBUFSIZE
    BY <1>1, <1>5, <1>11 DEF IInv, TextsOK
  <2>3. \A t \in sess_used' : \E q : TextPath(t, q)'
    BY <1>5, <1>12
  <2>4. QED
    BY <2>1, <2>2, <2>3 DEF TextsOK
<1>14. /\ file_used' \subseteq FileSlot /\ file' \in [FileSlot -> WiFile]
       /\ em_openlist' \in EoSlot \cup {NULL}
       /\ eo_used' \subseteq EoSlot /\ eo' \in [EoSlot -> EoFile]
       /\ \E q : OpenPath(q)'
       /\ \A g \in file_used' : file'[g].fd \in eo_used'
       /\ \A g, h \in file_used' : file'[g].fd = file'[h].fd => g = h
       /\ \A x \in eo_used' : \E g \in file_used' : file'[g].fd = x
       /\ \A x \in eo_used' : eo'[x].emfile \in Name /\ eo'[x].position <= Size[eo'[x].emfile]
       /\ \A g \in file_used : g \notin Elements(FileList(s)) =>
             /\ g \in file_used' /\ file'[g] = file[g]
             /\ eo'[file[g].fd].emfile = eo[file[g].fd].emfile
             /\ eo'[file[g].fd].position = eo[file[g].fd].position
  <2>1. CASE ws[s].filelist = NULL
    <3>1. UNCHANGED <<file_used, file, em_openlist, eo_used, eo>>
      BY <1>5, <2>1 DEF files, eofiles
    <3>2. \A q : OpenPath(q) => OpenPath(q)'
      BY <3>1 DEF OpenPath
    <3>3. em_openlist \in EoSlot \cup {NULL}
      BY <1>1 DEF Types
    <3>4. QED
      BY <1>1, <3>1, <3>2, <3>3 DEF IInv, FilesOK
  <2>2. CASE ws[s].filelist # NULL
    <3>1. PICK f : f = ws[s].filelist
      OBVIOUS
    <3>2. PICK e : e = file[f].fd
      OBVIOUS
    <3>3. wi_fclose(f) /\ f # NULL
      BY <1>5, <2>2, <3>1
    <3>4. /\ f \in file_used /\ f \in FileSlot /\ e \in eo_used
          /\ file_used' = file_used \ {f} /\ file' \in [FileSlot -> WiFile]
          /\ \A g \in FileSlot : g # f => file'[g] = file[g]
          /\ em_openlist' \in EoSlot \cup {NULL}
          /\ eo_used' = eo_used \ {e} /\ eo' \in [EoSlot -> EoFile]
          /\ \A x \in EoSlot : x # e => eo'[x].emfile = eo[x].emfile /\ eo'[x].position = eo[x].position
          /\ \E q : OpenPath(q)'
          /\ \A g \in file_used' : file'[g].fd \in eo_used'
          /\ \A g, h \in file_used' : file'[g].fd = file'[h].fd => g = h
          /\ \A x \in eo_used' : \E g \in file_used' : file'[g].fd = x
          /\ \A x \in eo_used' : eo'[x].emfile \in Name /\ eo'[x].position <= Size[eo'[x].emfile]
      BY <3>1, <3>2, <3>3, FcloseFacts
    <3>5. f \in Elements(FileList(s))
      <4>1. Len(FileList(s)) # 0 /\ f = FileList(s)[1]
        BY <3>1, <3>3, HeadFile
      <4>2. FilePath(s, FileList(s))
        BY PathsThere
      <4>3. QED
        BY <4>1, <4>2, PathTypes DEF FilePath
    <3>6. ASSUME NEW g \in file_used, g \notin Elements(FileList(s))
          PROVE  /\ g \in file_used' /\ file'[g] = file[g]
                 /\ eo'[file[g].fd].emfile = eo[file[g].fd].emfile
                 /\ eo'[file[g].fd].position = eo[file[g].fd].position
      <4>1. g # f /\ g \in FileSlot
        BY <1>1, <3>5, <3>6
      <4>2. file[g].fd # e /\ file[g].fd \in EoSlot
        BY <1>1, <3>2, <3>4, <4>1 DEF IInv, FilesOK
      <4>3. QED
        BY <3>4, <4>1, <4>2
    <3>7. QED
      BY <1>1, <3>4, <3>6
  <2>3. QED
    BY <2>1, <2>2
<1>15. ASSUME NEW t \in sess_used \ {s}
       PROVE  /\ FileList(t)' = FileList(t) /\ \E q : FilePath(t, q)'
              /\ \A g \in Elements(FileList(t)) :
                    /\ file'[g] = file[g]
                    /\ eo'[file[g].fd].emfile = eo[file[g].fd].emfile
                    /\ eo'[file[g].fd].position = eo[file[g].fd].position
  <2>1. \A g \in Elements(FileList(t)) : g \in file_used /\ g \notin Elements(FileList(s))
    BY PathsThere, FilesApart DEF FilePath
  <2>2. \A g \in Elements(FileList(t)) :
            /\ g \in file_used' /\ file'[g] = file[g]
            /\ eo'[file[g].fd].emfile = eo[file[g].fd].emfile
            /\ eo'[file[g].fd].position = eo[file[g].fd].position
    BY <1>14, <2>1
  <2>3. ws'[t].filelist = ws[t].filelist
    BY <1>9
  <2>4. QED
    BY <2>2, <2>3, FileListKept
<1>16. FilesOK'
  <2>1. \A t \in sess_used' : \E q : FilePath(t, q)'
    BY <1>5, <1>15
  <2>2. QED
    BY <1>14, <2>1 DEF FilesOK
<1>17. Types'
  BY <1>1, <1>5, <1>8, <1>11, <1>14 DEF Types
<1>18. QED
  BY <1>5, <1>10, <1>12, <1>13, <1>15, <1>16, <1>17 DEF IInv

----------------------------------------------------------------------------
(* Every step *)

\* A call that changes none of the tables.
LEMMA RefusalKeeps ==
    ASSUME IInv, UNCHANGED <<sessions, ws, texts, files, eofiles>>
    PROVE  IInv'
<1>1. Types'
  BY DEF IInv, Types, sessions, texts, files, eofiles
<1>2. sess_used' = sess_used
  BY DEF sessions
<1>3. QED
  BY <1>1, <1>2, SessionsFrame, TextsFrame, FilesFrame DEF IInv

LEMMA EndKeeps ==
    ASSUME IInv, NEW s \in sess_used, End(s)
    PROVE  IInv' /\ \A t \in Sess : /\ ws'[t].next = ws[t].next /\ ws'[t].txbufs = ws[t].txbufs
                                    /\ ws'[t].filelist = ws[t].filelist
<1>1. Types /\ s \in Sess /\ ws \in [Sess -> WiSess] /\ sess_used \subseteq Sess
  BY DEF IInv, Types
<1>2. /\ ws' = [ws EXCEPT ![s].ending = TRUE]
      /\ UNCHANGED <<sessions, texts, files, eofiles>>
  BY Zenon DEF End
<1>3. /\ ws' \in [Sess -> WiSess]
      /\ \A t \in Sess : /\ ws'[t].next = ws[t].next /\ ws'[t].txbufs = ws[t].txbufs
                         /\ ws'[t].txtail = ws[t].txtail /\ ws'[t].filelist = ws[t].filelist
                         /\ ws'[t].ending = ws[t].ending \/ ws'[t].ending
  BY <1>1, <1>2 DEF WiSess
<1>4. Types'
  BY <1>1, <1>2, <1>3 DEF Types, sessions, texts, files, eofiles
<1>5. sess_used' = sess_used
  BY <1>2 DEF sessions
<1>6. SessionsOK'
  BY <1>1, <1>2, <1>3, SessionsFrame DEF IInv
<1>7. TextsOK'
  BY <1>1, <1>2, <1>3, <1>5, TextsFrame DEF IInv
<1>8. FilesOK'
  BY <1>1, <1>2, <1>3, <1>5, FilesFrame DEF IInv
<1>9. QED
  BY <1>3, <1>4, <1>6, <1>7, <1>8 DEF IInv

LEMMA CallKeeps ==
    ASSUME IInv, NEW s \in sess_used, Call(s)
    PROVE  IInv'
<1>1. CASE End(s)
  BY <1>1, EndKeeps
<1>2. ASSUME NEW unit \in Unit, wi_printf(s, unit) \/ CopyChar(s, unit)
      PROVE  IInv'
  <2>1. PutOutcome(s, unit)
    BY <1>2, PutCases
  <2>2. OnlyText(s) /\ TextsOK' /\ Types'
    BY <2>1 DEF PutOutcome
  <2>3. QED
    BY <2>2, OnlyTextKeeps DEF IInv
<1>3. CASE SendHead(s)
  <2>1. OnlyText(s) /\ TextsOK' /\ Types'
    BY <1>3, SendHeadCases
  <2>2. QED
    BY <2>1, OnlyTextKeeps DEF IInv
<1>4. ASSUME NEW name \in Name \cup {NoName}, wi_fopen(s, name)
      PROVE  IInv'
  <2>1. CASE FopenNone(s, name) \/ FopenNoSlot(s, name)
    BY <2>1, RefusalKeeps DEF FopenNone, FopenNoSlot
  <2>2. CASE FopenFound(s, name)
    <3>1. OnlyFiles(s) /\ FilesOK' /\ Types'
      BY <2>2, FopenFoundCases
    <3>2. QED
      BY <3>1, OnlyFilesKeeps DEF IInv
  <2>3. QED
    BY <1>4, <2>1, <2>2 DEF wi_fopen
<1>5. CASE CloseHead(s)
  <2>1. OnlyFiles(s) /\ FilesOK' /\ Types'
    BY <1>5, CloseHeadCases
  <2>2. QED
    BY <2>1, OnlyFilesKeeps DEF IInv
<1>6. ASSUME NEW n \in Chunk, ReadHead(s, n)
      PROVE  IInv'
  <2>1. OnlyFiles(s) /\ FilesOK' /\ Types'
    BY <1>6, ReadHeadCases
  <2>2. QED
    BY <2>1, OnlyFilesKeeps DEF IInv
<1>7. CASE FileLength(s)
  BY <1>7, FileLengthCases, RefusalKeeps
<1>8. CASE wi_delsess(s)
  BY <1>8, DelsessCases
<1>9. QED
  BY <1>1, <1>2, <1>3, <1>4, <1>5, <1>6, <1>7, <1>8 DEF Call

LEMMA NextKeepsIInv ==
    ASSUME IInv, [Next]_vars
    PROVE  IInv'
<1>1. CASE wi_newsess
  BY <1>1, NewsessKeepsIInv
<1>2. ASSUME NEW s \in sess_used, Call(s)
      PROVE  IInv'
  BY <1>2, CallKeeps
<1>3. CASE UNCHANGED vars
  BY <1>3, RefusalKeeps DEF vars, sessions, texts, files, eofiles
<1>4. QED
  BY <1>1, <1>2, <1>3 DEF Next

LEMMA Reachable == Spec => []IInv
<1>1. Init => IInv
  BY InitIInv
<1>2. IInv /\ [Next]_vars => IInv'
  BY NextKeepsIInv
<1>3. QED
  BY <1>1, <1>2, PTL DEF Spec

\* Whatever calls came before, a slot holds what belongs in it, a txbuf has a unit and no
\* more than fit, and no file was read past its end.
THEOREM TypeCorrect == Spec => []TypeOK
<1>1. IInv => TypeOK
  BY DEF IInv, Types, TextsOK, FilesOK, TypeOK
<1>2. QED
  BY <1>1, Reachable, PTL

\* No txbuf is lost and none is chained twice, and the tail that wi_txalloc links behind is
\* the last of its session's chain although nothing resets it.
THEOREM ChainsSafe == Spec => []ChainsOK
<1>1. ASSUME IInv
      PROVE  ChainsOK
  <2>1. \A s \in sess_used : TextPath(s, Chain(s))
    BY <1>1, PathsThere
  <2>2. tx_used = UNION {Elements(Chain(s)) : s \in sess_used}
    BY <1>1, <2>1 DEF IInv, TextsOK, TextPath
  <2>3. \A s \in sess_used : \A i \in DOMAIN Chain(s) : txbuf[Chain(s)[i]].session = s
    BY <2>1, PathTypes DEF TextPath
  <2>4. \A s \in sess_used : ws[s].txbufs # NULL => ws[s].txtail = Chain(s)[Len(Chain(s))]
    BY <2>1 DEF TextPath
  <2>5. QED
    BY <2>2, <2>3, <2>4 DEF ChainsOK
<1>2. QED
  BY <1>1, Reachable, PTL

\* Every wi_file has an EOFILE of its own in em_openlist and every EOFILE has its wi_file,
\* the files of deleted sessions included.
THEOREM FilesSafe == Spec => []FilesPaired
<1>1. ASSUME IInv
      PROVE  FilesPaired
  <2>1. OpenPath(OpenList) /\ \A s \in sess_used : FilePath(s, FileList(s))
    BY <1>1, PathsThere
  <2>2. {file[f].fd : f \in file_used} = eo_used
    BY <1>1 DEF IInv, FilesOK
  <2>3. Cardinality(file_used) = Cardinality(eo_used)
    <3>1. IsFiniteSet(file_used)
      BY <1>1, SlotSets, FS_Subset DEF IInv, Types
    <3>2. [f \in file_used |-> file[f].fd] \in Bijection(file_used, eo_used)
      BY <1>1 DEF IInv, FilesOK, Bijection, Injection, Surjection, IsInjective
    <3>3. ExistsBijection(file_used, eo_used)
      BY <3>2 DEF ExistsBijection
    <3>4. QED
      BY <3>1, <3>3, FS_Bijection
  <2>4. QED
    BY <2>1, <2>2, <2>3 DEF FilesPaired, OpenPath, FilePath
<1>2. QED
  BY <1>1, Reachable, PTL

----------------------------------------------------------------------------
(* The text of a chain *)

\* f[i] is the text of the first i txbufs of q.
Joins(d, q, f) == f = [i \in 0 .. Len(q) |-> IF i = 0 THEN <<>> ELSE f[i - 1] \o d[q[i]].data]
Upto(d, q) == CHOOSE f : Joins(d, q, f)
TextIn(d, q) == Upto(d, q)[Len(q)]

Joined(a, b) == a \o b

LEMMA TextIsTextIn == \A s : Text(s) = TextIn(txbuf, Chain(s))
BY Zenon DEF Text, TextIn, Upto, Joins

LEMMA JoinsUnique ==
    ASSUME NEW d, NEW q, Len(q) \in Nat, NEW f, NEW g, Joins(d, q, f), Joins(d, q, g)
    PROVE  f = g
<1> DEFINE T == {i \in 0 .. Len(q) : f[i] # g[i]}
<1>1. /\ f = [i \in 0 .. Len(q) |-> f[i]] /\ g = [i \in 0 .. Len(q) |-> g[i]]
      /\ \A i \in 0 .. Len(q) : /\ f[i] = IF i = 0 THEN <<>> ELSE f[i - 1] \o d[q[i]].data
                                /\ g[i] = IF i = 0 THEN <<>> ELSE g[i - 1] \o d[q[i]].data
  BY DEF Joins
<1>2. CASE T = {}
  BY <1>1, <1>2
<1>3. CASE T # {}
  <2>1. T \subseteq Nat
    OBVIOUS
  <2>2. PICK m \in T : \A i \in T : m <= i
    BY <1>3, <2>1, LeastNat, Zenon
  <2>3. m \in 0 .. Len(q) /\ f[m] # g[m]
    OBVIOUS
  <2>4. m # 0 => m - 1 \in 0 .. Len(q) /\ ~(m <= m - 1)
    BY <2>3
  <2>5. m # 0 => f[m - 1] = g[m - 1]
    BY <2>2, <2>4
  <2>6. QED
    BY <1>1, <2>3, <2>5, Zenon
<1>4. QED
  BY <1>2, <1>3

LEMMA JoinsExists ==
    ASSUME NEW d, NEW q, Len(q) \in Nat
    PROVE  \E f : Joins(d, q, f)
<1> DEFINE Part(n, f) == f = [i \in 0 .. n |-> IF i = 0 THEN <<>> ELSE f[i - 1] \o d[q[i]].data]
           T == {n \in 0 .. Len(q) : ~ \E f : Part(n, f)}
<1>1. CASE T = {}
  <2>1. Len(q) \in 0 .. Len(q)
    OBVIOUS
  <2>2. \E f : Part(Len(q), f)
    BY <1>1, <2>1
  <2>3. QED
    BY <2>2 DEF Joins
<1>2. CASE T # {}
  <2>1. T \subseteq Nat
    <3>1. T \subseteq 0 .. Len(q)
      BY Zenon
    <3>2. 0 .. Len(q) \subseteq Nat
      OBVIOUS
    <3>3. QED
      BY <3>1, <3>2, Zenon
  <2>2. PICK m \in T : \A i \in T : m <= i
    BY <1>2, <2>1, LeastNat, Zenon
  <2>3. m \in 0 .. Len(q) /\ ~ \E f : Part(m, f)
    OBVIOUS
  <2>4. CASE m = 0
    <3> DEFINE g == [i \in 0 .. m |-> <<>>]
    <3>1. \A i \in 0 .. m : i = 0
      BY <2>4
    <3>2. Part(m, g)
      BY <3>1
    <3>3. QED
      BY <2>3, <3>2
  <2>5. CASE m # 0
    <3>1. m - 1 \in 0 .. Len(q) /\ ~(m <= m - 1)
      BY <2>3, <2>5
    <3>2. PICK f : Part(m - 1, f)
      BY <2>2, <3>1
    <3> DEFINE g == [i \in 0 .. m |-> IF i = m THEN f[m - 1] \o d[q[m]].data ELSE f[i]]
    <3>3. \A i \in 0 .. m - 1 : f[i] = IF i = 0 THEN <<>> ELSE f[i - 1] \o d[q[i]].data
      BY <3>2
    <3>4. ASSUME NEW i \in 0 .. m
          PROVE  g[i] = IF i = 0 THEN <<>> ELSE g[i - 1] \o d[q[i]].data
      <4>1. CASE i = m
        <5>1. i - 1 \in 0 .. m /\ i - 1 # m
          BY <2>3, <2>5, <4>1
        <5>2. g[i - 1] = f[m - 1] /\ g[i] = f[m - 1] \o d[q[m]].data
          BY <4>1, <5>1
        <5> HIDE DEF g
        <5>3. QED
          BY <2>5, <4>1, <5>2
      <4>2. CASE i # m
        <5>1. i \in 0 .. m - 1 /\ (i # 0 => i - 1 \in 0 .. m /\ i - 1 # m)
          BY <2>3, <4>2
        <5>2. g[i] = f[i] /\ (i # 0 => g[i - 1] = f[i - 1])
          BY <4>2, <5>1
        <5> HIDE DEF g
        <5>3. QED
          BY <3>3, <5>1, <5>2
      <4>3. QED
        BY <4>1, <4>2
    <3>5. g = [i \in 0 .. m |-> g[i]]
      OBVIOUS
    <3>6. Part(m, g)
      <4> HIDE DEF g
      <4>1. QED
        BY <3>4, <3>5
    <3>7. QED
      BY <2>3, <3>6
  <2>6. QED
    BY <2>4, <2>5
<1>3. QED
  BY <1>1, <1>2

LEMMA UptoJoins ==
    ASSUME NEW d, NEW q, Len(q) \in Nat
    PROVE  /\ Joins(d, q, Upto(d, q)) /\ Upto(d, q)[0] = <<>>
           /\ \A i \in 1 .. Len(q) : Upto(d, q)[i] = Upto(d, q)[i - 1] \o d[q[i]].data
           /\ Upto(d, q) = [i \in 0 .. Len(q) |-> Upto(d, q)[i]]
<1>1. Joins(d, q, Upto(d, q))
  BY JoinsExists, Zenon DEF Upto
<1> DEFINE f == Upto(d, q)
<1>2. f = [i \in 0 .. Len(q) |-> IF i = 0 THEN <<>> ELSE f[i - 1] \o d[q[i]].data]
  BY <1>1 DEF Joins
<1> HIDE DEF f
<1>3. f[0] = <<>> /\ f = [i \in 0 .. Len(q) |-> f[i]]
  BY <1>2
<1>4. \A i \in 1 .. Len(q) : f[i] = f[i - 1] \o d[q[i]].data
  <2> TAKE i \in 1 .. Len(q)
  <2>1. i \in 0 .. Len(q) /\ i # 0
    OBVIOUS
  <2>2. f[i] = IF i = 0 THEN <<>> ELSE f[i - 1] \o d[q[i]].data
    BY <1>2, <2>1, Zenon
  <2>3. QED
    BY <2>1, <2>2, Zenon
<1>5. QED
  BY <1>1, <1>3, <1>4 DEF f

LEMMA UptoType ==
    ASSUME NEW d, NEW q, Len(q) \in Nat, NEW U, \A i \in 1 .. Len(q) : d[q[i]].data \in Seq(U)
    PROVE  \A i \in 0 .. Len(q) : Upto(d, q)[i] \in Seq(U)
<1>0. /\ Joins(d, q, Upto(d, q)) /\ Upto(d, q)[0] = <<>>
      /\ \A i \in 1 .. Len(q) : Upto(d, q)[i] = Upto(d, q)[i - 1] \o d[q[i]].data
      /\ Upto(d, q) = [i \in 0 .. Len(q) |-> Upto(d, q)[i]]
  BY UptoJoins, Zenon
<1>1. PICK f : /\ f = Upto(d, q) /\ f[0] = <<>>
               /\ \A i \in 1 .. Len(q) : f[i] = f[i - 1] \o d[q[i]].data
  BY <1>0, Zenon
<1> DEFINE T == {i \in 0 .. Len(q) : f[i] \notin Seq(U)}
<1>2. CASE T # {}
  <2>1. T \subseteq Nat
    <3>1. T \subseteq 0 .. Len(q)
      BY Zenon
    <3>2. 0 .. Len(q) \subseteq Nat
      OBVIOUS
    <3>3. QED
      BY <3>1, <3>2, Zenon
  <2>2. PICK m \in T : \A i \in T : m <= i
    BY <1>2, <2>1, LeastNat, Zenon
  <2>3. m \in 0 .. Len(q) /\ f[m] \notin Seq(U)
    BY Zenon
  <2>4. m # 0
    <3>1. <<>> \in Seq(U)
      BY EmptySeq
    <3>2. QED
      BY <1>1, <2>3, <3>1, Zenon
  <2>5. m \in 1 .. Len(q) /\ m - 1 \in 0 .. Len(q) /\ ~(m <= m - 1)
    BY <2>3, <2>4
  <2>6. f[m - 1] \in Seq(U)
    BY <2>2, <2>5
  <2>7. f[m] = f[m - 1] \o d[q[m]].data /\ d[q[m]].data \in Seq(U)
    BY <1>1, <2>5
  <2>8. QED
    BY <2>3, <2>6, <2>7, ConcatProperties
<1>3. CASE T = {}
  BY <1>1, <1>3
<1>4. QED
  BY <1>2, <1>3

LEMMA TextInType ==
    ASSUME NEW d, NEW q, Len(q) \in Nat, NEW U, \A i \in 1 .. Len(q) : d[q[i]].data \in Seq(U)
    PROVE  TextIn(d, q) \in Seq(U) /\ (Len(q) = 0 => TextIn(d, q) = <<>>)
<1>1. Len(q) \in 0 .. Len(q)
  OBVIOUS
<1>2. QED
  BY <1>1, UptoType, UptoJoins DEF TextIn

\* The text is that of the txbufs in the chain.
LEMMA TextSame ==
    ASSUME NEW d, NEW after, NEW q, Len(q) \in Nat,
           \A i \in 1 .. Len(q) : after[q[i]].data = d[q[i]].data
    PROVE  TextIn(after, q) = TextIn(d, q)
<1>0. /\ Joins(d, q, Upto(d, q)) /\ Upto(d, q)[0] = <<>>
      /\ \A i \in 1 .. Len(q) : Upto(d, q)[i] = Upto(d, q)[i - 1] \o d[q[i]].data
      /\ Upto(d, q) = [i \in 0 .. Len(q) |-> Upto(d, q)[i]]
  BY UptoJoins, Zenon
<1>1. PICK f : /\ f = Upto(d, q) /\ f[0] = <<>> /\ f = [i \in 0 .. Len(q) |-> f[i]]
               /\ \A i \in 1 .. Len(q) : f[i] = f[i - 1] \o d[q[i]].data
  BY <1>0, Zenon
<1>2. ASSUME NEW i \in 0 .. Len(q)
      PROVE  f[i] = IF i = 0 THEN <<>> ELSE f[i - 1] \o after[q[i]].data
  <2>1. i # 0 => i \in 1 .. Len(q)
    OBVIOUS
  <2>2. QED
    BY <1>1, <2>1
<1>3. Joins(after, q, f)
  BY <1>1, <1>2 DEF Joins
<1>4. Upto(after, q) = f
  BY <1>3, UptoJoins, JoinsUnique
<1>5. QED
  BY <1>1, <1>4 DEF TextIn

\* A txbuf behind the last one.
OneMore(d, after, q, r) ==
    /\ Len(q) \in Nat /\ Len(r) = Len(q) + 1
    /\ \A i \in 1 .. Len(q) : r[i] = q[i] /\ after[q[i]].data = d[q[i]].data

LEMMA TextAppend ==
    ASSUME NEW d, NEW after, NEW q, NEW r, OneMore(d, after, q, r)
    PROVE  TextIn(after, r) = Joined(TextIn(d, q), after[r[Len(r)]].data)
<1>e. /\ Len(q) \in Nat /\ Len(r) = Len(q) + 1
      /\ \A i \in 1 .. Len(q) : r[i] = q[i] /\ after[q[i]].data = d[q[i]].data
  BY DEF OneMore
<1>0. /\ Joins(d, q, Upto(d, q)) /\ Upto(d, q)[0] = <<>>
      /\ \A i \in 1 .. Len(q) : Upto(d, q)[i] = Upto(d, q)[i - 1] \o d[q[i]].data
      /\ Upto(d, q) = [i \in 0 .. Len(q) |-> Upto(d, q)[i]]
  BY <1>e, UptoJoins, Zenon
<1>1. PICK f : /\ f = Upto(d, q) /\ f[0] = <<>> /\ f = [i \in 0 .. Len(q) |-> f[i]]
               /\ \A i \in 1 .. Len(q) : f[i] = f[i - 1] \o d[q[i]].data
  BY <1>0, Zenon
<1> DEFINE g == [i \in 0 .. Len(r) |-> IF i = Len(r) THEN f[Len(q)] \o after[r[Len(r)]].data ELSE f[i]]
<1>2. ASSUME NEW i \in 0 .. Len(r)
      PROVE  g[i] = IF i = 0 THEN <<>> ELSE g[i - 1] \o after[r[i]].data
  <2>1. CASE i = Len(r)
    <3>1. i # 0 /\ i - 1 \in 0 .. Len(r) /\ i - 1 # Len(r) /\ i - 1 = Len(q)
      BY <1>e, <2>1
    <3>2. g[i - 1] = f[Len(q)] /\ g[i] = f[Len(q)] \o after[r[Len(r)]].data
      BY <2>1, <3>1
    <3> HIDE DEF g
    <3>3. QED
      BY <2>1, <3>1, <3>2
  <2>2. CASE i # Len(r)
    <3>1. i # 0 => i \in 1 .. Len(q) /\ i - 1 \in 0 .. Len(r) /\ i - 1 # Len(r)
      BY <1>e, <2>2
    <3>2. g[i] = f[i] /\ (i # 0 => g[i - 1] = f[i - 1])
      BY <2>2, <3>1
    <3> HIDE DEF g
    <3>3. QED
      BY <1>e, <1>1, <3>1, <3>2, ZenonT(60)
  <2>3. QED
    BY <2>1, <2>2
<1>3. Joins(after, r, g)
  <2>1. g = [i \in 0 .. Len(r) |-> g[i]]
    OBVIOUS
  <2> HIDE DEF g
  <2>2. QED
    BY <1>2, <2>1 DEF Joins
<1>4. Upto(after, r) = g /\ g[Len(r)] = f[Len(q)] \o after[r[Len(r)]].data
  <2>1. Len(r) \in Nat /\ Len(r) \in 0 .. Len(r)
    BY <1>e
  <2>2. g[Len(r)] = f[Len(q)] \o after[r[Len(r)]].data
    BY <2>1
  <2> HIDE DEF g
  <2>3. QED
    BY <1>3, <2>1, <2>2, UptoJoins, JoinsUnique
<1> HIDE DEF g
<1>5. QED
  BY <1>1, <1>4 DEF TextIn, Joined

\* A unit in the last txbuf.
LEMMA TextGrows ==
    ASSUME NEW d, NEW after, NEW q, Len(q) \in Nat, Len(q) # 0, NEW U, NEW unit \in U,
           \A i \in 1 .. Len(q) : d[q[i]].data \in Seq(U),
           \A i \in 1 .. Len(q) :
               after[q[i]].data = IF i = Len(q) THEN Append(d[q[i]].data, unit) ELSE d[q[i]].data
    PROVE  TextIn(after, q) = Append(TextIn(d, q), unit)
<1>0. /\ Joins(d, q, Upto(d, q)) /\ Upto(d, q)[0] = <<>>
      /\ \A i \in 1 .. Len(q) : Upto(d, q)[i] = Upto(d, q)[i - 1] \o d[q[i]].data
      /\ Upto(d, q) = [i \in 0 .. Len(q) |-> Upto(d, q)[i]]
  BY UptoJoins, Zenon
<1>1. PICK f : /\ f = Upto(d, q) /\ f[0] = <<>> /\ f = [i \in 0 .. Len(q) |-> f[i]]
               /\ \A i \in 1 .. Len(q) : f[i] = f[i - 1] \o d[q[i]].data
  BY <1>0, Zenon
<1>2. \A i \in 0 .. Len(q) : f[i] \in Seq(U)
  <2>1. \A i \in 0 .. Len(q) : Upto(d, q)[i] \in Seq(U)
    BY UptoType, Zenon
  <2>2. QED
    BY <1>1, <2>1, Zenon
<1> DEFINE g == [i \in 0 .. Len(q) |-> IF i = Len(q) THEN Append(f[i], unit) ELSE f[i]]
<1>3. ASSUME NEW i \in 0 .. Len(q)
      PROVE  g[i] = IF i = 0 THEN <<>> ELSE g[i - 1] \o after[q[i]].data
  <2>1. CASE i = Len(q)
    <3>1. i # 0 /\ i \in 1 .. Len(q) /\ i - 1 \in 0 .. Len(q) /\ i - 1 # Len(q)
      BY <2>1
    <3>2. g[i - 1] = f[i - 1] /\ g[i] = Append(f[i], unit)
      BY <2>1, <3>1
    <3>3. f[i] = f[i - 1] \o d[q[i]].data /\ after[q[i]].data = Append(d[q[i]].data, unit)
      BY <1>1, <2>1, <3>1
    <3>4. f[i - 1] \in Seq(U) /\ d[q[i]].data \in Seq(U) /\ <<unit>> \in Seq(U)
      BY <1>2, <3>1
    <3>5. \A a, b \in Seq(U) : Append(a \o b, unit) = a \o Append(b, unit)
      <4>1. ASSUME NEW a \in Seq(U), NEW b \in Seq(U)
            PROVE  Append(a \o b, unit) = a \o Append(b, unit)
        <5>1. a \o b \in Seq(U) /\ <<unit>> \in Seq(U)
          BY ConcatProperties
        <5>2. Append(a \o b, unit) = (a \o b) \o <<unit>> /\ Append(b, unit) = b \o <<unit>>
          BY <5>1, AppendIsConcat
        <5>3. QED
          BY <5>1, <5>2, ConcatAssociative
      <4>2. QED
        BY <4>1
    <3> HIDE DEF g
    <3>6. QED
      BY <3>1, <3>2, <3>3, <3>4, <3>5
  <2>2. CASE i # Len(q)
    <3>1. i # 0 => i \in 1 .. Len(q) /\ i - 1 \in 0 .. Len(q) /\ i - 1 # Len(q)
      BY <2>2
    <3>2. g[i] = f[i] /\ (i # 0 => g[i - 1] = f[i - 1])
      BY <2>2, <3>1
    <3> HIDE DEF g
    <3>3. QED
      BY <1>1, <2>2, <3>1, <3>2
  <2>3. QED
    BY <2>1, <2>2
<1>4. Joins(after, q, g)
  <2>1. g = [i \in 0 .. Len(q) |-> g[i]]
    OBVIOUS
  <2> HIDE DEF g
  <2>2. QED
    BY <1>3, <2>1 DEF Joins
<1>5. g[Len(q)] = Append(f[Len(q)], unit)
  OBVIOUS
<1> HIDE DEF g
<1>6. Upto(after, q) = g
  BY <1>4, UptoJoins, JoinsUnique
<1>7. QED
  BY <1>1, <1>5, <1>6 DEF TextIn

\* The text of the first txbuf is in front.
OneLess(d, after, q, r, U) ==
    /\ Len(q) \in Nat /\ Len(q) # 0 /\ Len(r) = Len(q) - 1
    /\ \A i \in 1 .. Len(q) : d[q[i]].data \in Seq(U)
    /\ \A i \in 1 .. Len(r) : r[i] = q[i + 1] /\ after[r[i]].data = d[r[i]].data

LEMMA TextPop ==
    ASSUME NEW d, NEW after, NEW q, NEW r, NEW U, OneLess(d, after, q, r, U)
    PROVE  TextIn(d, q) = Joined(d[q[1]].data, TextIn(after, r))
<1>d. /\ Len(q) \in Nat /\ Len(q) # 0 /\ Len(r) = Len(q) - 1
      /\ \A i \in 1 .. Len(q) : d[q[i]].data \in Seq(U)
      /\ \A i \in 1 .. Len(r) : r[i] = q[i + 1] /\ after[r[i]].data = d[r[i]].data
  BY DEF OneLess
<1>e. Len(r) \in Nat /\ \A i \in 1 .. Len(r) : i + 1 \in 1 .. Len(q)
  BY <1>d
<1>a. PICK a : a = d[q[1]].data
  OBVIOUS
<1>0. /\ Joins(after, r, Upto(after, r)) /\ Upto(after, r)[0] = <<>>
      /\ \A i \in 1 .. Len(r) : Upto(after, r)[i] = Upto(after, r)[i - 1] \o after[r[i]].data
      /\ Upto(after, r) = [i \in 0 .. Len(r) |-> Upto(after, r)[i]]
  BY <1>e, UptoJoins, Zenon
<1>1. PICK f : /\ f = Upto(after, r) /\ f[0] = <<>> /\ f = [i \in 0 .. Len(r) |-> f[i]]
               /\ \A i \in 1 .. Len(r) : f[i] = f[i - 1] \o after[r[i]].data
  BY <1>0, Zenon
<1> DEFINE g == [i \in 0 .. Len(q) |-> IF i = 0 THEN <<>> ELSE a \o f[i - 1]]
<1>2. a \in Seq(U) /\ \A i \in 1 .. Len(r) : after[r[i]].data \in Seq(U)
  <2>1. 1 \in 1 .. Len(q)
    BY <1>d
  <2>2. QED
    BY <1>a, <1>d, <1>e, <2>1
<1>4. \A i \in 0 .. Len(r) : f[i] \in Seq(U)
  <2>1. \A i \in 0 .. Len(r) : Upto(after, r)[i] \in Seq(U)
    BY <1>e, <1>2, UptoType, Zenon
  <2>2. QED
    BY <1>1, <2>1, Zenon
<1>5. ASSUME NEW i \in 0 .. Len(q)
      PROVE  g[i] = IF i = 0 THEN <<>> ELSE g[i - 1] \o d[q[i]].data
  <2>1. CASE i = 0
    BY <2>1
  <2>2. CASE i = 1
    <3>1. 0 \in 0 .. Len(q) /\ i - 1 = 0
      BY <1>d, <2>2
    <3>2. g[i] = a \o f[0] /\ g[i - 1] = <<>>
      BY <2>2, <3>1
    <3>3. a \o f[0] = a /\ <<>> \o a = a
      BY <1>1, <1>2, ConcatEmptySeq
    <3>4. d[q[i]].data = a
      BY <1>a, <2>2
    <3> HIDE DEF g
    <3>5. QED
      BY <2>2, <3>2, <3>3, <3>4
  <2>3. CASE i # 0 /\ i # 1
    <3>1. i - 1 \in 1 .. Len(r) /\ i - 1 \in 0 .. Len(q) /\ i - 1 # 0 /\ (i - 1) + 1 = i
          /\ (i - 1) - 1 \in 0 .. Len(r)
      BY <1>d, <1>e, <2>3
    <3>2. g[i] = a \o f[i - 1] /\ g[i - 1] = a \o f[(i - 1) - 1]
      BY <2>3, <3>1
    <3>3. f[i - 1] = f[(i - 1) - 1] \o after[r[i - 1]].data
      BY <1>1, <3>1
    <3>4. after[r[i - 1]].data = d[q[i]].data
      BY <1>d, <3>1
    <3>5. (a \o f[(i - 1) - 1]) \o d[q[i]].data = a \o (f[(i - 1) - 1] \o d[q[i]].data)
      <4>1. f[(i - 1) - 1] \in Seq(U) /\ d[q[i]].data \in Seq(U)
        BY <1>d, <1>4, <3>1
      <4>2. PICK x, y : x = f[(i - 1) - 1] /\ y = d[q[i]].data
        OBVIOUS
      <4>3. (a \o x) \o y = a \o (x \o y)
        <5>1. x \in Seq(U) /\ y \in Seq(U)
          BY <4>1, <4>2
        <5> HIDE DEF g
        <5>2. QED
          BY <1>2, <5>1, ConcatAssociative
      <4>4. QED
        BY <4>2, <4>3
    <3> HIDE DEF g
    <3>6. QED
      BY <2>3, <3>2, <3>3, <3>4, <3>5
  <2>4. QED
    BY <2>1, <2>2, <2>3
<1>6. Joins(d, q, g)
  <2>1. g = [i \in 0 .. Len(q) |-> g[i]]
    OBVIOUS
  <2> HIDE DEF g
  <2>2. QED
    BY <1>5, <2>1 DEF Joins
<1>7. g[Len(q)] = a \o f[Len(r)]
  BY <1>d
<1> HIDE DEF g
<1>8. Upto(d, q) = g
  BY <1>d, <1>6, UptoJoins, JoinsUnique
<1>9. QED
  BY <1>1, <1>7, <1>8, <1>a DEF TextIn, Joined

----------------------------------------------------------------------------
(* The steps of SessObjects *)

\* The refinement mapping of Objects.
Queues == [s \in Sess |-> IF s \in sess_used THEN Text(s) ELSE <<>>]
Stacks == [s \in Sess |-> IF s \in sess_used THEN OpenFiles(s) ELSE <<>>]

LEMMA Refuses ==
    ASSUME ret' \in {WI_E_MEMORY, WI_E_NOFILE}, Linked' = Linked, Queues' = Queues, Stacks' = Stacks
    PROVE  Objects!Next
BY DEF Queues, Stacks, Objects!Next, Objects!Refuse

LEMMA News ==
    ASSUME NEW s \in Sess, s \notin Linked, ret' = 0,
           Linked' = Linked \cup {s}, Queues' = Queues, Stacks' = Stacks
    PROVE  Objects!Next
BY DEF Queues, Stacks, Objects!Next, Objects!New

LEMMA Puts ==
    ASSUME NEW s \in Sess, s \in Linked, NEW unit \in Unit, ret' = 0, Linked' = Linked,
           Queues' = [Queues EXCEPT ![s] = Append(@, unit)], Stacks' = Stacks
    PROVE  Objects!Next
BY DEF Queues, Stacks, Objects!Next, Objects!Put

LEMMA Sends ==
    ASSUME NEW s \in Sess, s \in Linked, ret' = 0, Linked' = Linked,
           NEW n \in 1 .. Len(Queues[s]),
           Queues' = [Queues EXCEPT ![s] = SubSeq(@, n + 1, Len(@))], Stacks' = Stacks
    PROVE  Objects!Next
BY DEF Queues, Stacks, Objects!Next, Objects!Send

LEMMA Opens ==
    ASSUME NEW s \in Sess, s \in Linked, NEW name \in Name, ret' = 0, Linked' = Linked,
           Queues' = Queues, Stacks' = [Stacks EXCEPT ![s] = <<[name |-> name, pos |-> 0]>> \o @]
    PROVE  Objects!Next
BY DEF Queues, Stacks, Objects!Next, Objects!Open

\* What Objects!Read reads.
Got(s, n) ==
    IF Stacks[s][1].name \in CodeFile THEN 0
    ELSE IF n <= Size[Stacks[s][1].name] - Stacks[s][1].pos THEN n
         ELSE Size[Stacks[s][1].name] - Stacks[s][1].pos

LEMMA Reads ==
    ASSUME NEW s \in Sess, s \in Linked, NEW n \in Chunk, Stacks[s] # <<>>,
           ret' = Got(s, n), Linked' = Linked, Queues' = Queues,
           Stacks' = [Stacks EXCEPT ![s][1].pos = @ + Got(s, n)]
    PROVE  Objects!Next
BY DEF Got, Queues, Stacks, Objects!Next, Objects!Read, Objects!Least

LEMMA Lengths ==
    ASSUME NEW s \in Sess, s \in Linked, Stacks[s] # <<>>, ret' = Size[Stacks[s][1].name],
           Linked' = Linked, Queues' = Queues, Stacks' = Stacks
    PROVE  Objects!Next
BY DEF Queues, Stacks, Objects!Next, Objects!Length

LEMMA Closes ==
    ASSUME NEW s \in Sess, s \in Linked, Stacks[s] # <<>>, ret' = 0, Linked' = Linked,
           Queues' = Queues, Stacks' = [Stacks EXCEPT ![s] = Tail(@)]
    PROVE  Objects!Next
BY DEF Queues, Stacks, Objects!Next, Objects!Close

LEMMA Deletes ==
    ASSUME NEW s \in Sess, s \in Linked, ret' = 0, Linked' = Linked \ {s},
           Queues' = [Queues EXCEPT ![s] = <<>>], Stacks' = [Stacks EXCEPT ![s] = <<>>]
    PROVE  Objects!Next
BY DEF Queues, Stacks, Objects!Next, Objects!Delete

\* The list of sessions holds those in use after a step, too.
LEMMA LinkedNext ==
    ASSUME IInv'
    PROVE  Linked' = sess_used'
<1>1. PICK q : SessPath(q)'
  BY DEF IInv, SessionsOK
<1>2. ListOf(wi_sessions', ws', Sess) = q /\ Elements(q) = sess_used'
  BY <1>1, PathsFoundNext DEF SessPath
<1>3. QED
  BY <1>2 DEF Linked

----------------------------------------------------------------------------
(* The text and the open files of a session *)

LEMMA ChainTypes ==
    ASSUME IInv, NEW s \in sess_used
    PROVE  /\ Len(Chain(s)) \in Nat /\ Chain(s) \in Seq(TxSlot)
           /\ Elements(Chain(s)) = {Chain(s)[i] : i \in 1 .. Len(Chain(s))}
           /\ \A i \in 1 .. Len(Chain(s)) :
                 /\ Chain(s)[i] \in TxSlot /\ Chain(s)[i] \in Elements(Chain(s)) /\ Chain(s)[i] \in tx_used
                 /\ txbuf[Chain(s)[i]].data \in Seq(Unit)
                 /\ Len(txbuf[Chain(s)[i]].data) \in 1 .. WI_TXBUFSIZE
           /\ \A i, j \in 1 .. Len(Chain(s)) : Chain(s)[i] = Chain(s)[j] => i = j
<1>1. TextPath(s, Chain(s))
  BY PathsThere
<1>2. PICK q : q = Chain(s)
  OBVIOUS
<1>3. IsPath(ws[s].txbufs, txbuf, q, TxSlot) /\ \A t \in Elements(q) : t \in tx_used
  BY <1>1, <1>2 DEF TextPath
<1>4. /\ Len(q) \in Nat /\ q \in Seq(TxSlot) /\ Elements(q) = {q[i] : i \in 1 .. Len(q)}
      /\ \A i \in 1 .. Len(q) : q[i] \in TxSlot /\ q[i] \in Elements(q) /\ q[i] \in tx_used
      /\ \A i, j \in 1 .. Len(q) : q[i] = q[j] => i = j
  <2>1. \A i, j \in 1 .. Len(q) : q[i] = q[j] => i = j
    BY <1>3 DEF IsPath
  <2>2. QED
    BY <1>3, <2>1, PathTypes
<1>5. \A t \in tx_used : txbuf[t].data \in Seq(Unit) /\ Len(txbuf[t].data) \in 1 .. WI_TXBUFSIZE
  <2>1. \A t \in tx_used : txbuf[t] \in TxBuf
    BY DEF IInv, Types
  <2>2. QED
    BY <2>1 DEF IInv, TextsOK, TxBuf
<1>6. QED
  BY <1>2, <1>4, <1>5

LEMMA FileTypes ==
    ASSUME IInv, NEW s \in sess_used
    PROVE  /\ Len(FileList(s)) \in Nat /\ FileList(s) \in Seq(FileSlot)
           /\ Elements(FileList(s)) = {FileList(s)[i] : i \in 1 .. Len(FileList(s))}
           /\ \A i \in 1 .. Len(FileList(s)) :
                 /\ FileList(s)[i] \in FileSlot /\ FileList(s)[i] \in Elements(FileList(s))
                 /\ FileList(s)[i] \in file_used
                 /\ file[FileList(s)[i]].fd \in eo_used /\ file[FileList(s)[i]].fd \in EoSlot
                 /\ eo[file[FileList(s)[i]].fd] \in EoFile
           /\ \A i, j \in 1 .. Len(FileList(s)) : FileList(s)[i] = FileList(s)[j] => i = j
           /\ \A i, j \in 1 .. Len(FileList(s)) :
                 file[FileList(s)[i]].fd = file[FileList(s)[j]].fd => i = j
<1>1. FilePath(s, FileList(s))
  BY PathsThere
<1>2. PICK q : q = FileList(s)
  OBVIOUS
<1>3. IsPath(ws[s].filelist, file, q, FileSlot) /\ \A f \in Elements(q) : f \in file_used
  BY <1>1, <1>2 DEF FilePath
<1>4. /\ Len(q) \in Nat /\ q \in Seq(FileSlot) /\ Elements(q) = {q[i] : i \in 1 .. Len(q)}
      /\ \A i \in 1 .. Len(q) : q[i] \in FileSlot /\ q[i] \in Elements(q) /\ q[i] \in file_used
      /\ \A i, j \in 1 .. Len(q) : q[i] = q[j] => i = j
  <2>1. \A i, j \in 1 .. Len(q) : q[i] = q[j] => i = j
    BY <1>3 DEF IsPath
  <2>2. QED
    BY <1>3, <2>1, PathTypes
<1>5. /\ \A f \in file_used : file[f].fd \in eo_used /\ file[f].fd \in EoSlot /\ eo[file[f].fd] \in EoFile
      /\ \A f, g \in file_used : file[f].fd = file[g].fd => f = g
  BY DEF IInv, Types, FilesOK
<1>6. QED
  BY <1>2, <1>4, <1>5

LEMMA TextNext == \A s : Text(s)' = TextIn(txbuf', Chain(s)')
BY Zenon DEF Text, TextIn, Upto, Joins

\* The files open in the list q.
FilesIn(wifile, eofile, q) ==
    [i \in 1 .. Len(q) |-> [name |-> eofile[wifile[q[i]].fd].emfile, pos |-> eofile[wifile[q[i]].fd].position]]

LEMMA FilesAre == \A s : /\ OpenFiles(s) = FilesIn(file, eo, FileList(s))
                         /\ OpenFiles(s)' = FilesIn(file', eo', FileList(s)')
BY Zenon DEF OpenFiles, FilesIn

LEMMA SameText ==
    ASSUME IInv, NEW s \in sess_used, Chain(s)' = Chain(s),
           \A x \in Elements(Chain(s)) : txbuf'[x].data = txbuf[x].data
    PROVE  Text(s)' = Text(s)
<1>1. PICK q : q = Chain(s)
  OBVIOUS
<1>2. Len(q) \in Nat /\ \A i \in 1 .. Len(q) : txbuf'[q[i]].data = txbuf[q[i]].data
  BY <1>1, ChainTypes
<1>3. TextIn(txbuf', q) = TextIn(txbuf, q)
  BY <1>2, TextSame
<1>4. QED
  BY <1>1, <1>3, TextIsTextIn, TextNext

LEMMA SameFiles ==
    ASSUME IInv, NEW s \in sess_used, FileList(s)' = FileList(s),
           \A f \in Elements(FileList(s)) :
               /\ file'[f].fd = file[f].fd /\ eo'[file[f].fd].emfile = eo[file[f].fd].emfile
               /\ eo'[file[f].fd].position = eo[file[f].fd].position
    PROVE  OpenFiles(s)' = OpenFiles(s)
<1>1. PICK q : q = FileList(s)
  OBVIOUS
<1>2. Len(q) \in Nat /\ \A i \in 1 .. Len(q) :
          /\ file'[q[i]].fd = file[q[i]].fd
          /\ eo'[file[q[i]].fd].emfile = eo[file[q[i]].fd].emfile
          /\ eo'[file[q[i]].fd].position = eo[file[q[i]].fd].position
  BY <1>1, FileTypes
<1>3. FilesIn(file', eo', q) = FilesIn(file, eo, q)
  BY <1>2 DEF FilesIn
<1>4. QED
  BY <1>1, <1>3, FilesAre

LEMMA QueuesAfter ==
    ASSUME IInv, NEW s \in sess_used, sess_used' = sess_used,
           \A t \in sess_used \ {s} : Text(t)' = Text(t)
    PROVE  /\ Queues' = [Queues EXCEPT ![s] = Text(s)'] /\ Queues[s] = Text(s)
           /\ (Text(s)' = Text(s) => Queues' = Queues)
BY DEF IInv, Types, Queues

LEMMA StacksAfter ==
    ASSUME IInv, NEW s \in sess_used, sess_used' = sess_used,
           \A t \in sess_used \ {s} : OpenFiles(t)' = OpenFiles(t)
    PROVE  /\ Stacks' = [Stacks EXCEPT ![s] = OpenFiles(s)'] /\ Stacks[s] = OpenFiles(s)
           /\ (OpenFiles(s)' = OpenFiles(s) => Stacks' = Stacks)
BY DEF IInv, Types, Stacks

\* What follows a in a text that begins with a.
LEMMA AfterFront ==
    ASSUME NEW S, NEW a \in Seq(S), NEW b \in Seq(S)
    PROVE  SubSeq(a \o b, Len(a) + 1, Len(a \o b)) = b /\ Len(a) <= Len(a \o b)
<1>1. PICK c : c = a \o b
  OBVIOUS
<1>2. c \in Seq(S) /\ Len(c) = Len(a) + Len(b) /\ Len(a) \in Nat /\ Len(b) \in Nat
      /\ \A i \in 1 .. Len(a) + Len(b) : c[i] = IF i <= Len(a) THEN a[i] ELSE b[i - Len(a)]
  BY <1>1, ConcatProperties, LenProperties
<1>3. \A i \in Len(a) + 1 .. Len(c) : c[i] \in S
  BY <1>2, LenProperties
<1>4. PICK m, n : m = Len(a) + 1 /\ n = Len(c)
  OBVIOUS
<1>5. m \in Int /\ n \in Int /\ n - m + 1 = Len(b)
  BY <1>2, <1>4
<1>6. PICK d : d = SubSeq(c, m, n)
  OBVIOUS
<1>7. d \in Seq(S) /\ Len(d) = (IF m <= n THEN n - m + 1 ELSE 0)
      /\ \A i \in 1 .. n - m + 1 : d[i] = c[m + i - 1]
  BY <1>3, <1>4, <1>5, <1>6, SubSeqProperties
<1>8. Len(d) = Len(b)
  BY <1>2, <1>4, <1>5, <1>7
<1>9. ASSUME NEW i \in 1 .. Len(b)
      PROVE  d[i] = b[i]
  <2>1. i \in 1 .. n - m + 1 /\ m + i - 1 \in 1 .. Len(a) + Len(b) /\ ~(m + i - 1 <= Len(a))
        /\ (m + i - 1) - Len(a) = i
    BY <1>2, <1>4, <1>5
  <2>2. QED
    BY <1>2, <1>7, <2>1
<1>10. d = b
  BY <1>7, <1>8, <1>9, SeqSame
<1>11. QED
  BY <1>1, <1>2, <1>4, <1>6, <1>10

Open1 == [name : Name, pos : Nat]

LEMMA FilesInType ==
    ASSUME IInv, NEW s \in sess_used
    PROVE  /\ FilesIn(file, eo, FileList(s)) \in Seq(Open1)
           /\ Len(FilesIn(file, eo, FileList(s))) = Len(FileList(s))
<1>1. PICK q : q = FileList(s)
  OBVIOUS
<1>2. /\ Len(q) \in Nat
      /\ \A i \in 1 .. Len(q) : file[q[i]].fd \in eo_used /\ eo[file[q[i]].fd] \in EoFile
  BY <1>1, FileTypes
<1>3. \A e \in eo_used : eo[e].emfile \in Name
  BY DEF IInv, FilesOK
<1>4. FilesIn(file, eo, q) \in [1 .. Len(q) -> Open1]
  BY <1>2, <1>3 DEF FilesIn, Open1, EoFile
<1>5. QED
  BY <1>1, <1>2, <1>4

----------------------------------------------------------------------------
(* Each call is a step of SessObjects *)

LEMMA PutStep ==
    ASSUME IInv, IInv', NEW s \in sess_used, NEW unit \in Unit, PutOutcome(s, unit)
    PROVE  Objects!Next
<1>1. Linked = sess_used /\ Linked' = Linked /\ s \in Sess /\ sess_used' = sess_used
  BY PathsThere, LinkedNext DEF PutOutcome, OnlyText, sessions, IInv, Types
<1>2. \A t \in sess_used : OpenFiles(t)' = OpenFiles(t)
  <2>1. \A t \in sess_used : ws'[t].filelist = ws[t].filelist
    BY DEF PutOutcome, OnlyText
  <2>2. UNCHANGED <<file, eo>>
    BY DEF PutOutcome, OnlyText, files, eofiles
  <2>3. \A t \in sess_used : FileList(t)' = FileList(t)
    BY <2>1, <2>2 DEF FileList
  <2>4. QED
    BY <2>2, <2>3, SameFiles
<1>3. Stacks' = Stacks
  BY <1>1, <1>2, StacksAfter
<1>4. ASSUME NEW D, D \cap tx_used \subseteq Elements(Chain(s)),
             \A x \in TxSlot \ D : txbuf'[x].data = txbuf[x].data
      PROVE  Queues' = [Queues EXCEPT ![s] = Text(s)'] /\ Queues[s] = Text(s)
  <2>1. ASSUME NEW t \in sess_used \ {s}
        PROVE  Text(t)' = Text(t)
    <3>1. Chain(t)' = Chain(t)
      BY DEF PutOutcome
    <3>2. \A x \in Elements(Chain(t)) : x \in TxSlot /\ x \in tx_used /\ x \notin Elements(Chain(s))
      BY ChainTypes, ChainsApart
    <3>3. QED
      BY <1>4, <3>1, <3>2, SameText
  <2>2. QED
    BY <1>1, <2>1, QueuesAfter
<1>5. PICK q : q = Chain(s)
  OBVIOUS
<1>6. /\ Len(q) \in Nat /\ q \in Seq(TxSlot) /\ \A i, j \in 1 .. Len(q) : q[i] = q[j] => i = j
      /\ \A i \in 1 .. Len(q) : /\ q[i] \in TxSlot /\ q[i] \in Elements(q) /\ q[i] \in tx_used
                                /\ txbuf[q[i]].data \in Seq(Unit)
  BY <1>5, ChainTypes
<1>7. TextIn(txbuf, q) \in Seq(Unit) /\ Text(s) = TextIn(txbuf, q)
  BY <1>5, <1>6, TextInType, TextIsTextIn
<1>8. ASSUME ret' = 0, Chain(s)' = q, Len(q) # 0,
             txbuf' = [txbuf EXCEPT ![q[Len(q)]].data = Append(@, unit)]
      PROVE  Objects!Next
  <2>1. Len(q) \in 1 .. Len(q)
    BY <1>6, <1>8
  <2>2. txbuf \in [TxSlot -> TxBuf]
    BY DEF IInv, Types
  <2>3. \A x \in TxSlot : txbuf'[x].data = IF x = q[Len(q)] THEN Append(txbuf[x].data, unit) ELSE txbuf[x].data
    BY <1>8, <2>2 DEF TxBuf
  <2>4. \A i \in 1 .. Len(q) : txbuf'[q[i]].data = IF i = Len(q) THEN Append(txbuf[q[i]].data, unit)
                                                   ELSE txbuf[q[i]].data
    BY <1>6, <2>1, <2>3
  <2>5. TextIn(txbuf', q) = Append(TextIn(txbuf, q), unit)
    <3>1. Len(q) \in Nat /\ Len(q) # 0 /\ \A i \in 1 .. Len(q) : txbuf[q[i]].data \in Seq(Unit)
      BY <1>6, <1>8
    <3>2. PICK d, after : d = txbuf /\ after = txbuf'
      OBVIOUS
    <3>3. \A i \in 1 .. Len(q) : d[q[i]].data \in Seq(Unit)
      BY <3>1, <3>2, Zenon
    <3>4. \A i \in 1 .. Len(q) :
             after[q[i]].data = IF i = Len(q) THEN Append(d[q[i]].data, unit) ELSE d[q[i]].data
      BY <2>4, <3>2, Zenon
    <3>5. TextIn(after, q) = Append(TextIn(d, q), unit)
      BY <3>1, <3>3, <3>4, TextGrows
    <3>6. QED
      BY <3>2, <3>5, Zenon
  <2>6. Text(s)' = Append(Text(s), unit)
    BY <1>7, <1>8, <2>5, TextNext
  <2>7. \A x \in TxSlot \ {q[Len(q)]} : txbuf'[x].data = txbuf[x].data
    BY <2>3
  <2>8. {q[Len(q)]} \cap tx_used \subseteq Elements(Chain(s))
    BY <1>5, <1>6, <2>1
  <2>9. Queues' = [Queues EXCEPT ![s] = Append(@, unit)]
    BY <1>4, <2>6, <2>7, <2>8
  <2>10. QED
    BY <1>1, <1>3, <1>8, <2>9, Puts
<1>9. ASSUME NEW new \in TxSlot \ tx_used, ret' = 0, Chain(s)' = Append(q, new),
             txbuf'[new].data = <<unit>>, \A x \in TxSlot : x # new => txbuf'[x].data = txbuf[x].data
      PROVE  Objects!Next
  <2>1. PICK r : r = Append(q, new)
    OBVIOUS
  <2>2. Len(r) = Len(q) + 1 /\ r[Len(r)] = new /\ \A i \in 1 .. Len(q) : r[i] = q[i]
    BY <1>6, <2>1, AppendProperties
  <2>3. \A i \in 1 .. Len(q) : r[i] = q[i] /\ txbuf'[q[i]].data = txbuf[q[i]].data
    BY <1>6, <1>9, <2>2
  <2>4. TextIn(txbuf', r) = TextIn(txbuf, q) \o txbuf'[r[Len(r)]].data
    <3>1. Len(q) \in Nat /\ Len(r) = Len(q) + 1
      BY <1>6, <2>2
    <3>2. PICK d, after : d = txbuf /\ after = txbuf'
      OBVIOUS
    <3>3. OneMore(d, after, q, r)
      BY <2>3, <3>1, <3>2, Zenon DEF OneMore
    <3>4. TextIn(after, r) = Joined(TextIn(d, q), after[r[Len(r)]].data)
      BY <3>3, TextAppend
    <3>5. QED
      BY <3>2, <3>4, Zenon DEF Joined
  <2>5. TextIn(txbuf', r) = Append(TextIn(txbuf, q), unit)
    BY <1>7, <1>9, <2>2, <2>4, AppendIsConcat
  <2>6. Text(s)' = Append(Text(s), unit)
    BY <1>7, <1>9, <2>1, <2>5, TextNext
  <2>7. {new} \cap tx_used \subseteq Elements(Chain(s)) /\ \A x \in TxSlot \ {new} : txbuf'[x].data = txbuf[x].data
    BY <1>9
  <2>8. Queues' = [Queues EXCEPT ![s] = Append(@, unit)]
    BY <1>4, <2>6, <2>7
  <2>9. QED
    BY <1>1, <1>3, <1>9, <2>8, Puts
<1>10. CASE ret' = WI_E_MEMORY /\ UNCHANGED <<texts, ws>>
  <2>1. UNCHANGED <<txbuf, ws>>
    BY <1>10 DEF texts
  <2>2. \A t \in sess_used : Chain(t)' = Chain(t)
    BY <2>1 DEF Chain
  <2>3. \A t \in sess_used : Text(t)' = Text(t)
    BY <2>1, <2>2, SameText
  <2>4. Queues' = Queues
    BY <1>1, <2>3, QueuesAfter
  <2>5. QED
    BY <1>1, <1>3, <1>10, <2>4, Refuses
<1>11. QED
  BY <1>5, <1>8, <1>9, <1>10 DEF PutOutcome

LEMMA SendStep ==
    ASSUME IInv, IInv', NEW s \in sess_used, SendHead(s)
    PROVE  Objects!Next
<1>0. /\ OnlyText(s) /\ \A t \in sess_used \ {s} : Chain(t)' = Chain(t)
      /\ Len(Chain(s)) # 0 /\ Chain(s)' = Skipping(Chain(s), 1) /\ ret' = 0
      /\ \A x \in TxSlot : x # Chain(s)[1] => txbuf'[x] = txbuf[x]
  BY SendHeadCases
<1>1. Linked = sess_used /\ Linked' = Linked /\ s \in Sess /\ sess_used' = sess_used
  BY <1>0, PathsThere, LinkedNext DEF OnlyText, sessions, IInv, Types
<1>2. \A t \in sess_used : OpenFiles(t)' = OpenFiles(t)
  <2>1. \A t \in sess_used : ws'[t].filelist = ws[t].filelist
    BY <1>0 DEF OnlyText
  <2>2. UNCHANGED <<file, eo>>
    BY <1>0 DEF OnlyText, files, eofiles
  <2>3. \A t \in sess_used : FileList(t)' = FileList(t)
    BY <2>1, <2>2 DEF FileList
  <2>4. QED
    BY <2>2, <2>3, SameFiles
<1>3. Stacks' = Stacks
  BY <1>1, <1>2, StacksAfter
<1>4. PICK q : q = Chain(s)
  OBVIOUS
<1>5. /\ Len(q) \in Nat /\ q \in Seq(TxSlot) /\ \A i, j \in 1 .. Len(q) : q[i] = q[j] => i = j
      /\ \A i \in 1 .. Len(q) : /\ q[i] \in TxSlot /\ q[i] \in Elements(q) /\ q[i] \in tx_used
                                /\ txbuf[q[i]].data \in Seq(Unit) /\ Len(txbuf[q[i]].data) \in 1 .. WI_TXBUFSIZE
  BY <1>4, ChainTypes
<1>6. Len(q) # 0 /\ 1 \in 1 .. Len(q)
  BY <1>0, <1>4, <1>5
<1>7. \A t \in sess_used \ {s} : Text(t)' = Text(t)
  <2>1. ASSUME NEW t \in sess_used \ {s}
        PROVE  Text(t)' = Text(t)
    <3>1. Chain(t)' = Chain(t)
      BY <1>0
    <3>2. \A x \in Elements(Chain(t)) : x \in TxSlot /\ x # q[1]
      BY <1>4, <1>5, <1>6, ChainTypes, ChainsApart
    <3>3. \A x \in Elements(Chain(t)) : txbuf'[x].data = txbuf[x].data
      BY <1>0, <1>4, <3>2
    <3>4. QED
      BY <3>1, <3>3, SameText
  <2>2. QED
    BY <2>1
<1>8. PICK r : r = Skipping(q, 1)
  OBVIOUS
<1>9. Len(r) = Len(q) - 1 /\ \A i \in 1 .. Len(r) : r[i] = q[i + 1]
  BY <1>5, <1>6, <1>8, LastOfSkipping
<1>10. \A i \in 1 .. Len(r) : r[i] = q[i + 1] /\ txbuf'[r[i]].data = txbuf[r[i]].data
  <2>1. ASSUME NEW i \in 1 .. Len(r)
        PROVE  r[i] = q[i + 1] /\ txbuf'[r[i]].data = txbuf[r[i]].data
    <3>1. r[i] = q[i + 1] /\ i + 1 \in 1 .. Len(q) /\ i + 1 # 1
      BY <1>5, <1>9
    <3>2. r[i] \in TxSlot /\ r[i] # q[1]
      BY <1>5, <1>6, <3>1
    <3>3. QED
      BY <1>0, <1>4, <3>1, <3>2
  <2>2. QED
    BY <2>1
<1>11. PICK a, b : a = txbuf[q[1]].data /\ b = TextIn(txbuf', r)
  OBVIOUS
<1>12. Text(s) = a \o b /\ Text(s)' = b
  <2>1. \A i \in 1 .. Len(q) : txbuf[q[i]].data \in Seq(Unit)
    BY <1>5
  <2>2. TextIn(txbuf, q) = txbuf[q[1]].data \o TextIn(txbuf', r)
    <3>1. Len(q) \in Nat /\ Len(q) # 0 /\ Len(r) = Len(q) - 1
      BY <1>5, <1>6, <1>9
    <3>2. PICK d, after : d = txbuf /\ after = txbuf'
      OBVIOUS
    <3>3. \A i \in 1 .. Len(q) : d[q[i]].data \in Seq(Unit)
      BY <2>1, <3>2, Zenon
    <3>4. OneLess(d, after, q, r, Unit)
      BY <1>10, <3>1, <3>2, <3>3, Zenon DEF OneLess
    <3>5. TextIn(d, q) = Joined(d[q[1]].data, TextIn(after, r))
      BY <3>4, TextPop
    <3>6. QED
      BY <3>2, <3>5, Zenon DEF Joined
  <2>3. QED
    BY <1>0, <1>4, <1>8, <1>11, <2>2, TextIsTextIn, TextNext
<1>13. a \in Seq(Unit) /\ b \in Seq(Unit) /\ Len(a) \in 1 .. WI_TXBUFSIZE
  <2>1. \A i \in 1 .. Len(r) : txbuf'[r[i]].data \in Seq(Unit)
    <3>1. \A i \in 1 .. Len(r) : i + 1 \in 1 .. Len(q)
      BY <1>5, <1>9
    <3>2. QED
      BY <1>0, <1>4, <1>5, <1>10, <3>1, SMTT(30)
  <2>2. Len(r) \in Nat
    BY <1>5, <1>6, <1>9
  <2>3. b \in Seq(Unit)
    BY <1>11, <2>1, <2>2, TextInType
  <2>4. QED
    BY <1>5, <1>6, <1>11, <2>3
<1>14. Queues[s] = a \o b /\ Queues' = [Queues EXCEPT ![s] = b]
  BY <1>1, <1>7, <1>12, QueuesAfter
<1>15. PICK n : n = Len(a)
  OBVIOUS
<1>16. n \in 1 .. Len(Queues[s]) /\ b = SubSeq(Queues[s], n + 1, Len(Queues[s]))
  <2>1. SubSeq(a \o b, Len(a) + 1, Len(a \o b)) = b /\ Len(a) <= Len(a \o b)
    BY <1>13, AfterFront
  <2>2. Len(a) \in Nat \ {0} /\ Len(a \o b) \in Nat
    BY <1>13, TextAssumption, ConcatProperties, LenProperties
  <2>3. QED
    BY <1>14, <1>15, <2>1, <2>2
<1>17. Queues' = [Queues EXCEPT ![s] = SubSeq(@, n + 1, Len(@))]
  BY <1>14, <1>16
<1>18. QED
  BY <1>0, <1>1, <1>3, <1>16, <1>17, Sends

\* A call that moves no link of a list, and no text or position.
LEMMA NothingSeen ==
    ASSUME IInv, IInv', UNCHANGED <<sessions, texts, files, eofiles>>,
           \A t \in sess_used : ws'[t].txbufs = ws[t].txbufs /\ ws'[t].filelist = ws[t].filelist
    PROVE  Linked' = Linked /\ Queues' = Queues /\ Stacks' = Stacks
<1>1. UNCHANGED <<sess_used, txbuf, file, eo>>
  BY DEF sessions, texts, files, eofiles
<1>2. Linked' = Linked
  BY <1>1, PathsThere, LinkedNext
<1>3. \A t \in sess_used : Chain(t)' = Chain(t) /\ FileList(t)' = FileList(t)
  BY <1>1 DEF Chain, FileList
<1>4. \A t \in sess_used : Text(t)' = Text(t)
  BY <1>1, <1>3, SameText
<1>5. \A t \in sess_used : OpenFiles(t)' = OpenFiles(t)
  BY <1>1, <1>3, SameFiles
<1>6. Queues' = Queues
  BY <1>1, <1>4 DEF Queues
<1>7. Stacks' = Stacks
  BY <1>1, <1>5 DEF Stacks
<1>8. QED
  BY <1>2, <1>6, <1>7

LEMMA OnlyFilesSeen ==
    ASSUME IInv, IInv', NEW s \in sess_used, OnlyFiles(s),
           \A t \in sess_used \ {s} : OpenFiles(t)' = OpenFiles(t)
    PROVE  /\ s \in Sess /\ s \in Linked /\ Linked' = Linked /\ Queues' = Queues
           /\ Stacks' = [Stacks EXCEPT ![s] = OpenFiles(s)'] /\ Stacks[s] = OpenFiles(s)
           /\ (OpenFiles(s)' = OpenFiles(s) => Stacks' = Stacks)
<1>1. Linked = sess_used /\ Linked' = Linked /\ s \in Sess /\ sess_used' = sess_used
  BY PathsThere, LinkedNext DEF OnlyFiles, sessions, IInv, Types
<1>2. txbuf' = txbuf /\ \A t \in sess_used : ws'[t].txbufs = ws[t].txbufs
  BY DEF OnlyFiles, texts
<1>3. \A t \in sess_used : Chain(t)' = Chain(t)
  BY <1>2 DEF Chain
<1>4. \A t \in sess_used : Text(t)' = Text(t)
  BY <1>2, <1>3, SameText
<1>5. Queues' = Queues
  BY <1>1, <1>4, QueuesAfter
<1>6. QED
  BY <1>1, <1>5, StacksAfter

LEMMA OpenStep ==
    ASSUME IInv, IInv', NEW s \in sess_used, NEW name, FopenFound(s, name)
    PROVE  Objects!Next
<1>1. /\ OnlyFiles(s) /\ ret' = 0 /\ name \in Name
      /\ \A t \in sess_used \ {s} : FileList(t)' = FileList(t)
  BY FopenFoundCases
<1>2. PICK f \in FileSlot \ file_used, e \in EoSlot \ eo_used :
         /\ FileList(s)' = Pushed(f, FileList(s)) /\ file'[f].fd = e
         /\ eo'[e].emfile = name /\ eo'[e].position = 0
         /\ \A g \in FileSlot : g # f => file'[g] = file[g]
         /\ \A x \in EoSlot : x # e => eo'[x] = eo[x]
  BY FopenFoundCases
<1>3. ASSUME NEW t \in sess_used, NEW i \in 1 .. Len(FileList(t)), NEW g, g = FileList(t)[i]
      PROVE  file'[g] = file[g] /\ eo'[file[g].fd] = eo[file[g].fd]
  <2>1. g \in FileSlot /\ g \in file_used /\ file[g].fd \in eo_used /\ file[g].fd \in EoSlot
    BY <1>3, FileTypes
  <2>2. g # f /\ file[g].fd # e
    BY <2>1
  <2>3. QED
    BY <1>2, <2>1, <2>2
<1>4. ASSUME NEW t \in sess_used \ {s}
      PROVE  OpenFiles(t)' = OpenFiles(t)
  <2>1. \A g \in Elements(FileList(t)) : \E i \in 1 .. Len(FileList(t)) : g = FileList(t)[i]
    BY FileTypes
  <2>2. \A g \in Elements(FileList(t)) : file'[g] = file[g] /\ eo'[file[g].fd] = eo[file[g].fd]
    BY <1>3, <2>1
  <2>3. QED
    BY <1>1, <2>2, SameFiles
<1>5. /\ s \in Sess /\ s \in Linked /\ Linked' = Linked /\ Queues' = Queues
      /\ Stacks' = [Stacks EXCEPT ![s] = OpenFiles(s)'] /\ Stacks[s] = OpenFiles(s)
  BY <1>1, <1>4, OnlyFilesSeen
<1>6. PICK q, r, k, a, top, c :
         /\ q = FileList(s) /\ r = Pushed(f, q) /\ k = FilesIn(file, eo, q) /\ a = FilesIn(file', eo', r)
         /\ top = [name |-> name, pos |-> 0] /\ c = <<top>> \o k
  OBVIOUS
<1>7. Len(q) \in Nat /\ k \in Seq(Open1) /\ Len(k) = Len(q)
  BY <1>6, FileTypes, FilesInType
<1>8. /\ Len(r) = Len(q) + 1 /\ DOMAIN r = 1 .. Len(q) + 1
      /\ r[1] = f /\ \A i \in 2 .. Len(q) + 1 : r[i] = q[i - 1]
  <2>1. 1 \in 1 .. Len(q) + 1 /\ \A i \in 2 .. Len(q) + 1 : i \in 1 .. Len(q) + 1 /\ i # 1
    BY <1>7
  <2>2. QED
    BY <1>6, <1>7, <2>1 DEF Pushed
<1>9. top \in Open1 /\ <<top>> \in Seq(Open1) /\ Len(<<top>>) = 1 /\ <<top>>[1] = top
  BY <1>1, <1>6 DEF Open1
<1>10. /\ c \in Seq(Open1) /\ Len(c) = Len(q) + 1
       /\ \A i \in 1 .. Len(q) + 1 : c[i] = IF i <= 1 THEN top ELSE k[i - 1]
  <2>1. /\ c \in Seq(Open1) /\ Len(c) = 1 + Len(q)
        /\ \A i \in 1 .. 1 + Len(q) : c[i] = IF i <= 1 THEN <<top>>[i] ELSE k[i - 1]
    BY <1>6, <1>7, <1>9, ConcatProperties
  <2>2. \A i \in 1 .. Len(q) + 1 : i <= 1 => i = 1
    BY <1>7
  <2>3. 1 + Len(q) = Len(q) + 1
    BY <1>7
  <2>4. QED
    BY <1>9, <2>1, <2>2, <2>3
<1>11. ASSUME NEW i \in 1 .. Len(q) + 1
       PROVE  [name |-> eo'[file'[r[i]].fd].emfile, pos |-> eo'[file'[r[i]].fd].position] = c[i]
  <2>1. CASE i = 1
    BY <1>2, <1>6, <1>8, <1>10, <2>1
  <2>2. CASE i # 1
    <3>1. i \in 2 .. Len(q) + 1 /\ ~(i <= 1) /\ i - 1 \in 1 .. Len(q)
      BY <1>7, <2>2
    <3>2. r[i] = q[i - 1] /\ c[i] = k[i - 1]
      BY <1>8, <1>10, <3>1
    <3>3. k[i - 1] = [name |-> eo[file[q[i - 1]].fd].emfile, pos |-> eo[file[q[i - 1]].fd].position]
      BY <1>6, <3>1 DEF FilesIn
    <3>4. file'[q[i - 1]] = file[q[i - 1]] /\ eo'[file[q[i - 1]].fd] = eo[file[q[i - 1]].fd]
      BY <1>3, <1>6, <3>1
    <3>5. QED
      BY <3>2, <3>3, <3>4
  <2>3. QED
    BY <2>1, <2>2
<1>12. a = c
  <2>1. a = [i \in 1 .. Len(q) + 1 |-> c[i]]
    BY <1>6, <1>8, <1>11 DEF FilesIn
  <2>2. c = [i \in 1 .. Len(q) + 1 |-> c[i]]
    BY <1>10, LenProperties
  <2>3. QED
    BY <2>1, <2>2
<1>13. OpenFiles(s)' = c /\ OpenFiles(s) = k
  BY <1>2, <1>6, <1>12, FilesAre
<1>14. Stacks' = [Stacks EXCEPT ![s] = <<[name |-> name, pos |-> 0]>> \o @]
  BY <1>5, <1>6, <1>13
<1>15. QED
  BY <1>1, <1>5, <1>14, Opens

LEMMA CloseStep ==
    ASSUME IInv, IInv', NEW s \in sess_used, CloseHead(s)
    PROVE  Objects!Next
<1>1. /\ OnlyFiles(s) /\ ret' = 0
      /\ \A t \in sess_used \ {s} : FileList(t)' = FileList(t)
      /\ Len(FileList(s)) # 0 /\ FileList(s)' = Skipping(FileList(s), 1)
      /\ \A g \in FileSlot : g # FileList(s)[1] => file'[g] = file[g]
      /\ \A x \in EoSlot : x # file[FileList(s)[1]].fd =>
            eo'[x].emfile = eo[x].emfile /\ eo'[x].position = eo[x].position
  BY CloseHeadCases
<1>2. PICK q, r, k : /\ q = FileList(s) /\ r = Skipping(q, 1) /\ k = FilesIn(file, eo, q)
  OBVIOUS
<1>3. /\ Len(q) \in Nat /\ q \in Seq(FileSlot) /\ k \in Seq(Open1) /\ Len(k) = Len(q)
      /\ \A i \in 1 .. Len(q) : /\ q[i] \in FileSlot /\ q[i] \in file_used /\ q[i] \in Elements(q)
                                /\ file[q[i]].fd \in EoSlot
      /\ \A i, j \in 1 .. Len(q) : q[i] = q[j] => i = j
      /\ \A i, j \in 1 .. Len(q) : file[q[i]].fd = file[q[j]].fd => i = j
  BY <1>2, FileTypes, FilesInType
<1>4. Len(q) # 0 /\ 1 \in 1 .. Len(q)
  BY <1>1, <1>2, <1>3
<1>5. ASSUME NEW g \in file_used, g # q[1]
      PROVE  /\ file'[g] = file[g] /\ eo'[file[g].fd].emfile = eo[file[g].fd].emfile
             /\ eo'[file[g].fd].position = eo[file[g].fd].position
  <2>1. /\ \A f, h \in file_used : file[f].fd = file[h].fd => f = h
        /\ g \in FileSlot /\ file[g].fd \in EoSlot
    BY DEF IInv, Types, FilesOK
  <2>2. file[g].fd # file[q[1]].fd
    BY <1>3, <1>4, <1>5, <2>1
  <2>3. QED
    BY <1>1, <1>2, <1>5, <2>1, <2>2
<1>6. ASSUME NEW t \in sess_used \ {s}
      PROVE  OpenFiles(t)' = OpenFiles(t)
  <2>1. \A g \in Elements(FileList(t)) : g \in file_used /\ g # q[1]
    BY <1>2, <1>3, <1>4, FileTypes, FilesApart
  <2>2. QED
    BY <1>1, <1>5, <2>1, SameFiles
<1>7. /\ s \in Sess /\ s \in Linked /\ Linked' = Linked /\ Queues' = Queues
      /\ Stacks' = [Stacks EXCEPT ![s] = OpenFiles(s)'] /\ Stacks[s] = OpenFiles(s)
  BY <1>1, <1>6, OnlyFilesSeen
<1>8. Len(r) = Len(q) - 1 /\ DOMAIN r = 1 .. Len(q) - 1 /\ \A i \in 1 .. Len(q) - 1 : r[i] = q[i + 1]
  BY <1>2, <1>3, <1>4, LastOfSkipping
<1>9. k # <<>>
  BY <1>3, <1>4
<1>10. PICK c : c = Tail(k)
  OBVIOUS
<1>11. c \in Seq(Open1) /\ Len(c) = Len(q) - 1 /\ \A i \in 1 .. Len(q) - 1 : c[i] = k[i + 1]
  BY <1>3, <1>9, <1>10, HeadTailProperties
<1>12. ASSUME NEW i \in 1 .. Len(q) - 1
       PROVE  [name |-> eo'[file'[r[i]].fd].emfile, pos |-> eo'[file'[r[i]].fd].position] = c[i]
  <2>1. i + 1 \in 1 .. Len(q) /\ i + 1 # 1
    BY <1>3
  <2>2. q[i + 1] \in file_used /\ q[i + 1] # q[1]
    BY <1>3, <1>4, <2>1
  <2>3. k[i + 1] = [name |-> eo[file[q[i + 1]].fd].emfile, pos |-> eo[file[q[i + 1]].fd].position]
    BY <1>2, <2>1 DEF FilesIn
  <2>4. QED
    BY <1>5, <1>8, <1>11, <2>2, <2>3
<1>13. FilesIn(file', eo', r) = c
  <2>1. FilesIn(file', eo', r) = [i \in 1 .. Len(q) - 1 |-> c[i]]
    BY <1>8, <1>12 DEF FilesIn
  <2>2. c = [i \in 1 .. Len(q) - 1 |-> c[i]]
    BY <1>11, LenProperties
  <2>3. QED
    BY <2>1, <2>2
<1>14. OpenFiles(s)' = c /\ OpenFiles(s) = k
  BY <1>1, <1>2, <1>13, FilesAre
<1>15. Stacks[s] # <<>> /\ Stacks' = [Stacks EXCEPT ![s] = Tail(@)]
  BY <1>7, <1>9, <1>10, <1>14
<1>16. QED
  BY <1>1, <1>7, <1>15, Closes

LEMMA ReadStep ==
    ASSUME IInv, IInv', NEW s \in sess_used, NEW n \in Chunk, ReadHead(s, n)
    PROVE  Objects!Next
<1>1. /\ OnlyFiles(s) /\ \A t \in sess_used : FileList(t)' = FileList(t)
      /\ UNCHANGED files /\ \A x \in EoSlot : eo'[x].emfile = eo[x].emfile
      /\ Len(FileList(s)) # 0
  BY ReadHeadCases
<1>2. PICK q, k, e, got : /\ q = FileList(s) /\ k = FilesIn(file, eo, q)
                          /\ e = file[q[1]].fd /\ got = em_fread(e, n)
  OBVIOUS
<1>3. /\ e \in eo_used /\ ret' = got /\ eo'[e].position = eo[e].position + got
      /\ \A x \in EoSlot : x # e => eo'[x].position = eo[x].position
  BY <1>2, ReadHeadCases
<1>4. /\ Len(q) \in Nat /\ k \in Seq(Open1) /\ Len(k) = Len(q)
      /\ \A i \in 1 .. Len(q) : /\ q[i] \in FileSlot /\ q[i] \in file_used /\ q[i] \in Elements(q)
                                /\ file[q[i]].fd \in EoSlot
      /\ \A i, j \in 1 .. Len(q) : file[q[i]].fd = file[q[j]].fd => i = j
  BY <1>2, FileTypes, FilesInType
<1>5. 1 \in 1 .. Len(q) /\ file' = file /\ q[1] \in file_used /\ q[1] \in Elements(q)
  BY <1>1, <1>2, <1>4 DEF files
<1>6. ASSUME NEW t \in sess_used \ {s}
      PROVE  OpenFiles(t)' = OpenFiles(t)
  <2>1. \A g \in Elements(FileList(t)) : g \in file_used /\ g # q[1] /\ file[g].fd \in EoSlot
    <3>1. \A g \in Elements(FileList(t)) : g \in file_used
      BY FileTypes
    <3>2. \A g \in Elements(FileList(t)) : g # q[1]
      BY <1>2, <1>5, FilesApart
    <3>3. QED
      BY <3>1, <3>2 DEF IInv, Types, FilesOK
  <2>2. \A f, h \in file_used : file[f].fd = file[h].fd => f = h
    BY DEF IInv, FilesOK
  <2>3. \A g \in Elements(FileList(t)) : file[g].fd # e
    BY <1>2, <1>5, <2>1, <2>2
  <2>4. QED
    BY <1>1, <1>3, <1>5, <2>1, <2>3, SameFiles
<1>7. /\ s \in Sess /\ s \in Linked /\ Linked' = Linked /\ Queues' = Queues
      /\ Stacks' = [Stacks EXCEPT ![s] = OpenFiles(s)'] /\ Stacks[s] = OpenFiles(s)
  BY <1>1, <1>6, OnlyFilesSeen
<1>8. OpenFiles(s) = k /\ OpenFiles(s)' = FilesIn(file, eo', q)
  BY <1>1, <1>2, <1>5, FilesAre
<1>9. \A i \in 1 .. Len(q) : k[i] = [name |-> eo[file[q[i]].fd].emfile, pos |-> eo[file[q[i]].fd].position]
  BY <1>2 DEF FilesIn
<1>10. k = [i \in 1 .. Len(q) |-> k[i]] /\ k # <<>> /\ k[1].name = eo[e].emfile /\ k[1].pos = eo[e].position
  <2>1. k = [i \in 1 .. Len(q) |-> k[i]]
    BY <1>2, <1>9 DEF FilesIn
  <2>2. k # <<>>
    BY <1>4, <1>5
  <2>3. k[1] = [name |-> eo[e].emfile, pos |-> eo[e].position]
    BY <1>2, <1>5, <1>9
  <2>4. QED
    BY <2>1, <2>2, <2>3
<1>11. FilesIn(file, eo', q) = [k EXCEPT ![1].pos = @ + got]
  <2>1. ASSUME NEW i \in 1 .. Len(q)
        PROVE  [name |-> eo'[file[q[i]].fd].emfile, pos |-> eo'[file[q[i]].fd].position]
                   = [k EXCEPT ![1].pos = @ + got][i]
    <3>1. eo'[file[q[i]].fd].emfile = eo[file[q[i]].fd].emfile
      BY <1>1, <1>4
    <3>2. CASE i = 1
      <4>1. [k EXCEPT ![1].pos = @ + got][i] = [k[1] EXCEPT !.pos = @ + got]
        BY <1>10, <3>2
      <4>2. k[1] = [name |-> eo[e].emfile, pos |-> eo[e].position]
        BY <1>2, <1>5, <1>9
      <4>3. [k[1] EXCEPT !.pos = @ + got] = [name |-> eo[e].emfile, pos |-> eo[e].position + got]
        BY <4>2
      <4>4. QED
        BY <1>2, <1>3, <3>1, <3>2, <4>1, <4>3
    <3>3. CASE i # 1
      <4>1. [k EXCEPT ![1].pos = @ + got][i] = k[i]
        BY <1>10, <3>3
      <4>2. file[q[i]].fd # e
        BY <1>2, <1>4, <1>5, <3>3
      <4>3. eo'[file[q[i]].fd].position = eo[file[q[i]].fd].position
        BY <1>3, <1>4, <4>2
      <4>4. QED
        BY <1>9, <3>1, <4>1, <4>3
    <3>4. QED
      BY <3>2, <3>3
  <2>2. [k EXCEPT ![1].pos = @ + got] = [i \in 1 .. Len(q) |-> [k EXCEPT ![1].pos = @ + got][i]]
    BY <1>10
  <2>3. QED
    BY <2>1, <2>2, Zenon DEF FilesIn
<1>12. Stacks' = [Stacks EXCEPT ![s][1].pos = @ + got]
  <2>1. Stacks[s] = k /\ Stacks' = [Stacks EXCEPT ![s] = [k EXCEPT ![1].pos = @ + got]]
    BY <1>7, <1>8, <1>11
  <2>2. QED
    BY <1>7, <2>1
<1>13. /\ Stacks[s] # <<>> /\ Stacks[s][1].name = eo[e].emfile /\ Stacks[s][1].pos = eo[e].position
  BY <1>7, <1>8, <1>10
<1>14. got = Got(s, n)
  <2>1. n \in Nat
    BY FilesAssumption
  <2>2. eo[e].emfile \in Name /\ eo[e].position \in Nat /\ Size[eo[e].emfile] \in Nat
    <3>1. eo[e].emfile \in Name /\ eo[e] \in EoFile
      BY <1>3 DEF IInv, Types, FilesOK
    <3>2. QED
      BY <3>1, FilesAssumption DEF EoFile
  <2>3. got = IF eo[e].emfile \in CodeFile THEN 0
              ELSE IF n > Size[eo[e].emfile] - eo[e].position THEN Size[eo[e].emfile] - eo[e].position
                   ELSE n
    BY <1>2 DEF em_fread
  <2>4. \A a, b \in Int : (a > b) <=> ~(a <= b)
    OBVIOUS
  <2>5. Size[eo[e].emfile] - eo[e].position \in Int /\ n \in Int
    BY <2>1, <2>2
  <2>6. QED
    BY <1>13, <2>3, <2>4, <2>5 DEF Got
<1>15. QED
  <2>1. s \in Linked /\ Stacks[s] # <<>> /\ ret' = Got(s, n)
    BY <1>3, <1>7, <1>13, <1>14, Zenon
  <2>2. Linked' = Linked /\ Queues' = Queues
    BY <1>7, Zenon
  <2>3. Stacks' = [Stacks EXCEPT ![s][1].pos = @ + Got(s, n)]
    BY <1>12, <1>14, Zenon
  <2>4. QED
    BY <1>7, <2>1, <2>2, <2>3, Reads

LEMMA LengthStep ==
    ASSUME IInv, IInv', NEW s \in sess_used, FileLength(s)
    PROVE  Objects!Next
<1>1. /\ UNCHANGED <<sessions, ws, texts, files, eofiles>>
      /\ Len(FileList(s)) # 0 /\ ret' = Size[eo[file[FileList(s)[1]].fd].emfile]
  BY FileLengthCases
<1>2. Linked' = Linked /\ Queues' = Queues /\ Stacks' = Stacks
  BY <1>1, NothingSeen
<1>3. s \in Sess /\ s \in Linked /\ Stacks[s] = OpenFiles(s)
  BY PathsThere DEF IInv, Types, Stacks
<1>4. PICK q, k : q = FileList(s) /\ k = FilesIn(file, eo, q)
  OBVIOUS
<1>5. Len(q) \in Nat /\ Len(q) # 0 /\ Len(k) = Len(q) /\ k \in Seq(Open1) /\ 1 \in 1 .. Len(q)
  BY <1>1, <1>4, FileTypes, FilesInType
<1>6. k # <<>> /\ k[1].name = eo[file[q[1]].fd].emfile
  BY <1>4, <1>5 DEF FilesIn
<1>7. Stacks[s] # <<>> /\ ret' = Size[Stacks[s][1].name]
  BY <1>1, <1>3, <1>4, <1>6, FilesAre
<1>8. QED
  BY <1>2, <1>3, <1>7, Lengths

LEMMA DeleteStep ==
    ASSUME IInv, IInv', NEW s \in sess_used, wi_delsess(s)
    PROVE  Objects!Next
<1>1. /\ ret' = 0 /\ sess_used' = sess_used \ {s}
      /\ \A t \in sess_used \ {s} :
            /\ Chain(t)' = Chain(t) /\ FileList(t)' = FileList(t)
            /\ \A x \in Elements(Chain(t)) : txbuf'[x] = txbuf[x]
            /\ \A g \in Elements(FileList(t)) :
                  /\ file'[g] = file[g]
                  /\ eo'[file[g].fd].emfile = eo[file[g].fd].emfile
                  /\ eo'[file[g].fd].position = eo[file[g].fd].position
  BY DelsessCases
<1>2. s \in Sess /\ s \in Linked /\ Linked' = Linked \ {s}
  BY <1>1, PathsThere, LinkedNext DEF IInv, Types
<1>3. \A t \in sess_used \ {s} : Text(t)' = Text(t)
  BY <1>1, SameText
<1>4. \A t \in sess_used \ {s} : OpenFiles(t)' = OpenFiles(t)
  BY <1>1, SameFiles
<1>5. Queues' = [Queues EXCEPT ![s] = <<>>]
  BY <1>1, <1>2, <1>3 DEF Queues
<1>6. Stacks' = [Stacks EXCEPT ![s] = <<>>]
  BY <1>1, <1>2, <1>4 DEF Stacks
<1>7. QED
  BY <1>1, <1>2, <1>5, <1>6, Deletes

LEMMA NewStep ==
    ASSUME IInv, IInv', wi_newsess
    PROVE  Objects!Next
<1>1. PICK s : s = FirstSlot(Sess \ sess_used)
  OBVIOUS
<1>2. s \in Sess /\ s \notin sess_used
  <2>1. Sess \ sess_used # {} /\ Sess \ sess_used \subseteq Nat
    BY SlotSets DEF wi_newsess, IInv, Types
  <2>2. QED
    BY <1>1, <2>1, FirstSlotFree
<1>3. /\ sess_used' = sess_used \cup {s} /\ ret' = 0
      /\ ws' = [ws EXCEPT ![s] = [ZeroSess EXCEPT !.next = wi_sessions]]
      /\ UNCHANGED <<txbuf, file, eo>>
  BY <1>1, Zenon DEF wi_newsess, texts, files, eofiles
<1>4. ws \in [Sess -> WiSess] /\ sess_used \subseteq Sess
  BY DEF IInv, Types
<1>5. /\ ws'[s].txbufs = NULL /\ ws'[s].filelist = NULL
      /\ \A t \in sess_used : ws'[t] = ws[t]
  BY <1>2, <1>3, <1>4 DEF ZeroSess
<1>6. \A t \in sess_used : Chain(t)' = Chain(t) /\ FileList(t)' = FileList(t)
  BY <1>3, <1>5 DEF Chain, FileList
<1>7. \A t \in sess_used : Text(t)' = Text(t) /\ OpenFiles(t)' = OpenFiles(t)
  BY <1>3, <1>6, SameText, SameFiles
<1>8. Chain(s)' = <<>> /\ FileList(s)' = <<>>
  <2>1. IsPath(NULL, txbuf', <<>>, TxSlot) /\ IsPath(NULL, file', <<>>, FileSlot)
    BY EmptyPath
  <2>2. ListOf(NULL, txbuf', TxSlot) = <<>> /\ ListOf(NULL, file', FileSlot) = <<>>
    BY <2>1, SlotSets, ListOfPath
  <2>3. QED
    BY <1>5, <2>2 DEF Chain, FileList
<1>9. Text(s)' = <<>>
  <2>1. PICK q : q = <<>>
    OBVIOUS
  <2>2. Len(q) = 0 /\ Len(q) \in Nat /\ \A i \in 1 .. Len(q) : txbuf'[q[i]].data \in Seq(Unit)
    BY <2>1
  <2>3. TextIn(txbuf', q) = <<>>
    BY <2>2, TextInType
  <2>4. QED
    BY <1>8, <2>1, <2>3, TextNext
<1>10. OpenFiles(s)' = <<>>
  <2>1. FilesIn(file', eo', <<>>) = <<>>
    BY DEF FilesIn
  <2>2. QED
    BY <1>8, <2>1, FilesAre
<1>11. Linked' = Linked \cup {s} /\ s \notin Linked
  BY <1>2, <1>3, PathsThere, LinkedNext
<1>12. Queues' = Queues
  BY <1>2, <1>3, <1>7, <1>9 DEF Queues
<1>13. Stacks' = Stacks
  BY <1>2, <1>3, <1>7, <1>10 DEF Stacks
<1>14. QED
  BY <1>2, <1>3, <1>11, <1>12, <1>13, News

LEMMA RefuseStep ==
    ASSUME IInv, IInv', NEW s \in sess_used, NEW name, FopenNone(s, name) \/ FopenNoSlot(s, name)
    PROVE  Objects!Next
<1>1. UNCHANGED <<sessions, ws, texts, files, eofiles>> /\ ret' \in {WI_E_MEMORY, WI_E_NOFILE}
  BY DEF FopenNone, FopenNoSlot
<1>2. Linked' = Linked /\ Queues' = Queues /\ Stacks' = Stacks
  BY <1>1, NothingSeen
<1>3. QED
  BY <1>1, <1>2, Refuses

LEMMA Stutters ==
    ASSUME Linked' = Linked, Queues' = Queues, Stacks' = Stacks, ret' = ret
    PROVE  UNCHANGED Objects!vars
BY DEF Queues, Stacks, Objects!vars

LEMMA StepObjects ==
    ASSUME IInv, [Next]_vars
    PROVE  [Objects!Next]_(Objects!vars)
<1>1. IInv'
  BY NextKeepsIInv
<1>2. CASE wi_newsess
  BY <1>1, <1>2, NewStep
<1>3. ASSUME NEW s \in sess_used, Call(s)
      PROVE  Objects!Next \/ UNCHANGED Objects!vars
  <2>1. CASE End(s)
    <3>1. UNCHANGED <<sessions, texts, files, eofiles, ret>>
      BY <2>1, Zenon DEF End
    <3>2. \A t \in sess_used : ws'[t].txbufs = ws[t].txbufs /\ ws'[t].filelist = ws[t].filelist
      BY <2>1, EndKeeps DEF IInv, Types
    <3>3. QED
      BY <1>1, <3>1, <3>2, NothingSeen, Stutters
  <2>2. ASSUME NEW unit \in Unit, wi_printf(s, unit) \/ CopyChar(s, unit)
        PROVE  Objects!Next
    BY <1>1, <2>2, PutCases, PutStep
  <2>3. CASE SendHead(s)
    BY <1>1, <2>3, SendStep
  <2>4. ASSUME NEW name, wi_fopen(s, name)
        PROVE  Objects!Next
    BY <1>1, <2>4, OpenStep, RefuseStep DEF wi_fopen
  <2>5. CASE CloseHead(s)
    BY <1>1, <2>5, CloseStep
  <2>6. ASSUME NEW n \in Chunk, ReadHead(s, n)
        PROVE  Objects!Next
    BY <1>1, <2>6, ReadStep
  <2>7. CASE FileLength(s)
    BY <1>1, <2>7, LengthStep
  <2>8. CASE wi_delsess(s)
    BY <1>1, <2>8, DeleteStep
  <2>9. QED
    BY <1>3, <2>1, <2>2, <2>3, <2>4, <2>5, <2>6, <2>7, <2>8 DEF Call
<1>4. CASE UNCHANGED vars
  <2>1. UNCHANGED <<sessions, ws, texts, files, eofiles, ret>>
    BY <1>4 DEF vars, sessions, texts, files, eofiles
  <2>2. QED
    BY <1>1, <2>1, NothingSeen, Stutters
<1>5. QED
  BY <1>2, <1>3, <1>4 DEF Next

LEMMA InitObjects ==
    ASSUME Init
    PROVE  Objects!Init
<1>1. IInv
  BY InitIInv
<1>2. Linked = {} /\ ret = 0 /\ sess_used = {}
  BY <1>1, PathsThere DEF Init
<1>3. Queues = [s \in Sess |-> <<>>] /\ Stacks = [s \in Sess |-> <<>>]
  BY <1>2 DEF Queues, Stacks
<1>4. QED
  BY <1>2, <1>3 DEF Objects!Init, Queues, Stacks

\* The slot tables, links, tails and back pointers are queues of text and stacks of open
\* files to their callers: text leaves a session in the order it came, a file is read from
\* its own position, and a call that finds a table full leaves every session as it was.
THEOREM ObjectsImplemented == Spec => ObjectsSpec
<1>1. Init => Objects!Init
  BY InitObjects
<1>2. IInv /\ [Next]_vars => [Objects!Next]_(Objects!vars)
  BY StepObjects
<1>3. QED
  BY <1>1, <1>2, Reachable, PTL DEF Spec, ObjectsSpec, Objects!Spec

===============================================================================
