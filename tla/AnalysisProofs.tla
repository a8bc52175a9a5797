--------------------------- MODULE AnalysisProofs ---------------------------
(***************************************************************************)
(* What detect_device returns depends on what its tasks found and not on   *)
(* the order in which they ended, for any ports, protocols and priors;     *)
(* what the listener answers to a read is a frame the parser takes for a   *)
(* sound answer, for any read; what parse_pcap joins of a direction is     *)
(* unbroken where it tells of no gap, for any segments; and what it then   *)
(* reports of the frames that were said is true of them, for any dialects, *)
(* flows and budget.                                                       *)
(***************************************************************************)
EXTENDS Analysis, FramingProofs, FiniteSetTheorems

-----------------------------------------------------------------------------
(* Sequences in an order                                                    *)

\* Of any two elements the earlier is before the later, by the relation R.
Ascending(s, R) == \A i, j \in DOMAIN s : i < j => <<s[i], s[j]>> \in R

\* A function that is built like that of Kept.
Keeps(g, s, keep, n) ==
  g = [m \in 0..n |-> IF m = 0 THEN <<>> ELSE IF s[m] \in keep THEN Append(g[m - 1], s[m]) ELSE g[m - 1]]

\* There is one: were there a first length without, the one before it would have
\* one, which is continued.
LEMMA KeepsExist ==
  ASSUME NEW s, NEW keep, NEW n \in Nat
  PROVE  \E g : Keeps(g, s, keep, n)
<1> DEFINE T == {k \in Nat : ~\E g : Keeps(g, s, keep, k)}
<1>1. SUFFICES ASSUME T # {} PROVE FALSE
  OBVIOUS
<1>2. PICK k \in T : \A y \in T : k <= y
  BY <1>1, LeastNumber
<1>3. CASE k = 0
  <2>1. Keeps([m \in 0..0 |-> <<>>], s, keep, 0)
    BY DEF Keeps
  <2> QED BY <1>2, <1>3, <2>1
<1>4. CASE k # 0
  <2>1. k - 1 \in Nat /\ k - 1 \notin T
    BY <1>2, <1>4
  <2>2. PICK g : Keeps(g, s, keep, k - 1)
    BY <2>1
  <2> DEFINE latest == IF s[k] \in keep THEN Append(g[k - 1], s[k]) ELSE g[k - 1]
             h == [m \in 0..k |-> IF m = k THEN latest ELSE g[m]]
  <2>3. \A m \in 0..k : h[m] = IF m = 0 THEN <<>> ELSE IF s[m] \in keep THEN Append(h[m - 1], s[m]) ELSE h[m - 1]
    <3>1. \A m \in 0..k - 1 : g[m] = IF m = 0 THEN <<>> ELSE IF s[m] \in keep THEN Append(g[m - 1], s[m]) ELSE g[m - 1]
      BY <2>2 DEF Keeps
    <3> HIDE DEF latest
    <3> TAKE m \in 0..k
    <3>2. CASE m = k
      <4>1. k - 1 \in 0..k /\ k - 1 # k
        BY <1>2, <1>4
      <4>2. h[m] = latest /\ h[m - 1] = g[k - 1] /\ m # 0
        BY <1>4, <3>2, <4>1
      <4> QED BY <3>2, <4>2 DEF latest
    <3>3. CASE m # k
      <4>1. m \in 0..k - 1 /\ (m # 0 => m - 1 \in 0..k /\ m - 1 # k)
        BY <1>2, <3>3
      <4> QED BY <3>1, <3>3, <4>1
    <3> QED BY <3>2, <3>3
  <2>4. Keeps(h, s, keep, k)
    <3>1. h = [m \in 0..k |-> h[m]]
      OBVIOUS
    <3> HIDE DEF h
    <3> QED BY <2>3, <3>1 DEF Keeps
  <2> QED BY <1>2, <2>4
<1> QED BY <1>3, <1>4

\* What comes after all of a sequence keeps it in order.
LEMMA AppendAscends ==
  ASSUME NEW S, NEW R, NEW s \in Seq(S), NEW x \in S, Ascending(s, R), \A y \in Range(s) : <<y, x>> \in R
  PROVE  Append(s, x) \in Seq(S) /\ Ascending(Append(s, x), R) /\ Range(Append(s, x)) = Range(s) \cup {x}
<1> DEFINE t == Append(s, x)
           n == Len(s)
<1>1. /\ t \in Seq(S) /\ n \in Nat /\ Len(t) = n + 1 /\ t[n + 1] = x /\ \A i \in 1..n : t[i] = s[i]
      /\ DOMAIN s = 1..n /\ DOMAIN t = 1..n + 1
  BY AppendProperties, LenProperties
<1> HIDE DEF t, n
<1>2. ASSUME NEW i \in DOMAIN t, NEW j \in DOMAIN t, i < j PROVE <<t[i], t[j]>> \in R
  <2>1. i \in 1..n /\ t[i] = s[i] /\ s[i] \in Range(s)
    BY <1>1, <1>2 DEF Range
  <2>2. CASE j = n + 1
    BY <1>1, <2>1, <2>2
  <2>3. CASE j # n + 1
    <3>1. j \in 1..n /\ t[j] = s[j]
      BY <1>1, <2>3
    <3> QED BY <1>1, <1>2, <2>1, <3>1 DEF Ascending
  <2> QED BY <2>2, <2>3
<1>3. Range(t) = Range(s) \cup {x}
  <2>1. ASSUME NEW y \in Range(t) PROVE y \in Range(s) \cup {x}
    <3>1. PICK i \in 1..n + 1 : y = t[i]
      BY <1>1 DEF Range
    <3>2. CASE i = n + 1
      BY <1>1, <3>1, <3>2
    <3>3. CASE i # n + 1
      <4>1. i \in 1..n
        BY <1>1, <3>3
      <4> QED BY <1>1, <3>1, <4>1 DEF Range
    <3> QED BY <3>2, <3>3
  <2>2. ASSUME NEW y \in Range(s) PROVE y \in Range(t)
    <3>1. PICK i \in 1..n : y = s[i]
      BY <1>1 DEF Range
    <3>2. i \in 1..n + 1
      BY <1>1
    <3> QED BY <1>1, <3>1, <3>2 DEF Range
  <2>3. x \in Range(t)
    <3>1. n + 1 \in 1..n + 1
      BY <1>1
    <3> QED BY <1>1, <3>1 DEF Range
  <2> QED BY <2>1, <2>2, <2>3
<1> QED BY <1>1, <1>2, <1>3 DEF t, Ascending

\* What is kept of a sequence in order is in order, and is what was to be kept.
LEMMA KeptAscends ==
  ASSUME NEW S, NEW R, NEW s \in Seq(S), NEW keep, Ascending(s, R)
  PROVE  Kept(s, keep) \in Seq(S) /\ Ascending(Kept(s, keep), R) /\ Range(Kept(s, keep)) = Range(s) \cap keep
<1> DEFINE n == Len(s)
           f == CHOOSE g : Keeps(g, s, keep, n)
           Good(m) == /\ f[m] \in Seq(S) /\ Ascending(f[m], R)
                      /\ Range(f[m]) = {s[i] : i \in 1..m} \cap keep
<1>1. n \in Nat /\ DOMAIN s = 1..n /\ \A i \in 1..n : s[i] \in S
  BY LenProperties, ElementOfSeq
<1>2. Kept(s, keep) = f[n]
  BY DEF Kept, Keeps
<1>3. Keeps(f, s, keep, n)
  BY <1>1, KeepsExist
<1> HIDE DEF n, f
<1>4. \A m \in 0..n : f[m] = IF m = 0 THEN <<>> ELSE IF s[m] \in keep THEN Append(f[m - 1], s[m]) ELSE f[m - 1]
  BY <1>3 DEF Keeps
<1>5. \A m \in 0..n : Good(m)
  <2> DEFINE T == {m \in 0..n : ~Good(m)}
  <2>1. SUFFICES ASSUME T # {} PROVE FALSE
    OBVIOUS
  <2>2. PICK m \in T : \A y \in T : m <= y
    <3>1. T \in SUBSET Nat
      OBVIOUS
    <3> HIDE DEF T
    <3> QED BY <2>1, <3>1, LeastNumber
  <2>3. m # 0
    <3>1. SUFFICES ASSUME m = 0 PROVE Good(0)
      BY <2>2
    <3>2. f[0] = <<>>
      BY <1>1, <1>4
    <3>3. DOMAIN <<>> = {} /\ <<>> \in Seq(S) /\ 1..0 = {}
      OBVIOUS
    <3> QED BY <3>2, <3>3 DEF Ascending, Range
  <2>4. m - 1 \in 0..n /\ Good(m - 1) /\ m \in 1..n /\ m \in Nat
    <3>1. m \in 0..n /\ m - 1 \in 0..n /\ ~(m <= m - 1) /\ m \in 1..n
      BY <1>1, <2>2, <2>3
    <3>2. m - 1 \notin T
      BY <2>2, <3>1
    <3> QED BY <3>1, <3>2
  <2>5. {s[i] : i \in 1..m} = {s[i] : i \in 1..m - 1} \cup {s[m]}
    <3>1. \A i : i \in 1..m <=> (i \in 1..m - 1 \/ i = m)
      BY <2>4
    <3> QED BY <3>1
  <2> HIDE DEF T
  <2>6. CASE s[m] \in keep
    <3>1. f[m] = Append(f[m - 1], s[m])
      BY <1>4, <2>2, <2>3, <2>6 DEF T
    <3>2. ASSUME NEW y \in Range(f[m - 1]) PROVE <<y, s[m]>> \in R
      <4>1. PICK i \in 1..m - 1 : y = s[i]
        BY <2>4
      <4>2. i \in 1..n /\ i < m
        BY <1>1, <2>4
      <4> QED BY <1>1, <2>4, <4>1, <4>2 DEF Ascending
    <3>3. f[m] \in Seq(S) /\ Ascending(f[m], R) /\ Range(f[m]) = Range(f[m - 1]) \cup {s[m]}
      BY <1>1, <2>4, <3>1, <3>2, AppendAscends
    <3>4. Range(f[m]) = {s[i] : i \in 1..m} \cap keep
      BY <2>4, <2>5, <2>6, <3>3
    <3> QED BY <2>2, <3>3, <3>4 DEF T
  <2>7. CASE s[m] \notin keep
    <3>1. f[m] = f[m - 1]
      BY <1>4, <2>2, <2>3, <2>7 DEF T
    <3>2. {s[i] : i \in 1..m} \cap keep = {s[i] : i \in 1..m - 1} \cap keep
      BY <2>5, <2>7
    <3> QED BY <2>2, <2>4, <3>1, <3>2 DEF T
  <2> QED BY <2>6, <2>7
<1>6. Good(n)
  <2>1. n \in 0..n
    BY <1>1
  <2> HIDE DEF Good
  <2> QED BY <1>5, <2>1
<1>7. Range(s) = {s[i] : i \in 1..n}
  BY <1>1 DEF Range
<1> QED BY <1>2, <1>6, <1>7

\* So does a sequence all of whose elements come after it.
LEMMA JoinAscends ==
  ASSUME NEW S, NEW R, NEW s \in Seq(S), NEW t \in Seq(S), Ascending(s, R), Ascending(t, R),
         \A x \in Range(s), y \in Range(t) : <<x, y>> \in R
  PROVE  s \o t \in Seq(S) /\ Ascending(s \o t, R) /\ Range(s \o t) = Range(s) \cup Range(t)
<1> DEFINE u == s \o t
           m == Len(s)
           n == Len(t)
<1>1. /\ u \in Seq(S) /\ m \in Nat /\ n \in Nat
      /\ DOMAIN s = 1..m /\ DOMAIN t = 1..n /\ DOMAIN u = 1..m + n
  BY ConcatProperties, LenProperties
<1>2. \A i \in 1..m + n : u[i] = IF i <= m THEN s[i] ELSE t[i - m]
  BY ConcatProperties
<1> HIDE DEF u, m, n
<1>3. \A i \in 1..m : i \in 1..m + n /\ u[i] = s[i]
  BY <1>1, <1>2
<1>4. \A i \in 1..n : m + i \in 1..m + n /\ u[m + i] = t[i]
  <2> TAKE i \in 1..n
  <2>1. PICK k : k = m + i
    OBVIOUS
  <2>2. k \in 1..m + n /\ ~(k <= m) /\ k - m = i
    BY <1>1, <2>1
  <2>3. u[k] = t[i]
    BY ONLY <1>2, <2>2
  <2> QED BY <2>1, <2>2, <2>3
<1>5. \A i \in 1..m + n : i \in 1..m \/ \E k \in 1..n : i = m + k
  <2> TAKE i \in 1..m + n
  <2>1. CASE i <= m
    BY <1>1, <2>1
  <2>2. CASE ~(i <= m)
    <3>1. i - m \in 1..n /\ i = m + (i - m)
      BY <1>1, <2>2
    <3> QED BY <3>1
  <2> QED BY <2>1, <2>2
<1>6. ASSUME NEW i \in DOMAIN u, NEW j \in DOMAIN u, i < j PROVE <<u[i], u[j]>> \in R
  <2>1. CASE j \in 1..m
    <3>1. i \in 1..m
      BY <1>1, <1>6, <2>1
    <3> QED BY <1>1, <1>3, <1>6, <2>1, <3>1 DEF Ascending
  <2>2. CASE i \in 1..m /\ j \notin 1..m
    <3>1. PICK k \in 1..n : j = m + k
      BY <1>1, <1>5, <2>2
    <3> QED BY <1>1, <1>3, <1>4, <2>2, <3>1 DEF Range
  <2>3. CASE i \notin 1..m /\ j \notin 1..m
    <3>1. PICK h \in 1..n : i = m + h
      BY <1>1, <1>5, <2>3
    <3>2. PICK k \in 1..n : j = m + k
      BY <1>1, <1>5, <2>3
    <3>3. h < k
      BY <1>1, <1>6, <3>1, <3>2
    <3> QED BY <1>1, <1>4, <3>1, <3>2, <3>3 DEF Ascending
  <2> QED BY <2>1, <2>2, <2>3
<1>7. Range(u) = Range(s) \cup Range(t)
  <2>1. ASSUME NEW y \in Range(u) PROVE y \in Range(s) \cup Range(t)
    <3>1. PICK i \in 1..m + n : y = u[i]
      BY <1>1 DEF Range
    <3> QED BY <1>1, <1>3, <1>4, <1>5, <3>1 DEF Range
  <2>2. Range(s) \subseteq Range(u)
    BY <1>1, <1>3 DEF Range
  <2>3. Range(t) \subseteq Range(u)
    BY <1>1, <1>4 DEF Range
  <2> QED BY <2>1, <2>2, <2>3
<1> QED BY <1>1, <1>6, <1>7 DEF u, Ascending

\* Sequences in order, joined in order, make a sequence in order.
LEMMA FlattenedAscends ==
  ASSUME NEW S, NEW R, NEW seqs \in Seq(Seq(S)), \A i \in DOMAIN seqs : Ascending(seqs[i], R),
         \A i, j \in DOMAIN seqs : i < j => \A x \in Range(seqs[i]), y \in Range(seqs[j]) : <<x, y>> \in R
  PROVE  /\ FlattenSeq(seqs) \in Seq(S) /\ Ascending(FlattenSeq(seqs), R)
         /\ Range(FlattenSeq(seqs)) = UNION {Range(seqs[i]) : i \in DOMAIN seqs}
<1> DEFINE n == Len(seqs)
           G == CHOOSE g : Joins(g, seqs, n)
           Good(m) == /\ G[m] \in Seq(S) /\ Ascending(G[m], R)
                      /\ \A x : x \in Range(G[m]) <=> \E i \in 1..m : x \in Range(seqs[i])
<1>1. n \in Nat /\ DOMAIN seqs = 1..n /\ \A i \in 1..n : seqs[i] \in Seq(S)
  BY LenProperties, ElementOfSeq
<1>2. CASE n = 0
  <2>1. FlattenSeq(seqs) = <<>>
    BY <1>2 DEF FlattenSeq
  <2>2. DOMAIN <<>> = {} /\ <<>> \in Seq(S) /\ DOMAIN seqs = {}
    BY <1>1, <1>2
  <2> QED BY <2>1, <2>2 DEF Ascending, Range
<1>3. CASE n # 0
  <2>1. FlattenSeq(seqs) = G[n]
    BY <1>3 DEF FlattenSeq, Joins
  <2>2. Joins(G, seqs, n)
    BY <1>1, JoinsExist
  <2> HIDE DEF n, G
  <2>3. \A i \in 1..n : G[i] = IF i = 1 THEN seqs[i] ELSE G[i - 1] \o seqs[i]
    BY <2>2 DEF Joins
  <2>4. \A m \in 1..n : Good(m)
    <3> DEFINE T == {m \in 1..n : ~Good(m)}
    <3>1. SUFFICES ASSUME T # {} PROVE FALSE
      OBVIOUS
    <3>2. PICK m \in T : \A y \in T : m <= y
      <4>1. T \in SUBSET Nat
        BY <1>1
      <4> HIDE DEF T
      <4> QED BY <3>1, <4>1, LeastNumber
    <3>3. m \in 1..n /\ m \in Nat /\ ~Good(m)
      BY <1>1, <3>2
    <3>4. CASE m = 1
      <4>1. G[m] = seqs[1] /\ \A i : i \in 1..m <=> i = 1
        BY <2>3, <3>3, <3>4
      <4> QED BY <1>1, <3>3, <3>4, <4>1
    <3>5. CASE m # 1
      <4>1. m - 1 \in 1..n /\ ~(m <= m - 1)
        BY <1>1, <3>3, <3>5
      <4>2. Good(m - 1)
        <5>1. m - 1 \notin T
          BY <3>2, <4>1
        <5> QED BY <4>1, <5>1
      <4>3. G[m] = G[m - 1] \o seqs[m]
        BY <2>3, <3>3, <3>5
      <4>4. \A i : i \in 1..m <=> (i \in 1..m - 1 \/ i = m)
        BY <3>3, <3>5
      <4>5. ASSUME NEW x \in Range(G[m - 1]), NEW y \in Range(seqs[m]) PROVE <<x, y>> \in R
        <5>1. PICK i \in 1..m - 1 : x \in Range(seqs[i])
          BY <4>2
        <5>2. i \in 1..n /\ i < m
          BY <1>1, <3>3
        <5> QED BY <1>1, <3>3, <5>1, <5>2
      <4> HIDE DEF T
      <4>6. G[m] \in Seq(S) /\ Ascending(G[m], R) /\ Range(G[m]) = Range(G[m - 1]) \cup Range(seqs[m])
        BY <1>1, <3>3, <4>2, <4>3, <4>5, JoinAscends
      <4> QED BY <3>3, <4>2, <4>4, <4>6
    <3> QED BY <3>4, <3>5
  <2>5. n \in 1..n
    BY <1>1, <1>3
  <2>6. Good(n)
    <3> HIDE DEF Good
    <3> QED BY <2>4, <2>5
  <2>7. Range(G[n]) = UNION {Range(seqs[i]) : i \in DOMAIN seqs}
    <3>1. \A x : x \in UNION {Range(seqs[i]) : i \in DOMAIN seqs} <=> \E i \in 1..n : x \in Range(seqs[i])
      BY <1>1
    <3> QED BY <2>6, <3>1
  <2> QED BY <2>1, <2>6, <2>7
<1> QED BY <1>2, <1>3

\* In an order that does not put an element before itself, none occurs twice.
LEMMA AscendingCounts ==
  ASSUME NEW S, NEW R, NEW s \in Seq(S), Ascending(s, R), \A x \in Range(s) : <<x, x>> \notin R
  PROVE  Len(s) = Cardinality(Range(s))
<1> DEFINE n == Len(s)
<1>1. n \in Nat /\ DOMAIN s = 1..n /\ s \in [1..n -> S]
  BY LenProperties
<1> HIDE DEF n
<1>2. ASSUME NEW i \in 1..n, NEW j \in 1..n, s[i] = s[j] PROVE i = j
  <2>1. s[i] \in Range(s)
    BY <1>1 DEF Range
  <2>2. ~(i < j) /\ ~(j < i)
    BY <1>1, <1>2, <2>1 DEF Ascending
  <2> QED BY <1>1, <2>2
<1>3. s \in [1..n -> Range(s)] /\ IsInjective(s) /\ \A y \in Range(s) : \E i \in 1..n : s[i] = y
  BY <1>1, <1>2 DEF Range, IsInjective
<1>4. s \in Injection(1..n, Range(s)) /\ s \in Surjection(1..n, Range(s))
  BY <1>3 DEF Injection, Surjection
<1>5. ExistsBijection(1..n, Range(s))
  BY <1>4 DEF ExistsBijection, Bijection
<1>6. IsFiniteSet(1..n) /\ Cardinality(1..n) = n
  BY <1>1, FS_Interval
<1> QED BY <1>5, <1>6, FS_Bijection DEF n

-----------------------------------------------------------------------------
(* The order of ports and protocols                                         *)

\* The order in which a sequence has its elements.
OrderOf(s) == {xy \in Range(s) \X Range(s) : \E i, j \in DOMAIN s : i < j /\ xy = <<s[i], s[j]>>}

\* A pair is before another by its port or, on the same port, by its protocol.
PAIR == Range(Ports) \X Range(Protocols)
Lex  == {ab \in PAIR \X PAIR :
           \/ <<ab[1][1], ab[2][1]>> \in OrderOf(Ports)
           \/ ab[1][1] = ab[2][1] /\ <<ab[1][2], ab[2][2]>> \in OrderOf(Protocols)}

\* A sequence is in its own order, of which no pair can be turned round when
\* none of its elements occurs twice.
LEMMA OwnOrder ==
  ASSUME NEW S, NEW s \in Seq(S), IsInjective(s)
  PROVE  Ascending(s, OrderOf(s)) /\ \A x, y : <<x, y>> \in OrderOf(s) => <<y, x>> \notin OrderOf(s)
<1>1. DOMAIN s = 1..Len(s) /\ Len(s) \in Nat
  BY LenProperties
<1>2. ASSUME NEW i \in DOMAIN s, NEW j \in DOMAIN s, i < j PROVE <<s[i], s[j]>> \in OrderOf(s)
  BY <1>2 DEF OrderOf, Range
<1>3. ASSUME NEW x, NEW y, <<x, y>> \in OrderOf(s), <<y, x>> \in OrderOf(s) PROVE FALSE
  <2>1. PICK i \in DOMAIN s, j \in DOMAIN s : i < j /\ x = s[i] /\ y = s[j]
    BY <1>3 DEF OrderOf
  <2>2. PICK h \in DOMAIN s, k \in DOMAIN s : h < k /\ y = s[h] /\ x = s[k]
    BY <1>3 DEF OrderOf
  <2>3. i = k /\ j = h
    BY <2>1, <2>2 DEF IsInjective
  <2> QED BY <1>1, <2>1, <2>2, <2>3
<1> QED BY <1>2, <1>3 DEF Ascending

\* No two pairs are each before the other.
LEMMA LexIsStrict == \A a, b : <<a, b>> \in Lex => <<b, a>> \notin Lex
<1>1. \A x, y : <<x, y>> \in OrderOf(Ports) => <<y, x>> \notin OrderOf(Ports)
  BY DetectionAssumption, OwnOrder
<1>2. \A x, y : <<x, y>> \in OrderOf(Protocols) => <<y, x>> \notin OrderOf(Protocols)
  BY DetectionAssumption, OwnOrder
<1> QED BY <1>1, <1>2 DEF Lex

\* The pairs of some of the ports, in their order, are in the order of pairs.
LEMMA PairsAscend ==
  ASSUME NEW ports \in Seq(Int), Ascending(ports, OrderOf(Ports)), Range(ports) \subseteq Range(Ports)
  PROVE  /\ PairsOf(ports) \in Seq(PAIR) /\ Ascending(PairsOf(ports), Lex)
         /\ Range(PairsOf(ports)) = Range(ports) \X Range(Protocols)
<1> DEFINE row(p) == [j \in DOMAIN Protocols |-> <<p, Protocols[j]>>]
           rows == [i \in DOMAIN ports |-> row(ports[i])]
<1>1. /\ Len(ports) \in Nat /\ DOMAIN ports = 1..Len(ports)
      /\ Len(Protocols) \in Nat /\ DOMAIN Protocols = 1..Len(Protocols)
  BY DetectionAssumption, LenProperties
<1>2. ASSUME NEW p \in Range(Ports)
      PROVE  row(p) \in Seq(PAIR) /\ Ascending(row(p), Lex) /\ Range(row(p)) = {p} \X Range(Protocols)
  <2>1. \A j \in DOMAIN Protocols : <<p, Protocols[j]>> \in PAIR
    BY DEF PAIR, Range
  <2>2. row(p) \in Seq(PAIR)
    BY <1>1, <2>1
  <2>3. ASSUME NEW i \in DOMAIN Protocols, NEW j \in DOMAIN Protocols, i < j PROVE <<row(p)[i], row(p)[j]>> \in Lex
    <3>1. <<Protocols[i], Protocols[j]>> \in OrderOf(Protocols)
      BY <2>3, DetectionAssumption, OwnOrder DEF Ascending
    <3> QED BY <2>1, <3>1 DEF Lex
  <2>4. Range(row(p)) = {p} \X Range(Protocols)
    BY DEF Range
  <2> QED BY <2>2, <2>3, <2>4 DEF Ascending
<1> HIDE DEF row
<1>3. \A i \in DOMAIN ports : ports[i] \in Range(ports) /\ ports[i] \in Range(Ports)
  BY DEF Range
<1>4. rows \in Seq(Seq(PAIR)) /\ DOMAIN rows = DOMAIN ports
  BY <1>1, <1>2, <1>3
<1>5. \A i \in DOMAIN rows : rows[i] = row(ports[i]) /\ Ascending(rows[i], Lex) /\ Range(rows[i]) = {ports[i]} \X Range(Protocols)
  BY <1>2, <1>3, <1>4
<1>6. PairsOf(ports) = FlattenSeq(rows)
  BY DEF PairsOf, row
<1> HIDE DEF rows
<1>7. ASSUME NEW i \in DOMAIN rows, NEW j \in DOMAIN rows, i < j, NEW x \in Range(rows[i]), NEW y \in Range(rows[j])
      PROVE  <<x, y>> \in Lex
  <2>1. <<ports[i], ports[j]>> \in OrderOf(Ports)
    BY <1>4, <1>7 DEF Ascending
  <2>2. x \in PAIR /\ y \in PAIR /\ x[1] = ports[i] /\ y[1] = ports[j]
    BY <1>3, <1>4, <1>5, <1>7 DEF PAIR
  <2> QED BY <2>1, <2>2 DEF Lex
<1>8. /\ FlattenSeq(rows) \in Seq(PAIR) /\ Ascending(FlattenSeq(rows), Lex)
      /\ Range(FlattenSeq(rows)) = UNION {Range(rows[i]) : i \in DOMAIN rows}
  BY <1>4, <1>5, <1>7, FlattenedAscends
<1>9. UNION {Range(rows[i]) : i \in DOMAIN rows} = Range(ports) \X Range(Protocols)
  <2>1. ASSUME NEW x \in UNION {Range(rows[i]) : i \in DOMAIN rows} PROVE x \in Range(ports) \X Range(Protocols)
    <3>1. PICK i \in DOMAIN rows : x \in Range(rows[i])
      OBVIOUS
    <3> QED BY <1>3, <1>4, <1>5, <3>1
  <2>2. ASSUME NEW x \in Range(ports) \X Range(Protocols) PROVE x \in UNION {Range(rows[i]) : i \in DOMAIN rows}
    <3>1. PICK i \in DOMAIN ports : x[1] = ports[i]
      BY DEF Range
    <3>2. x \in {ports[i]} \X Range(Protocols)
      BY <3>1
    <3> QED BY <1>4, <1>5, <3>1, <3>2
  <2> QED BY <2>1, <2>2
<1> QED BY <1>6, <1>8, <1>9

\* The place of a pair among all pairs tells how two pairs are ordered.
Place(pair) == CHOOSE i \in DOMAIN PairsOf(Ports) : PairsOf(Ports)[i] = pair

LEMMA PlaceFollowsLex == \A a, b : <<a, b>> \in Lex => Place(a) < Place(b)
<1> DEFINE all == PairsOf(Ports)
<1>1. all \in Seq(PAIR) /\ Ascending(all, Lex) /\ Range(all) = PAIR
  BY DetectionAssumption, OwnOrder, PairsAscend DEF PAIR
<1>2. Len(all) \in Nat /\ DOMAIN all = 1..Len(all)
  BY <1>1, LenProperties
<1>3. ASSUME NEW a \in PAIR PROVE Place(a) \in DOMAIN all /\ all[Place(a)] = a
  <2>1. \E i \in DOMAIN all : all[i] = a
    BY <1>1 DEF Range
  <2> QED BY <2>1 DEF Place
<1> HIDE DEF all
<1>4. ASSUME NEW a, NEW b, <<a, b>> \in Lex PROVE Place(a) < Place(b)
  <2>1. a \in PAIR /\ b \in PAIR
    BY <1>4 DEF Lex
  <2>2. <<b, a>> \notin Lex
    BY <1>4, LexIsStrict
  <2>3. Place(a) # Place(b)
    BY <1>3, <1>4, <2>1, <2>2
  <2>4. ~(Place(b) < Place(a))
    BY <1>1, <1>3, <2>1, <2>2 DEF Ascending
  <2>5. Place(a) \in Int /\ Place(b) \in Int
    BY <1>2, <1>3, <2>1
  <2> QED BY <2>3, <2>4, <2>5
<1> QED BY <1>4

-----------------------------------------------------------------------------
(* What the stages make of the results                                      *)

\* The open ports are in the order of the ports, without repetition.
LEMMA OpenPortsAscend ==
  /\ OpenPorts \in Seq(Int) /\ Ascending(OpenPorts, OrderOf(Ports))
  /\ Range(OpenPorts) = {p \in Range(Ports) : p \in DOMAIN scanned /\ scanned[p] = "open"}
<1>1. Ascending(Ports, OrderOf(Ports)) /\ Ports \in Seq(Int)
  BY DetectionAssumption, OwnOrder
<1>2. Range(OpenPorts) = Range(Ports) \cap {p \in DOMAIN scanned : scanned[p] = "open"}
  BY <1>1, KeptAscends DEF OpenPorts
<1> QED BY <1>1, <1>2, KeptAscends DEF OpenPorts

\* When all of them have been probed, the candidates are the pairs that were
\* reached, in the order of pairs.
LEMMA CollectAscends ==
  ASSUME DOMAIN probes = Range(PairsOf(OpenPorts))
  PROVE  Collect \in Seq(PAIR) /\ Ascending(Collect, Lex) /\ Range(Collect) = Reached
<1>1. Range(OpenPorts) \subseteq Range(Ports)
  BY OpenPortsAscend
<1>2. PairsOf(OpenPorts) \in Seq(PAIR) /\ Ascending(PairsOf(OpenPorts), Lex)
  BY <1>1, OpenPortsAscend, PairsAscend
<1>3. Collect \in Seq(PAIR) /\ Ascending(Collect, Lex) /\ Range(Collect) = Range(PairsOf(OpenPorts)) \cap Reached
  BY <1>2, KeptAscends DEF Collect
<1>4. Reached \subseteq Range(PairsOf(OpenPorts))
  BY DEF Reached
<1> QED BY <1>3, <1>4

\* The open ports without a candidate are the unknown ones.
LEMMA UnknownRemain ==
  ASSUME NEW found \in Seq(PAIR)
  PROVE  Range(Unknown(found)) = {p \in Range(OpenPorts) : \A pair \in Range(found) : pair[1] # p}
<1> DEFINE rest == {p \in Range(OpenPorts) : \A i \in DOMAIN found : found[i][1] # p}
<1>1. Range(Unknown(found)) = Range(OpenPorts) \cap rest
  <2> HIDE DEF rest
  <2>1. Unknown(found) = Kept(OpenPorts, rest)
    BY DEF Unknown, rest
  <2> QED BY <2>1, OpenPortsAscend, KeptAscends
<1>2. \A p : (\A i \in DOMAIN found : found[i][1] # p) <=> (\A pair \in Range(found) : pair[1] # p)
  BY DEF Range
<1> QED BY <1>1, <1>2

\* The order of the ranking.
Before(a, b) == Rank(a) < Rank(b) \/ (Rank(a) = Rank(b) /\ Place(a) < Place(b))
BEFORE == {ab \in PAIR \X PAIR : Before(ab[1], ab[2])}

\* The ranking has the same candidates, in that order.
LEMMA RankedAscends ==
  ASSUME NEW found \in Seq(PAIR), Ascending(found, Lex)
  PROVE  Ranked(found) \in Seq(PAIR) /\ Ascending(Ranked(found), BEFORE) /\ Range(Ranked(found)) = Range(found)
<1> DEFINE group(r) == Kept(found, {pair \in Range(found) : Rank(pair) = r - 1})
           groups == [r \in 1..4 |-> group(r)]
<1>1. \A pair : Rank(pair) \in 0..3
  BY DEF Rank
<1>2. ASSUME NEW r \in 1..4
      PROVE  /\ group(r) \in Seq(PAIR) /\ Ascending(group(r), Lex)
             /\ Range(group(r)) = {pair \in Range(found) : Rank(pair) = r - 1}
  <2> DEFINE keep == {pair \in Range(found) : Rank(pair) = r - 1}
  <2>1. Range(found) \cap keep = keep
    OBVIOUS
  <2> HIDE DEF keep
  <2>2. /\ Kept(found, keep) \in Seq(PAIR) /\ Ascending(Kept(found, keep), Lex)
        /\ Range(Kept(found, keep)) = Range(found) \cap keep
    BY KeptAscends
  <2> QED BY <2>1, <2>2 DEF keep
<1>3. Ranked(found) = FlattenSeq(groups)
  BY DEF Ranked
<1> HIDE DEF group
<1>4. groups \in Seq(Seq(PAIR)) /\ DOMAIN groups = 1..4 /\ \A r \in 1..4 : groups[r] = group(r)
  BY <1>2
<1> HIDE DEF groups
<1>5. ASSUME NEW r \in DOMAIN groups PROVE Ascending(groups[r], BEFORE)
  <2>1. r \in 1..4 /\ groups[r] = group(r)
    BY <1>4
  <2>2. groups[r] \in Seq(PAIR) /\ Ascending(groups[r], Lex)
    BY <1>2, <2>1
  <2>3. \A x \in Range(groups[r]) : x \in PAIR /\ Rank(x) = r - 1
    <3>1. Range(found) \subseteq PAIR
      BY LenProperties DEF Range
    <3> QED BY <1>2, <2>1, <3>1
  <2>4. ASSUME NEW i \in DOMAIN groups[r], NEW j \in DOMAIN groups[r], i < j
        PROVE  <<groups[r][i], groups[r][j]>> \in BEFORE
    <3> DEFINE a == groups[r][i]
               b == groups[r][j]
    <3>1. <<a, b>> \in Lex
      BY <2>2, <2>4 DEF Ascending
    <3>2. a \in Range(groups[r]) /\ b \in Range(groups[r])
      BY DEF Range
    <3>3. Place(a) < Place(b)
      BY <3>1, PlaceFollowsLex
    <3> HIDE DEF a, b
    <3>4. <<a, b>> \in BEFORE
      BY <2>3, <3>2, <3>3 DEF BEFORE, Before
    <3> QED BY <3>4 DEF a, b
  <2> QED BY <2>4 DEF Ascending
<1>6. ASSUME NEW r \in DOMAIN groups, NEW q \in DOMAIN groups, r < q,
             NEW x \in Range(groups[r]), NEW y \in Range(groups[q])
      PROVE  <<x, y>> \in BEFORE
  <2>1. x \in Range(found) /\ y \in Range(found) /\ Rank(x) = r - 1 /\ Rank(y) = q - 1
    BY <1>2, <1>4, <1>6
  <2>2. Range(found) \subseteq PAIR
    BY LenProperties DEF Range
  <2>3. Rank(x) < Rank(y)
    BY <1>4, <1>6, <2>1
  <2> QED BY <2>1, <2>2, <2>3 DEF BEFORE, Before
<1>7. /\ FlattenSeq(groups) \in Seq(PAIR) /\ Ascending(FlattenSeq(groups), BEFORE)
      /\ Range(FlattenSeq(groups)) = UNION {Range(groups[r]) : r \in DOMAIN groups}
  BY <1>4, <1>5, <1>6, FlattenedAscends
<1>8. UNION {Range(groups[r]) : r \in DOMAIN groups} = Range(found)
  <2>1. ASSUME NEW x \in Range(found) PROVE \E r \in 1..4 : x \in Range(groups[r])
    <3>1. PICK r : r = Rank(x) + 1
      OBVIOUS
    <3>2. r \in 1..4 /\ Rank(x) = r - 1
      BY <1>1, <3>1
    <3> QED BY <1>2, <1>4, <3>2
  <2>2. ASSUME NEW r \in 1..4 PROVE Range(groups[r]) \subseteq Range(found)
    BY <1>2, <1>4
  <2> QED BY <1>4, <2>1, <2>2
<1> QED BY <1>3, <1>7, <1>8

-----------------------------------------------------------------------------
(* The detection                                                            *)

\* What is known at each stage: every port has been scanned before the first is
\* probed, every pair probed before they are collected, and the candidates are
\* what was collected and, at the end, ranked.
DetectionInv ==
  /\ stage \notin {"called", "scan"} => DOMAIN scanned = Range(Ports)
  /\ stage \in {"deep", "done"} => DOMAIN probes = Range(PairsOf(OpenPorts)) /\ unknown = Unknown(Collect)
  /\ stage = "deep" => candidates = Collect
  /\ stage = "done" => candidates = Ranked(Collect)

\* A call of detect_device keeps to that, and the other tools leave it alone.
THEOREM DetectionInvHolds == Spec => []DetectionInv
<1>1. Init => DetectionInv
  BY DEF Init, DetectionInit, DetectionInv
<1>2. DetectionInv /\ [Next]_vars => DetectionInv'
  <2> SUFFICES ASSUME DetectionInv, [Next]_vars PROVE DetectionInv'
    OBVIOUS
  <2>1. CASE UNCHANGED detection_vars
    BY <2>1 DEF DetectionInv, detection_vars, OpenPorts, Unknown, Collect, Reached, Ranked, Rank, Verified
  <2>2. CASE Detect
    BY <2>2 DEF DetectionInv, Detect
  <2>3. CASE ScanPort
    BY <2>3 DEF DetectionInv, ScanPort
  <2>4. CASE ScanEnds
    BY <2>4 DEF DetectionInv, ScanEnds
  <2>5. CASE Fingerprint
    BY <2>5 DEF DetectionInv, Fingerprint
  <2>6. CASE FingerprintEnds
    BY <2>6 DEF DetectionInv, FingerprintEnds, OpenPorts, Unknown, Collect, Reached
  <2>7. CASE DeepRead
    BY <2>7 DEF DetectionInv, DeepRead, OpenPorts, Unknown, Collect, Reached
  <2>8. CASE DetectReturns
    BY <2>8 DEF DetectionInv, DetectReturns, OpenPorts, Unknown, Collect, Reached, Ranked, Rank, Verified
  <2> QED
    BY <2>1, <2>2, <2>3, <2>4, <2>5, <2>6, <2>7, <2>8 DEF Next, DetectionNext, vars
<1> QED BY <1>1, <1>2, PTL DEF Spec

\* So what is returned depends on what the tasks found only.
THEOREM RankingIsByOutcomeHolds == Spec => []RankingIsByOutcome
<1>1. DetectionInv => RankingIsByOutcome
  <2> SUFFICES ASSUME DetectionInv, stage = "done"
               PROVE  /\ Range(candidates) = Reached /\ Len(candidates) = Cardinality(Reached)
                      /\ \A i, j \in DOMAIN candidates : i < j => Before(candidates[i], candidates[j])
                      /\ Range(unknown) = {p \in Range(Ports) : scanned[p] = "open" /\ \A pair \in Reached : pair[1] # p}
    BY DEF RankingIsByOutcome, Before, Place
  <2>1. /\ DOMAIN scanned = Range(Ports) /\ DOMAIN probes = Range(PairsOf(OpenPorts))
        /\ unknown = Unknown(Collect) /\ candidates = Ranked(Collect)
    BY DEF DetectionInv
  <2>2. Collect \in Seq(PAIR) /\ Ascending(Collect, Lex) /\ Range(Collect) = Reached
    BY <2>1, CollectAscends
  <2>3. candidates \in Seq(PAIR) /\ Ascending(candidates, BEFORE) /\ Range(candidates) = Reached
    BY <2>1, <2>2, RankedAscends
  <2>4. ASSUME NEW x, <<x, x>> \in BEFORE PROVE FALSE
    <3>1. x \in PAIR /\ Before(x, x) /\ Rank(x) \in Int
      BY <2>4 DEF BEFORE, Rank
    <3>2. Place(x) < Place(x)
      BY <3>1 DEF Before
    <3>3. Place(x) \in Int
      <4>1. PairsOf(Ports) \in Seq(PAIR) /\ Range(PairsOf(Ports)) = PAIR
        BY DetectionAssumption, OwnOrder, PairsAscend DEF PAIR
      <4>2. Place(x) \in DOMAIN PairsOf(Ports)
        BY <3>1, <4>1 DEF Place, Range
      <4> QED BY <4>1, <4>2, LenProperties
    <3> QED BY <3>2, <3>3
  <2>5. Len(candidates) = Cardinality(Reached)
    BY <2>3, <2>4, AscendingCounts
  <2>6. \A i, j \in DOMAIN candidates : i < j => Before(candidates[i], candidates[j])
    BY <2>3 DEF Ascending, BEFORE
  <2>7. Range(unknown) = {p \in Range(Ports) : scanned[p] = "open" /\ \A pair \in Reached : pair[1] # p}
    <3>1. Range(unknown) = {p \in Range(OpenPorts) : \A pair \in Reached : pair[1] # p}
      BY <2>1, <2>2, UnknownRemain
    <3> QED BY <2>1, <3>1, OpenPortsAscend
  <2> QED BY <2>3, <2>5, <2>6, <2>7
<1> QED BY <1>1, DetectionInvHolds, PTL

-----------------------------------------------------------------------------
(* The capture                                                              *)

\* Nothing but 0 turns of the numbers is less than a turn either way.
LEMMA LessThanATurn ==
  ASSUME NEW m \in Nat \ {0}, NEW d \in Int, -m < m * d, m * d < m
  PROVE  d = 0
<1>1. CASE d >= 1
  <2>1. m * d >= m * 1
    BY <1>1
  <2> QED BY <2>1
<1>2. CASE d <= -1
  <2>1. m * d <= m * (-1)
    BY <1>2
  <2> QED BY <2>1
<1> QED BY <1>1, <1>2

\* A number is its remainder and some turns.
LEMMA Remainder ==
  ASSUME NEW n \in Nat, NEW m \in Nat \ {0}
  PROVE  n % m \in Nat /\ \E turns \in Int : n = m * turns + (n % m)
<1>1. n % m \in 0..m - 1
  OBVIOUS
<1>2. n = m * (n \div m) + (n % m)
  OBVIOUS
<1>3. n \div m \in Int
  OBVIOUS
<1>4. \E turns \in Int : n = m * turns + (n % m)
  <2> WITNESS n \div m \in Int
  <2> QED BY <1>2
<1>5. n % m \in Nat
  BY <1>1
<1> QED BY <1>4, <1>5

\* Two numbers with the same rest are as far apart as what they are with it.
LEMMA Apart ==
  ASSUME NEW p \in Int, NEW q \in Int, NEW e \in Int, NEW x \in Int, NEW y \in Int, x = p + e, y = q + e
  PROVE p - q = x - y
OBVIOUS

\* Numbers less than a turn apart with the same remainder are the same.
LEMMA SameTurn ==
  ASSUME NEW m \in Nat \ {0}, NEW a \in Int, NEW b \in Int, NEW e \in Int, NEW x \in Int, NEW y \in Int,
         x = m * a + e, y = m * b + e, -m < x - y, x - y < m
  PROVE  x = y
<1>1. m * a \in Int /\ m * b \in Int
  OBVIOUS
<1>2. m * (a - b) = m * a - m * b
  OBVIOUS
<1>3. m * a - m * b = x - y
  BY <1>1, Apart
<1>4. a - b = 0
  BY <1>2, <1>3, LessThanATurn
<1>5. a = b
  BY <1>4
<1> QED BY <1>5

\* What is farther on is so by as much from wherever it is counted.
LEMMA FartherOn ==
  ASSUME NEW p \in Int, NEW e \in Int, NEW x \in Int, NEW l \in Int, x = p + e
  PROVE  x + l = p + (e + l)
OBVIOUS

\* What was joined is a piece of the stream, and the number expected next is the
\* one of its end, but for turns.
Piece(stream, first, buffer, start) ==
  /\ start + Len(buffer.parts) <= Len(stream)
  /\ \A i \in 1..Len(buffer.parts) : buffer.parts[i] = stream[start + i]
  /\ \E turns \in Int : first + start + Len(buffer.parts) = SeqModulus * turns + buffer.expected

\* A buffer has nothing and expects nothing, or it tells of a gap, or it has a piece.
Orderly(stream, first, buffer, start) ==
  /\ buffer \in [parts : Seq(Int), expected : Int, gaps : Nat]
  /\ \/ buffer.expected = -1 /\ buffer.parts = <<>> /\ start = -1
     \/ buffer.expected \in Nat /\ start \in Nat /\ (buffer.gaps = 0 => Piece(stream, first, buffer, start))

\* A buffer with other bytes and another number.
LEMMA GrownIs ==
  ASSUME NEW buffer \in [parts : Seq(Int), expected : Int, gaps : Nat], NEW p \in Seq(Int), NEW e \in Int
  PROVE  [buffer EXCEPT !.parts = p, !.expected = e] = [parts |-> p, expected |-> e, gaps |-> buffer.gaps]
<1>1. [buffer EXCEPT !.parts = p] = [parts |-> p, expected |-> buffer.expected, gaps |-> buffer.gaps]
  OBVIOUS
<1>2. [[parts |-> p, expected |-> buffer.expected, gaps |-> buffer.gaps] EXCEPT !.expected = e]
      = [parts |-> p, expected |-> e, gaps |-> buffer.gaps]
  OBVIOUS
<1> QED BY <1>1, <1>2

\* Adding a segment of the stream, whichever, keeps a buffer so.
LEMMA AddKeeps ==
  ASSUME NEW stream \in Seq(Int), Len(stream) < SeqModulus, NEW first \in Nat,
         NEW buffer, NEW start, Orderly(stream, first, buffer, start),
         NEW from \in Nat, NEW upto \in Nat, from <= upto, upto <= Len(stream),
         NEW data \in Seq(Int), Len(data) = upto - from, \A i \in 1..Len(data) : data[i] = stream[from + i]
  PROVE  Orderly(stream, first, Add(buffer, (first + from) % SeqModulus, data),
                 IF start = -1 /\ data # <<>> THEN from ELSE start)
<1> DEFINE seq == (first + from) % SeqModulus
           grown == [buffer EXCEPT !.parts = @ \o data, !.expected = seq + Len(data)]
<1>1. data \in Seq(Int) /\ Len(data) = upto - from /\ \A i \in 1..Len(data) : data[i] = stream[from + i]
  OBVIOUS
<1>2. SeqModulus \in Nat /\ SeqModulus > 0
  BY CaptureAssumption
<1>3. seq \in Nat /\ \E turns \in Int : first + from = SeqModulus * turns + seq
  <2>1. first + from \in Nat /\ SeqModulus \in Nat \ {0}
    BY CaptureAssumption
  <2> QED BY <2>1, Remainder
<1> HIDE DEF seq
<1>4. buffer \in [parts : Seq(Int), expected : Int, gaps : Nat]
  BY DEF Orderly
<1>5. /\ grown \in [parts : Seq(Int), expected : Int, gaps : Nat] /\ grown.expected = seq + Len(data)
      /\ grown.expected \in Nat /\ grown.parts = buffer.parts \o data /\ grown.gaps = buffer.gaps
  <2>1. buffer.parts \in Seq(Int) /\ Len(data) \in Nat
    BY <1>1, <1>4
  <2>2. buffer.parts \o data \in Seq(Int)
    BY <1>1, <2>1, ConcatProperties
  <2>3. seq + Len(data) \in Nat
    BY <1>3, <2>1
  <2>4. buffer.gaps \in Nat
    BY <1>4
  <2> DEFINE p == buffer.parts \o data
             e == seq + Len(data)
  <2>5. p \in Seq(Int) /\ e \in Nat
    BY <2>2, <2>3
  <2>6. grown = [buffer EXCEPT !.parts = p, !.expected = e]
    OBVIOUS
  <2> HIDE DEF grown, p, e
  <2>7. grown = [parts |-> p, expected |-> e, gaps |-> buffer.gaps]
    BY <1>4, <2>5, <2>6, GrownIs
  <2>8. /\ grown \in [parts : Seq(Int), expected : Int, gaps : Nat] /\ grown.expected = e
        /\ grown.parts = p /\ grown.gaps = buffer.gaps
    BY <2>4, <2>5, <2>7
  <2> QED BY <2>5, <2>8 DEF p, e
<1> HIDE DEF grown
<1>6. CASE data = <<>>
  BY <1>6 DEF Add
<1>7. CASE data # <<>> /\ buffer.expected = -1
  <2>1. Add(buffer, seq, data) = grown
    BY <1>3, <1>7 DEF Add, grown
  <2>2. buffer.parts = <<>> /\ start = -1
    BY <1>7 DEF Orderly
  <2>3. grown.parts = data
    BY <1>1, <1>5, <2>2
  <2>4. PICK turns \in Int : first + from = SeqModulus * turns + seq
    BY <1>3
  <2>5. first + from + Len(data) = SeqModulus * turns + (seq + Len(data))
    <3>1. SeqModulus * turns \in Int /\ Len(data) \in Int /\ first + from \in Int /\ seq \in Int
      BY <1>1, <1>2, <1>3
    <3> DEFINE x == first + from
               p == SeqModulus * turns
               l == Len(data)
    <3>2. x \in Int /\ p \in Int /\ l \in Int /\ x = p + seq
      BY <2>4, <3>1
    <3> HIDE DEF x, p, l
    <3>3. x + l = p + (seq + l)
      BY <3>1, <3>2
    <3> QED BY <3>3 DEF x, p, l
  <2>6. Piece(stream, first, grown, from)
    BY <1>1, <1>5, <2>3, <2>5 DEF Piece
  <2>7. Orderly(stream, first, grown, from)
    BY <1>5, <2>6 DEF Orderly
  <2> QED BY <1>7, <2>1, <2>2, <2>7 DEF seq
<1>8. CASE data # <<>> /\ buffer.expected # -1 /\ buffer.expected = seq
  <2>1. Add(buffer, seq, data) = grown
    BY <1>3, <1>8 DEF Add, grown
  <2>2. start \in Nat /\ (buffer.gaps = 0 => Piece(stream, first, buffer, start))
    BY <1>8 DEF Orderly
  <2>3. ASSUME buffer.gaps = 0 PROVE Piece(stream, first, grown, start)
    <3> DEFINE n == Len(buffer.parts)
    <3>1. /\ n \in Nat /\ start + n <= Len(stream) /\ \A i \in 1..n : buffer.parts[i] = stream[start + i]
          /\ \E turns \in Int : first + start + n = SeqModulus * turns + seq
      BY <1>4, <1>8, <2>2, <2>3 DEF Piece
    <3>2. /\ Len(grown.parts) = n + Len(data)
          /\ \A i \in 1..n + Len(data) : grown.parts[i] = IF i <= n THEN buffer.parts[i] ELSE data[i - n]
      <4>1. buffer.parts \in Seq(Int) /\ data \in Seq(Int)
        BY <1>1, <1>4
      <4> DEFINE p == buffer.parts
      <4>2. p \in Seq(Int) /\ grown.parts = p \o data
        BY <1>5, <4>1
      <4> HIDE DEF p
      <4>3. /\ Len(p \o data) = Len(p) + Len(data)
            /\ \A i \in 1..Len(p) + Len(data) : (p \o data)[i] = IF i <= Len(p) THEN p[i] ELSE data[i - Len(p)]
        BY <4>1, <4>2, ConcatProperties
      <4> QED BY <4>2, <4>3 DEF p
    <3> HIDE DEF n
    <3>3. from = start + n
      <4>1. PICK a \in Int : first + start + n = SeqModulus * a + seq
        BY <3>1
      <4>2. PICK b \in Int : first + from = SeqModulus * b + seq
        BY <1>3
      <4>3. -SeqModulus < (first + start + n) - (first + from) /\ (first + start + n) - (first + from) < SeqModulus
        BY <1>1, <1>2, <2>2, <3>1
      <4>4. first + start + n \in Int /\ first + from \in Int /\ seq \in Int /\ SeqModulus \in Nat \ {0}
        BY <1>2, <1>3, <2>2, <3>1
      <4>5. first + start + n = first + from
        <5> DEFINE x == first + start + n
                   y == first + from
        <5>1. x \in Int /\ y \in Int /\ x = SeqModulus * a + seq /\ y = SeqModulus * b + seq
              /\ -SeqModulus < x - y /\ x - y < SeqModulus
          BY <4>1, <4>2, <4>3, <4>4
        <5> HIDE DEF x, y
        <5>2. x = y
          BY ONLY <4>4, <5>1, SameTurn
        <5> QED BY <5>2 DEF x, y
      <4> QED BY <2>2, <3>1, <4>5
    <3>4. start + (n + Len(data)) = upto
      BY <1>1, <2>2, <3>1, <3>3
    <3>5. ASSUME NEW i \in 1..n + Len(data) PROVE grown.parts[i] = stream[start + i]
      <4>1. CASE i <= n
        BY <3>1, <3>2, <3>5, <4>1
      <4>2. CASE ~(i <= n)
        <5>1. PICK k : k = i - n
          OBVIOUS
        <5>2. k \in 1..Len(data) /\ from + k = start + i
          BY <1>1, <2>2, <3>1, <3>3, <3>5, <4>2, <5>1
        <5>3. data[k] = stream[from + k]
          BY ONLY <1>1, <5>2
        <5> QED BY <3>2, <3>5, <4>2, <5>1, <5>2, <5>3
      <4> QED BY <4>1, <4>2
    <3>6. \E turns \in Int : first + start + (n + Len(data)) = SeqModulus * turns + (seq + Len(data))
      <4>1. PICK turns \in Int : first + start + n = SeqModulus * turns + seq
        BY <3>1
      <4>2. SeqModulus * turns \in Int /\ Len(data) \in Int /\ first + start + n \in Int
        BY <1>1, <1>2, <2>2, <3>1
      <4>3. first + start + n + Len(data) = SeqModulus * turns + (seq + Len(data))
        BY <1>3, <4>1, <4>2, FartherOn
      <4>4. first + start + n + Len(data) = first + start + (n + Len(data))
        BY <1>1, <2>2, <3>1
      <4> QED BY <4>3, <4>4
    <3> QED BY <1>5, <3>2, <3>4, <3>5, <3>6 DEF Piece
  <2>4. Orderly(stream, first, grown, start)
    BY <1>5, <2>2, <2>3 DEF Orderly
  <2> QED BY <2>1, <2>2, <2>4 DEF seq
<1>9. CASE data # <<>> /\ buffer.expected # -1 /\ buffer.expected > seq
  <2>1. Add(buffer, seq, data) = buffer
    BY <1>3, <1>4, <1>9 DEF Add
  <2>2. start # -1
    BY <1>9 DEF Orderly
  <2> QED BY <2>1, <2>2 DEF seq
<1>10. CASE data # <<>> /\ buffer.expected # -1 /\ buffer.expected # seq /\ ~(buffer.expected > seq)
  <2>1. Add(buffer, seq, data) = [grown EXCEPT !.gaps = @ + 1]
    BY <1>10 DEF Add, grown
  <2>2. start \in Nat
    BY <1>10 DEF Orderly
  <2> DEFINE told == [grown EXCEPT !.gaps = @ + 1]
  <2>3. told \in [parts : Seq(Int), expected : Int, gaps : Nat] /\ told.expected = grown.expected /\ told.gaps # 0
    <3> DEFINE g == grown.gaps + 1
    <3>1. g \in Nat /\ g # 0
      BY <1>5
    <3>2. told = [grown EXCEPT !.gaps = g]
      OBVIOUS
    <3> HIDE DEF told, g
    <3>3. grown \in [parts : Seq(Int), expected : Int, gaps : Nat]
      BY <1>5
    <3> QED BY <3>1, <3>2, <3>3
  <2> HIDE DEF told
  <2>4. Orderly(stream, first, told, start)
    BY <1>5, <2>2, <2>3 DEF Orderly
  <2> QED BY <2>1, <2>2, <2>4 DEF seq, told
<1> QED BY <1>6, <1>7, <1>8, <1>9, <1>10

\* A side's stream, and how much of it was sent; its buffer is as adding leaves it.
JoinedInv ==
  /\ spoken = "none" => buffers = [s \in Sides |-> NoBuffer] /\ origin = [s \in Sides |-> -1] /\ position = [s \in Sides |-> 0]
  /\ DOMAIN buffers = Sides /\ DOMAIN origin = Sides /\ DOMAIN position = Sides
  /\ isn \in Nat
  /\ \A s \in Sides : /\ Stream(s) \in Seq(Int) /\ Len(Stream(s)) < SeqModulus
                      /\ position[s] \in 0..Len(Stream(s))
                      /\ Orderly(Stream(s), isn, buffers[s], origin[s])

\* An empty buffer is orderly, whatever is said.
LEMMA NoBufferIsOrderly == \A stream, first : Orderly(stream, first, NoBuffer, -1)
BY DEF Orderly, NoBuffer

\* A packet, of whichever bytes, changes one buffer by them.
LEMMA PacketKeeps ==
  ASSUME JoinedInv, NEW side \in Sides, NEW from \in Nat, NEW upto \in Nat, from <= upto, upto <= Len(Stream(side)),
         Packet(side, from, upto)
  PROVE  /\ DOMAIN buffers' = Sides /\ DOMAIN origin' = Sides
         /\ \A s \in Sides : Orderly(Stream(s), isn, buffers'[s], origin'[s])
<1> DEFINE data == SubSeq(Stream(side), from + 1, upto)
           stream == Stream(side)
<1>1. /\ stream \in Seq(Int) /\ Len(stream) < SeqModulus /\ isn \in Nat
      /\ DOMAIN buffers = Sides /\ DOMAIN origin = Sides /\ \A s \in Sides : Orderly(Stream(s), isn, buffers[s], origin[s])
  BY DEF JoinedInv
<1>2. /\ buffers' = [buffers EXCEPT ![side] = Add(@, (isn + from) % SeqModulus, data)]
      /\ origin'  = [origin EXCEPT ![side] = IF @ = -1 /\ data # <<>> THEN from ELSE @]
  BY DEF Packet
<1>3. data \in Seq(Int) /\ Len(data) = upto - from /\ \A i \in 1..Len(data) : data[i] = stream[from + i]
  <2>1. stream \in Seq(Int) /\ upto <= Len(stream)
    BY <1>1
  <2> HIDE DEF stream
  <2>2. Len(stream) \in Nat
    BY <2>1, LenProperties
  <2>3. SubSeq(stream, from + 1, upto) \in Seq(Int) /\ Len(SubSeq(stream, from + 1, upto)) = upto - from
    BY <2>1, <2>2
  <2>4. \A i \in 1..upto - from : SubSeq(stream, from + 1, upto)[i] = stream[from + i]
    BY <2>1, <2>2
  <2> QED BY <2>3, <2>4 DEF stream
<1> HIDE DEF data
<1>4. Orderly(stream, isn, Add(buffers[side], (isn + from) % SeqModulus, data),
              IF origin[side] = -1 /\ data # <<>> THEN from ELSE origin[side])
  <2>1. Orderly(stream, isn, buffers[side], origin[side])
    BY <1>1
  <2> HIDE DEF stream
  <2>2. upto <= Len(stream)
    BY DEF stream
  <2> QED BY <1>1, <1>3, <2>1, <2>2, AddKeeps
<1>5. /\ DOMAIN buffers' = Sides /\ DOMAIN origin' = Sides
      /\ buffers'[side] = Add(buffers[side], (isn + from) % SeqModulus, data)
      /\ origin'[side] = IF origin[side] = -1 /\ data # <<>> THEN from ELSE origin[side]
      /\ \A s \in Sides \ {side} : buffers'[s] = buffers[s] /\ origin'[s] = origin[s]
  BY <1>1, <1>2
<1>6. ASSUME NEW s \in Sides PROVE Orderly(Stream(s), isn, buffers'[s], origin'[s])
  <2>1. CASE s = side
    BY <1>4, <1>5, <2>1
  <2>2. CASE s # side
    BY <1>1, <1>5, <2>2
  <2> QED BY <2>1, <2>2
<1> QED BY <1>5, <1>6

\* Every step of parse_pcap's world keeps the buffers so.
THEOREM JoinedInvHolds == Spec => []JoinedInv
<1>1. Init => JoinedInv
  <2> SUFFICES ASSUME Init PROVE JoinedInv
    OBVIOUS
  <2>1. /\ spoken = "none" /\ isn = 0 /\ sent = [s \in Sides |-> <<>>] /\ buffers = [s \in Sides |-> NoBuffer]
        /\ origin = [s \in Sides |-> -1] /\ position = [s \in Sides |-> 0]
    BY DEF Init, CaptureInit
  <2>2. ASSUME NEW s \in Sides PROVE Stream(s) = <<>>
    BY <2>1 DEF Stream, FlattenSeq
  <2>3. <<>> \in Seq(Int) /\ Len(<<>>) = 0 /\ SeqModulus \in Nat /\ SeqModulus > 0
    BY CaptureAssumption
  <2>4. ASSUME NEW s \in Sides
        PROVE  /\ Stream(s) \in Seq(Int) /\ Len(Stream(s)) < SeqModulus /\ position[s] \in 0..Len(Stream(s))
               /\ Orderly(Stream(s), isn, buffers[s], origin[s])
    <3>1. Stream(s) = <<>> /\ buffers[s] = NoBuffer /\ origin[s] = -1 /\ position[s] = 0
      BY <2>1, <2>2
    <3>2. 0 \in 0..Len(Stream(s)) /\ Stream(s) \in Seq(Int) /\ Len(Stream(s)) < SeqModulus
      BY <2>3, <3>1
    <3>3. Orderly(Stream(s), isn, NoBuffer, -1)
      BY NoBufferIsOrderly
    <3> QED BY <3>1, <3>2, <3>3
  <2>5. /\ DOMAIN buffers = Sides /\ DOMAIN origin = Sides /\ DOMAIN position = Sides /\ isn \in Nat
    BY <2>1
  <2> QED BY <2>1, <2>4, <2>5 DEF JoinedInv
<1>2. JoinedInv /\ [Next]_vars => JoinedInv'
  <2> SUFFICES ASSUME JoinedInv, [Next]_vars PROVE JoinedInv'
    OBVIOUS
  <2>1. CASE UNCHANGED <<spoken, isn, sent, position, buffers, origin>>
    BY <2>1 DEF JoinedInv, Stream
  <2>2. CASE ChooseSpoken
    <3>1. /\ spoken = "none" /\ spoken' \in Dialects /\ isn' \in Nat
          /\ sent' = [s \in Sides |-> Said(spoken', s)] /\ UNCHANGED <<position, buffers, origin>>
      BY <2>2, CaptureAssumption DEF ChooseSpoken
    <3>2. ASSUME NEW s \in Sides PROVE Stream(s)' \in Seq(Int) /\ Len(Stream(s)') \in Nat /\ Len(Stream(s)') < SeqModulus
      <4>1. Stream(s)' = FlattenSeq(Said(spoken', s))
        BY <3>1 DEF Stream
      <4>2. FlattenSeq(Said(spoken', s)) \in Seq(Int) /\ Len(FlattenSeq(Said(spoken', s))) < SeqModulus
        BY <3>1, CaptureAssumption
      <4>3. Stream(s)' \in Seq(Int) /\ Len(Stream(s)') < SeqModulus
        BY <4>1, <4>2
      <4> QED BY <4>3, LenProperties
    <3>3. /\ buffers' = [s \in Sides |-> NoBuffer] /\ origin' = [s \in Sides |-> -1] /\ position' = [s \in Sides |-> 0]
      BY <3>1 DEF JoinedInv
    <3> QED BY <3>1, <3>2, <3>3, NoBufferIsOrderly DEF JoinedInv
  <2>3. CASE Segment
    <3>0. PICK side \in Sides : \E size \in SegmentSizes \cup {Len(Stream(side)) - position[side]} :
            /\ position[side] + size <= Len(Stream(side))
            /\ position' = [position EXCEPT ![side] = @ + size]
            /\ Packet(side, position[side], position[side] + size) \/ UNCHANGED <<forward, buffers, origin>>
      BY <2>3 DEF Segment
    <3>1. PICK size \in SegmentSizes \cup {Len(Stream(side)) - position[side]} :
            /\ position[side] + size <= Len(Stream(side))
            /\ position' = [position EXCEPT ![side] = @ + size]
            /\ Packet(side, position[side], position[side] + size) \/ UNCHANGED <<forward, buffers, origin>>
      BY <3>0
    <3>2. spoken # "none" /\ UNCHANGED <<spoken, isn, sent>>
      BY <2>3 DEF Segment
    <3>3. /\ position[side] \in Nat /\ Len(Stream(side)) \in Nat /\ size \in Nat
      BY CaptureAssumption, LenProperties DEF JoinedInv
    <3>4. \A s \in Sides : Stream(s)' = Stream(s)
      BY <3>2 DEF Stream
    <3>5. DOMAIN position' = Sides /\ \A s \in Sides : position'[s] \in 0..Len(Stream(s))
      BY <3>1, <3>3 DEF JoinedInv
    <3>6. /\ DOMAIN buffers' = Sides /\ DOMAIN origin' = Sides
          /\ \A s \in Sides : Orderly(Stream(s), isn, buffers'[s], origin'[s])
      <4>1. CASE Packet(side, position[side], position[side] + size)
        <5>1. position[side] + size \in Nat /\ position[side] <= position[side] + size
          BY <3>3
        <5> QED BY <3>1, <3>3, <4>1, <5>1, PacketKeeps
      <4>2. CASE UNCHANGED <<buffers, origin>>
        BY <4>2 DEF JoinedInv
      <4> QED BY <3>1, <4>1, <4>2
    <3> QED BY <3>2, <3>4, <3>5, <3>6 DEF JoinedInv
  <2>4. CASE Retransmission
    <3>0. PICK side \in Sides : \E from \in {n \in 0..position[side] - 1 : n \in SegmentSizes \cup {0}} :
            \E upto \in {position[side], Len(Stream(side))} :
              position' = [position EXCEPT ![side] = upto] /\ Packet(side, from, upto)
      BY <2>4 DEF Retransmission
    <3>1. PICK from \in 0..position[side] - 1, upto \in {position[side], Len(Stream(side))} :
            position' = [position EXCEPT ![side] = upto] /\ Packet(side, from, upto)
      BY <3>0
    <3>2. spoken # "none" /\ UNCHANGED <<spoken, isn, sent>>
      BY <2>4 DEF Retransmission
    <3>3. position[side] \in 0..Len(Stream(side)) /\ Len(Stream(side)) \in Nat
      BY LenProperties DEF JoinedInv
    <3>4. \A s \in Sides : Stream(s)' = Stream(s)
      BY <3>2 DEF Stream
    <3>5. from \in Nat /\ upto \in Nat /\ from <= upto /\ upto <= Len(Stream(side))
      BY <3>1, <3>3
    <3>6. DOMAIN position' = Sides /\ \A s \in Sides : position'[s] \in 0..Len(Stream(s))
      BY <3>1, <3>5 DEF JoinedInv
    <3>7. /\ DOMAIN buffers' = Sides /\ DOMAIN origin' = Sides
          /\ \A s \in Sides : Orderly(Stream(s), isn, buffers'[s], origin'[s])
      BY <3>1, <3>5, PacketKeeps
    <3> QED BY <3>2, <3>4, <3>6, <3>7 DEF JoinedInv
  <2>5. CASE ParsePcap
    BY <2>1, <2>5 DEF ParsePcap
  <2> QED
    BY <2>1, <2>2, <2>3, <2>4, <2>5 DEF Next, CaptureNext, vars, capture_vars
<1> QED BY <1>1, <1>2, PTL DEF Spec

\* So what parse_pcap joined, and tells of no gap in, is what a side said, from
\* the first byte that was captured on.
THEOREM JoinedIsUnbrokenHolds == Spec => []JoinedIsUnbroken
<1>1. JoinedInv => JoinedIsUnbroken
  <2> SUFFICES ASSUME JoinedInv, NEW s \in Sides, buffers[s].parts # <<>>, buffers[s].gaps = 0
               PROVE  IsPrefix(buffers[s].parts, From(Stream(s), origin[s]))
    BY DEF JoinedIsUnbroken
  <2>1. Stream(s) \in Seq(Int) /\ Orderly(Stream(s), isn, buffers[s], origin[s])
    BY DEF JoinedInv
  <2> DEFINE p == buffers[s].parts
             t == Stream(s)
             k == origin[s]
             n == Len(p)
  <2>2. p \in Seq(Int) /\ k \in Nat /\ Piece(t, isn, buffers[s], k)
    BY <2>1 DEF Orderly
  <2>3. k + n <= Len(t) /\ \A i \in 1..n : p[i] = t[k + i]
    BY <2>2 DEF Piece
  <2> HIDE DEF p, t, k
  <2>4. p \in Seq(Int) /\ t \in Seq(Int) /\ k \in Nat /\ n \in Nat /\ Len(t) \in Nat
    BY <2>1, <2>2, LenProperties DEF t
  <2>5. IsPrefix(p, From(t, k))
    <3> DEFINE rest == SubSeq(t, k + 1, Len(t))
    <3>1. rest \in Seq(Int) /\ Len(rest) = Len(t) - k /\ \A i \in 1..Len(t) - k : rest[i] = t[k + i]
      BY <2>3, <2>4
    <3> HIDE DEF rest
    <3>2. n <= Len(rest) /\ \A i \in 1..n : rest[i] = p[i]
      BY <2>3, <2>4, <3>1
    <3> HIDE DEF n
    <3>3. SubSeq(p, 1, n) = SubSeq(rest, 1, n)
      <4> DEFINE u == SubSeq(p, 1, n)
                 v == SubSeq(rest, 1, n)
      <4>1. u \in Seq(Int) /\ Len(u) = n /\ \A i \in 1..n : u[i] = p[i]
        BY <2>4 DEF n
      <4>2. v \in Seq(Int) /\ Len(v) = n /\ \A i \in 1..n : v[i] = rest[i]
        BY <2>4, <3>1, <3>2
      <4> HIDE DEF u, v
      <4>3. \A i \in 1..n : u[i] = v[i]
        BY <3>2, <4>1, <4>2
      <4>4. u = v
        BY <4>1, <4>2, <4>3, SeqEqual
      <4> QED BY <4>4 DEF u, v
    <3> QED BY <3>2, <3>3 DEF IsPrefix, From, rest, n
  <2> QED BY <2>5 DEF p, t, k
<1> QED BY <1>1, JoinedInvHolds, PTL

-----------------------------------------------------------------------------
(* What the listener answers to a read, and what a parser makes of both     *)

\* A run of three bytes, by its bytes.
LEMMA BytesOfThree ==
  ASSUME NEW x \in Int, NEW y \in Int, NEW z \in Int
  PROVE  Bytes(<<x, y, z>>, 3) /\ At(<<x, y, z>>, 0) = x /\ At(<<x, y, z>>, 1) = y /\ At(<<x, y, z>>, 2) = z
BY DEF Bytes, At

\* An answer to a Modbus read, by its parts.
ModbusAnswerOf(r, a, unit, fc, k) == r = a \o B16(0) \o B16(3 + k) \o <<unit, fc, k>> \o Zeros(k)

\* What the fields of such an answer hold.
LEMMA ModbusAnswerIsRead ==
  ASSUME NEW a, Bytes(a, 2), NEW unit \in Int, NEW fc \in Int, NEW k \in Nat, k <= 250,
         NEW r, ModbusAnswerOf(r, a, unit, fc, k)
  PROVE  /\ Bytes(r, 9 + k) /\ U16(r, 0) = U16(a, 0) /\ U16(r, 2) = 0 /\ U16(r, 4) = 3 + k
         /\ At(r, 6) = unit /\ At(r, 7) = fc /\ At(r, 8) = k
         /\ \A i \in Nat : At(r, 9 + i) = At(Zeros(k), i)
<1> DEFINE b == B16(0)
           n == B16(3 + k)
           u == <<unit, fc, k>>
           z == Zeros(k)
           h == a \o b \o n \o u
<1>1. Bytes(b, 2) /\ At(b, 0) * 256 + At(b, 1) = 0
  <2>1. 0 \in WORD
    BY WordIs
  <2> QED BY <2>1, FieldIsRead
<1>2. Bytes(n, 2) /\ At(n, 0) * 256 + At(n, 1) = 3 + k
  <2>1. 3 + k \in WORD
    BY WordIs
  <2> QED BY <2>1, FieldIsRead
<1>3. Bytes(u, 3) /\ At(u, 0) = unit /\ At(u, 1) = fc /\ At(u, 2) = k
  BY BytesOfThree
<1>4. Bytes(z, k)
  BY ZerosBytes
<1> HIDE DEF b, n, u, z
<1>5. /\ Bytes(h, 9) /\ At(h, 0) = At(a, 0) /\ At(h, 1) = At(a, 1) /\ At(h, 2) = At(b, 0) /\ At(h, 3) = At(b, 1)
      /\ At(h, 4) = At(n, 0) /\ At(h, 5) = At(n, 1) /\ At(h, 6) = At(u, 0) /\ At(h, 7) = At(u, 1) /\ At(h, 8) = At(u, 2)
  <2>1. /\ Bytes(a \o b, 4) /\ \A i \in Nat : i < 2 => At(a \o b, i) = At(a, i)
        /\ At(a \o b, 2 + 0) = At(b, 0) /\ At(a \o b, 2 + 1) = At(b, 1)
    BY <1>1, BytesJoined
  <2>2. /\ Bytes(a \o b \o n, 6) /\ \A i \in Nat : i < 4 => At(a \o b \o n, i) = At(a \o b, i)
        /\ At(a \o b \o n, 4 + 0) = At(n, 0) /\ At(a \o b \o n, 4 + 1) = At(n, 1)
    BY <1>2, <2>1, BytesJoined
  <2>3. /\ Bytes(h, 9) /\ \A i \in Nat : i < 6 => At(h, i) = At(a \o b \o n, i)
        /\ At(h, 6 + 0) = At(u, 0) /\ At(h, 6 + 1) = At(u, 1) /\ At(h, 6 + 2) = At(u, 2)
    BY <1>3, <2>2, BytesJoined
  <2> QED BY <2>1, <2>2, <2>3
<1> HIDE DEF h
<1>6. r = h \o z
  BY DEF h, b, n, u, z, ModbusAnswerOf
<1>7. /\ Bytes(r, 9 + k) /\ \A i \in Nat : i < 9 => At(r, i) = At(h, i)
      /\ \A i \in Nat : At(r, 9 + i) = At(z, i)
  <2>1. 9 \in Nat /\ k \in Nat /\ Bytes(h, 9) /\ Bytes(z, k)
    BY <1>4, <1>5
  <2>2. /\ Bytes(h \o z, 9 + k) /\ \A i \in Nat : i < 9 => At(h \o z, i) = At(h, i)
        /\ \A i \in Nat : At(h \o z, 9 + i) = At(z, i)
    BY ONLY <2>1, BytesJoined
  <2> QED BY <1>6, <2>2
<1>8. /\ U16(r, 0) = U16(a, 0) /\ U16(r, 2) = 0 /\ U16(r, 4) = 3 + k
      /\ At(r, 6) = unit /\ At(r, 7) = fc /\ At(r, 8) = k
  <2>1. At(r, 0) = At(h, 0) /\ At(r, 1) = At(h, 1) /\ At(r, 2) = At(h, 2) /\ At(r, 3) = At(h, 3) /\ At(r, 4) = At(h, 4)
        /\ At(r, 5) = At(h, 5) /\ At(r, 6) = At(h, 6) /\ At(r, 7) = At(h, 7) /\ At(r, 8) = At(h, 8)
    BY <1>7
  <2> QED BY <1>1, <1>2, <1>3, <1>5, <2>1 DEF U16
<1> QED BY <1>7, <1>8 DEF z

\* A Modbus read, by its parts.
ModbusReadOf(q, unit, fc, quantity) ==
  /\ Bytes(q, 12) /\ At(q, 6) = unit /\ At(q, 7) = fc /\ U16(q, 10) = quantity
  /\ unit \in Nat /\ unit <= 247 /\ fc \in MB!READ_FCS /\ quantity \in Nat /\ quantity # 0
  /\ quantity <= (IF fc \in {1, 2} THEN 2000 ELSE 125)

\* build_read_request of modbus/codec.py makes such a read.
LEMMA ModbusReadIs ==
  ASSUME NEW tid, NEW unit, NEW fc, NEW address, NEW quantity,
         NEW q, q = MB!BuildReadRequest(tid, unit, fc, address, quantity), q # <<>>
  PROVE  ModbusReadOf(q, unit, fc, quantity)
<1> DEFINE pdu == <<fc>> \o MB!B16(address) \o MB!B16(quantity)
<1>1. /\ fc \in MB!READ_FCS /\ tid \in WORD /\ unit \in 0..MB!MAX_UNIT_ID /\ address \in WORD
      /\ quantity \in 1..MB!read_limit(fc)
      /\ q = MB!Mbap(tid, unit, pdu)
  BY ModbusCopies DEF MB!BuildReadRequest
<1>2. fc \in Int /\ MB!read_limit(fc) = (IF fc \in {1, 2} THEN 2000 ELSE 125)
  BY <1>1 DEF MB!READ_FCS, MB!read_limit
<1>3. quantity \in Nat /\ quantity # 0 /\ quantity <= MB!read_limit(fc) /\ quantity \in WORD /\ unit \in Nat /\ unit <= 247
  <2>1. MB!read_limit(fc) \in Int /\ MB!read_limit(fc) <= 2000
    BY DEF MB!read_limit
  <2>2. quantity \in Int /\ 1 <= quantity /\ quantity <= MB!read_limit(fc)
    BY <1>1, <2>1, InRange
  <2>3. unit \in Int /\ 0 <= unit /\ unit <= 247
    BY <1>1, InRange DEF MB!MAX_UNIT_ID
  <2> QED BY <2>1, <2>2, <2>3, WordIs
<1>4. Bytes(pdu, 5) /\ At(pdu, 0) = fc /\ U16(pdu, 3) = quantity
  BY ONLY <1>1, <1>2, <1>3, FiveBytesRead
<1> HIDE DEF pdu
<1>5. Bytes(q, 12) /\ At(q, 6) = unit /\ \A i \in Nat : At(q, 7 + i) = At(pdu, i)
  <2>1. 5 \in Nat /\ 5 <= 253 /\ unit \in Int /\ 7 + 5 = 12
    BY <1>3
  <2>2. Bytes(q, 7 + 5) /\ At(q, 6) = unit /\ \A i \in Nat : At(q, 7 + i) = At(pdu, i)
    BY <1>1, <1>4, <2>1, MbapIsRead
  <2> QED BY <2>1, <2>2
<1>6. At(q, 7) = fc /\ U16(q, 10) = quantity
  <2>1. At(q, 7 + 0) = At(pdu, 0) /\ At(q, 7 + 3) = At(pdu, 3) /\ At(q, 7 + 4) = At(pdu, 4)
    BY <1>5
  <2>2. U16(q, 10) = At(q, 10) * 256 + At(q, 11) /\ U16(pdu, 3) = At(pdu, 3) * 256 + At(pdu, 4)
    BY DEF U16
  <2> QED BY <1>4, <2>1, <2>2
<1> QED BY <1>1, <1>2, <1>3, <1>5, <1>6 DEF ModbusReadOf

\* What the listener answers to it.
LEMMA ModbusAnswerIs ==
  ASSUME NEW q, NEW unit, NEW fc, NEW quantity, ModbusReadOf(q, unit, fc, quantity)
  PROVE  \E k \in Nat :
           /\ k <= 250 /\ k = (IF fc \in {1, 2} THEN (quantity + 7) \div 8 ELSE 2 * quantity)
           /\ ModbusAnswerOf(ModbusResponse(q), Upto(q, 2), unit, fc, k)
<1> DEFINE k == IF fc \in {1, 2} THEN (quantity + 7) \div 8 ELSE 2 * quantity
<1>1. k \in Nat /\ k <= 250
  BY DEF ModbusReadOf
<1>2. Len(q) >= 12 /\ fc \in MB!READ_FCS /\ fc \notin MB!WRITE_FCS
  BY DEF ModbusReadOf, Bytes, MB!READ_FCS, MB!WRITE_FCS
<1>3. ModbusResponse(q) = IF k > 255 THEN Raises ELSE Upto(q, 2) \o B16(0) \o B16(3 + k) \o <<unit, fc, k>> \o Zeros(k)
  BY <1>2 DEF ModbusResponse, ModbusReadOf
<1> HIDE DEF k
<1>4. ~(k > 255)
  BY <1>1
<1> QED BY <1>1, <1>3, <1>4 DEF k, ModbusAnswerOf

\* The listener answers a Modbus read with one frame, which the adapter takes for
\* the answer to this read; taken by itself it is a response, but for one of 12
\* bytes, to a read of 17 to 24 coils.
THEOREM ModbusReadIsAnswered ==
  ASSUME NEW tid, NEW unit, NEW fc, NEW address, NEW quantity,
         NEW q, q = MB!BuildReadRequest(tid, unit, fc, address, quantity), q # <<>>,
         NEW r, r = ModbusResponse(q)
  PROVE  /\ IsFrame("modbus", r)
         /\ MB!ParseResponse(r, q) = {} /\ MB!ParseResponse(r, <<>>) = {} /\ MB!ExceptionCode(r) = 0
         /\ MB!ValidateFrame(r, "resp") = {}
         /\ (fc \in {1, 2} => quantity \notin 17..24) => ParseAuto("modbus", r) = AsResponse({}, 0)
<1>1. ModbusReadOf(q, unit, fc, quantity)
  BY ModbusReadIs
<1>2. PICK k \in Nat : /\ k <= 250 /\ k = (IF fc \in {1, 2} THEN (quantity + 7) \div 8 ELSE 2 * quantity)
                       /\ ModbusAnswerOf(r, Upto(q, 2), unit, fc, k)
  BY <1>1, ModbusAnswerIs
<1>3. Bytes(Upto(q, 2), 2) /\ U16(Upto(q, 2), 0) = U16(q, 0)
  <2>1. q \in Seq(Int) /\ 2 \in Nat /\ 2 <= Len(q)
    BY <1>1 DEF ModbusReadOf, Bytes
  <2>2. Upto(q, 2) \in Seq(Int) /\ Len(Upto(q, 2)) = 2 /\ \A i \in Nat : i < 2 => At(Upto(q, 2), i) = At(q, i)
    BY ONLY <2>1, UptoIsPrefix
  <2> QED BY <2>2 DEF Bytes, U16
<1>4. unit \in Nat /\ unit <= 247 /\ fc \in 1..4 /\ fc \in MB!READ_FCS /\ fc \in Int /\ unit \in Int
  BY <1>1 DEF ModbusReadOf, MB!READ_FCS
<1>5. /\ Bytes(r, 9 + k) /\ U16(r, 0) = U16(q, 0) /\ U16(r, 2) = 0 /\ U16(r, 4) = 3 + k
      /\ At(r, 6) = unit /\ At(r, 7) = fc /\ At(r, 8) = k
  <2>1. PICK a : a = Upto(q, 2)
    OBVIOUS
  <2>2. /\ Bytes(r, 9 + k) /\ U16(r, 0) = U16(a, 0) /\ U16(r, 2) = 0 /\ U16(r, 4) = 3 + k
        /\ At(r, 6) = unit /\ At(r, 7) = fc /\ At(r, 8) = k
    <3>1. ModbusAnswerOf(r, a, unit, fc, k) /\ k <= 250 /\ Bytes(a, 2)
      BY <1>2, <1>3, <2>1
    <3> QED BY ONLY k \in Nat, <1>4, <3>1, ModbusAnswerIsRead
  <2> QED BY <1>3, <2>1, <2>2
<1>6. Len(r) = 9 + k /\ r \in Seq(Int) /\ 9 + k \in Nat
  BY <1>5 DEF Bytes
<1>7. IsFrame("modbus", r)
  <2>1. ClaimedLen("modbus", r) = 9 + k
    BY <1>5 DEF ClaimedLen
  <2>2. CutWhole("modbus", r)
    BY <1>2, <1>5, <1>6, <2>1, ClaimCutsWhole DEF LengthFirst, FRAME_HEADER_LEN, MAX_FRAME_LEN
  <2> QED BY <1>6, <2>2 DEF IsFrame
<1>8. /\ \A i : MB!At(r, i) = At(r, i) /\ MB!U16(r, i) = U16(r, i) /\ MB!At(q, i) = At(q, i) /\ MB!U16(q, i) = U16(q, i)
  BY ModbusReading
<1>9. fc < MB!EXCEPTION_FLAG /\ fc \in MB!KNOWN_FCS /\ fc \notin MB!KNOWN_FCS \ MB!READ_FCS
  BY <1>4 DEF MB!EXCEPTION_FLAG, MB!KNOWN_FCS
<1>10. fc \in MB!REGISTERS => k = 2 * quantity
  BY <1>2, <1>4 DEF MB!REGISTERS
<1>11. quantity \in Nat /\ quantity # 0 /\ Len(q) = 12 /\ U16(q, 10) = quantity /\ At(q, 6) = unit /\ At(q, 7) = fc
  BY <1>1 DEF ModbusReadOf, Bytes
<1>12. k # 0
  BY <1>2, <1>11, <1>4
<1>13. MB!CrossCheck(r, q) = {}
  <2> DEFINE n == Len(r)
             c == MB!At(r, 7)
             raised == c >= MB!EXCEPTION_FLAG
             asked == IF Len(q) >= 12 THEN MB!U16(q, 10) ELSE 0
             p1 == MB!U16(r, 0) # MB!U16(q, 0)
             p2 == MB!At(r, 6) # MB!At(q, 6)
             p3 == raised /\ c - MB!EXCEPTION_FLAG # MB!At(q, 7)
             p4 == ~raised /\ c # MB!At(q, 7)
             p5 == c = MB!At(q, 7) /\ c \in MB!REGISTERS /\ Len(r) >= 9 /\ MB!At(r, 8) # 2 * asked
  <2>1. MB!CrossCheck(r, q) = IF Len(q) < 8 THEN {"request_short"} ELSE IF Len(r) < 8 THEN {} ELSE
          MB!Found([transaction_id |-> p1, unit_mismatch |-> p2, exception_fc |-> p3, fc_mismatch |-> p4, quantity |-> p5])
    BY DEF MB!CrossCheck
  <2>2. c = fc /\ asked = quantity /\ ~(c >= MB!EXCEPTION_FLAG)
    BY <1>4, <1>5, <1>8, <1>9, <1>11 DEF MB!EXCEPTION_FLAG
  <2>3. ~p1 /\ ~p2
    BY <1>5, <1>8, <1>11
  <2> HIDE DEF c, asked
  <2>4. ~p3 /\ ~p4
    BY <1>8, <1>11, <2>2
  <2>5. ~p5
    BY <1>5, <1>8, <1>10, <1>11, <2>2
  <2> HIDE DEF p1, p2, p3, p4, p5
  <2>6. MB!Found([transaction_id |-> p1, unit_mismatch |-> p2, exception_fc |-> p3, fc_mismatch |-> p4, quantity |-> p5]) = {}
    BY <2>3, <2>4, <2>5, ModbusReading
  <2> QED BY <1>6, <1>11, <2>1, <2>6
<1>14. ASSUME NEW p, p = <<>> \/ p = q PROVE MB!ParseResponse(r, p) = {}
  <2> DEFINE n == Len(r)
             c == MB!At(r, 7)
             raised == n >= 8 /\ c >= MB!EXCEPTION_FLAG
             isRead == n >= 9 /\ c \in MB!READ_FCS
             there == IF n - 9 < MB!At(r, 8) THEN n - 9 ELSE MB!At(r, 8)
             p1 == MB!U16(r, 2) # 0
             p2 == MB!U16(r, 4) # n - 6
             p3 == n < 8
             p4 == raised /\ c - MB!EXCEPTION_FLAG \notin MB!KNOWN_FCS
             p5 == raised /\ n < 9
             p6 == raised /\ n > 9
             p7 == n >= 8 /\ ~raised /\ c \notin MB!KNOWN_FCS
             p8 == n = 8 /\ c \in MB!READ_FCS
             p9 == isRead /\ n - 9 < MB!At(r, 8)
             p10 == isRead /\ c \in MB!REGISTERS /\ there % 2 # 0
             p11 == n \in 8..11 /\ c \in MB!KNOWN_FCS \ MB!READ_FCS
             found == MB!Found([protocol_id |-> p1, length |-> p2, no_fc |-> p3, base_fc |-> p4, no_code |-> p5,
                                exception_size |-> p6, unknown_fc |-> p7, no_byte_count |-> p8,
                                data_truncated |-> p9, odd |-> p10, truncated |-> p11])
  <2>1. MB!ParseResponse(r, p) = IF n < 7 THEN {"too_short"} ELSE (IF p = <<>> THEN {} ELSE MB!CrossCheck(r, p)) \cup found
    BY DEF MB!ParseResponse, MB!MBAP_LEN
  <2>2. c = fc /\ n = 9 + k /\ MB!At(r, 8) = k /\ MB!U16(r, 2) = 0 /\ MB!U16(r, 4) = 3 + k
    BY <1>5, <1>6, <1>8
  <2>3. ~(c >= MB!EXCEPTION_FLAG) /\ c \in MB!KNOWN_FCS /\ c \notin MB!KNOWN_FCS \ MB!READ_FCS
    BY <1>4, <1>9, <2>2 DEF MB!EXCEPTION_FLAG
  <2>4. there = k
    BY <2>2
  <2>5. c \in MB!REGISTERS => k % 2 = 0
    BY <1>10, <1>11, <2>2
  <2> HIDE DEF c, n, there
  <2>6. ~raised
    BY <2>3
  <2>7. ~(n < 7) /\ ~p1 /\ ~p2 /\ ~p3 /\ ~p8 /\ ~p9
    BY <2>2, <1>12
  <2> HIDE DEF raised
  <2>8. ~p4 /\ ~p5 /\ ~p6 /\ ~p7 /\ ~p11 /\ ~p10
    BY <2>3, <2>4, <2>5, <2>6
  <2> HIDE DEF p1, p2, p3, p4, p5, p6, p7, p8, p9, p10, p11
  <2>9. found = {}
    BY <2>7, <2>8, ModbusReading
  <2> HIDE DEF found
  <2> QED BY <1>13, <1>14, <2>1, <2>7, <2>9
<1>15. MB!ExceptionCode(r) = 0
  BY <1>5, <1>8, <1>9, <1>4 DEF MB!ExceptionCode, MB!EXCEPTION_FLAG
<1>17. MB!ValidateFrame(r, "resp") = {}
  <2> DEFINE n == Len(r)
             c == MB!At(r, 7)
             raised == n >= 8 /\ c >= MB!EXCEPTION_FLAG
             plain == n >= 8 /\ c < MB!EXCEPTION_FLAG
             p1 == "resp" = "req" /\ n < 12
             p2 == MB!U16(r, 2) # 0
             p3 == MB!U16(r, 4) # n - 6
             p4 == MB!At(r, 6) > MB!MAX_UNIT_ID
             p5 == n < 8 \/ c % MB!EXCEPTION_FLAG \notin MB!KNOWN_FCS
             p6 == raised /\ ~(n >= 9 /\ MB!At(r, 8) \in MB!EXCEPTION_CODES)
             p7 == raised /\ n # 9
             p8 == plain /\ c \notin MB!KNOWN_FCS
             p9 == plain /\ "resp" = "req" /\ ~MB!PduShape(r, "resp")
             p10 == plain /\ "resp" = "resp" /\ ~MB!PduShape(r, "resp")
             found == MB!Found([mbap_header_complete |-> p1, protocol_id_zero |-> p2, length_field_consistent |-> p3,
                                unit_id_in_range |-> p4, function_code_known |-> p5, exception_code_known |-> p6,
                                exception_frame_exact_length |-> p7, function_code_supported |-> p8,
                                request_pdu_valid |-> p9, response_pdu_valid |-> p10])
  <2>1. MB!ValidateFrame(r, "resp") = IF n < 7 THEN {"mbap_header_complete"} ELSE found
    BY DEF MB!ValidateFrame, MB!MBAP_LEN
  <2>2. c = fc /\ n = 9 + k /\ MB!At(r, 8) = k /\ MB!U16(r, 2) = 0 /\ MB!U16(r, 4) = 3 + k /\ MB!At(r, 6) = unit
    BY <1>5, <1>6, <1>8
  <2>3. ~(c >= MB!EXCEPTION_FLAG) /\ c \in MB!KNOWN_FCS /\ c % MB!EXCEPTION_FLAG = c
    BY <1>4, <1>9, <2>2 DEF MB!EXCEPTION_FLAG
  <2>4. MB!PduShape(r, "resp")
    <3>1. fc \in MB!REGISTERS => k % 2 = 0
      BY <1>10, <1>11
    <3>2. c \in MB!READ_FCS /\ Len(r) >= 9 /\ Len(r) = 9 + MB!At(r, 8) /\ (c \in MB!REGISTERS => MB!At(r, 8) % 2 = 0)
      BY <1>4, <1>6, <2>2, <3>1
    <3> QED BY <3>2 DEF MB!PduShape
  <2> HIDE DEF c, n
  <2>5. ~raised
    BY <2>3
  <2> HIDE DEF raised, plain
  <2>6. ~(n < 7) /\ ~p1 /\ ~p2 /\ ~p3 /\ ~p4
    BY <1>4, <2>2 DEF MB!MAX_UNIT_ID
  <2>7. ~p5 /\ ~p6 /\ ~p7 /\ ~p8 /\ ~p9 /\ ~p10
    <3>1. ~(n < 8)
      BY <2>2
    <3> QED BY <2>3, <2>4, <2>5, <3>1
  <2> HIDE DEF p1, p2, p3, p4, p5, p6, p7, p8, p9, p10
  <2>8. found = {}
    BY <2>6, <2>7, ModbusReading
  <2> HIDE DEF found
  <2> QED BY <2>1, <2>6, <2>8
<1>16. ASSUME fc \in {1, 2} => quantity \notin 17..24 PROVE ParseAuto("modbus", r) = AsResponse({}, 0)
  <2>1. Len(r) # 12
    <3>1. CASE fc \in {1, 2}
      <4>1. quantity <= 16 \/ quantity >= 25
        BY <1>11, <1>16, <3>1
      <4>2. k = (quantity + 7) \div 8 /\ k # 3
        BY <1>2, <1>11, <3>1, <4>1
      <4> QED BY <1>6, <4>2
    <3>2. CASE fc \notin {1, 2}
      BY <1>2, <1>6, <1>11, <3>2
    <3> QED BY <3>1, <3>2
  <2>2. ParseAuto("modbus", r) = AsResponse(MB!ParseResponse(r, <<>>), MB!ExceptionCode(r))
    BY <2>1 DEF ParseAuto, ParseModbus
  <2> QED BY <1>14, <1>15, <2>2
<1> QED BY <1>7, <1>14, <1>15, <1>16, <1>17

\* A frame with the FINS/TCP header, as its parser takes it apart.
FinsHead(f, command, payload) ==
  /\ FI!ParseTcpHeader(f).ok /\ FI!ParseTcpHeader(f).command = command /\ FI!ParseTcpHeader(f).error = 0
  /\ FI!ParseTcpHeader(f).payload = payload

\* What build_tcp_frame of fins/codec.py builds, its parser takes apart again.
LEMMA FinsHeadIs ==
  ASSUME NEW command \in WORD, NEW k \in Nat, k <= 100000, NEW payload, Bytes(payload, k),
         NEW f, f = FI!BuildTcpFrame(command, payload)
  PROVE  FinsHead(f, command, payload)
<1>1. /\ Bytes(f, 16 + k) /\ Upto(f, 4) = <<70, 73, 78, 83>>
      /\ U32(f, 4) = 8 + k /\ U32(f, 8) = command /\ U32(f, 12) = 0
      /\ From(f, 16) = payload
  BY TcpFrameIsRead
<1>2. Len(f) = 16 + k /\ Len(payload) = k
  BY <1>1 DEF Bytes
<1>3. /\ FI!From(f, 16) = payload /\ FI!Upto(f, 4) = <<70, 73, 78, 83>>
      /\ FI!U32(f, 4) = 8 + k /\ FI!U32(f, 8) = command /\ FI!U32(f, 12) = 0
  BY <1>1, FinsReading
<1>4. Len(f) >= 16 /\ FI!U32(f, 4) = 8 + Len(FI!From(f, 16))
  BY <1>2, <1>3
<1> QED BY <1>3, <1>4 DEF FinsHead, FI!ParseTcpHeader, FI!TCP_HEADER_LEN, FI!TCP_MAGIC

\* Such a frame of a known command passes the validation of answers; the end code
\* is looked at in one of the commands only.
LEMMA FinsValidated ==
  ASSUME NEW command \in 0..3, NEW k \in Nat, k <= 100000, NEW payload, Bytes(payload, k),
         NEW f, f = FI!BuildTcpFrame(command, payload)
  PROVE  FI!ValidateFrame(f, "resp") = {}
<1>1. command \in WORD
  BY WordIs
<1>2. /\ Bytes(f, 16 + k) /\ Upto(f, 4) = <<70, 73, 78, 83>>
      /\ U32(f, 4) = 8 + k /\ U32(f, 8) = command /\ U32(f, 12) = 0
  BY <1>1, TcpFrameIsRead
<1>3. Len(f) = 16 + k
  BY <1>2 DEF Bytes
<1>4. /\ FI!Upto(f, 4) = <<70, 73, 78, 83>>
      /\ FI!U32(f, 4) = 8 + k /\ FI!U32(f, 8) = command /\ FI!U32(f, 12) = 0
  BY <1>2, FinsReading
<1> DEFINE p1 == FI!Upto(f, 4) # FI!TCP_MAGIC
           p2 == FI!U32(f, 4) # Len(f) - 8
           p3 == FI!U32(f, 8) \notin FI!TCP_COMMANDS
           p4 == FI!U32(f, 12) # 0
           p5 == /\ "resp" = "resp" /\ FI!U32(f, 8) = FI!TCP_CMD_EXCHANGE
                 /\ ~(Len(f) >= 30 /\ FI!U16(f, 28) \in FI!END_CODES)
           found == FI!Found([magic_fins |-> p1, tcp_length_consistent |-> p2, tcp_command_known |-> p3,
                              tcp_error_zero |-> p4, end_code_known |-> p5])
<1>5. FI!ValidateFrame(f, "resp") = IF Len(f) < 16 THEN {"tcp_header_complete"} ELSE found
  BY DEF FI!ValidateFrame, FI!TCP_HEADER_LEN
<1>6. ~p1 /\ ~p2 /\ ~p3 /\ ~p4 /\ ~p5
  BY <1>3, <1>4 DEF FI!TCP_MAGIC, FI!TCP_COMMANDS, FI!TCP_CMD_EXCHANGE
<1> HIDE DEF p1, p2, p3, p4, p5
<1>7. found = {}
  BY <1>6 DEF FI!Found
<1> HIDE DEF found
<1> QED BY <1>3, <1>5, <1>7

\* The FINS header of a request for memory.
LEMMA MemoryHead ==
  ASSUME NEW sid \in Int, NEW node \in Int, NEW command \in WORD, NEW area \in Int,
         NEW address \in WORD, NEW count \in WORD, NEW dest \in Int,
         NEW m, m = FI!Memory(sid, node, command, area, address, count, dest)
  PROVE  /\ At(m, 0) = 128 /\ At(m, 4) = dest /\ At(m, 6) = 0 /\ At(m, 7) = node /\ At(m, 8) = 0 /\ At(m, 9) = sid
<1> DEFINE a == <<128, 0, 2, 0, dest, 0, 0, node, 0, sid>>
           b == B16(command)
           c == <<area>>
           d == B16(address)
           e == <<0>>
           g == B16(count)
<1>1. m = a \o b \o c \o d \o e \o g
  BY FinsReading DEF FI!Memory
<1>2. /\ Bytes(a, 10) /\ At(a, 0) = 128 /\ At(a, 4) = dest /\ At(a, 6) = 0 /\ At(a, 7) = node /\ At(a, 8) = 0
      /\ At(a, 9) = sid
  BY DEF Bytes, At
<1>3. Bytes(b, 2) /\ Bytes(c, 1) /\ Bytes(d, 2) /\ Bytes(e, 1) /\ Bytes(g, 2)
  BY FieldIsRead, BytesOfOne
<1> HIDE DEF a, b, c, d, e, g
<1>4. Bytes(a \o b, 12) /\ \A i \in Nat : i < 10 => At(a \o b, i) = At(a, i)
  BY <1>2, <1>3, BytesJoined
<1>5. Bytes(a \o b \o c, 13) /\ \A i \in Nat : i < 12 => At(a \o b \o c, i) = At(a \o b, i)
  BY <1>3, <1>4, BytesJoined
<1>6. Bytes(a \o b \o c \o d, 15) /\ \A i \in Nat : i < 13 => At(a \o b \o c \o d, i) = At(a \o b \o c, i)
  BY <1>3, <1>5, BytesJoined
<1>7. /\ Bytes(a \o b \o c \o d \o e, 16)
      /\ \A i \in Nat : i < 15 => At(a \o b \o c \o d \o e, i) = At(a \o b \o c \o d, i)
  BY <1>3, <1>6, BytesJoined
<1>8. \A i \in Nat : i < 16 => At(a \o b \o c \o d \o e \o g, i) = At(a \o b \o c \o d \o e, i)
  BY <1>3, <1>7, BytesJoined
<1>9. \A i \in 0..9 : At(m, i) = At(a, i)
  <2> SUFFICES ASSUME NEW i \in 0..9 PROVE At(m, i) = At(a, i)
    OBVIOUS
  <2>1. i \in Nat /\ i < 10 /\ i < 12 /\ i < 13 /\ i < 15 /\ i < 16
    OBVIOUS
  <2> QED BY <1>1, <1>4, <1>5, <1>6, <1>7, <1>8, <2>1
<1> QED BY <1>2, <1>9

\* A FINS read, by its parts: a payload p of 18 bytes.
FinsReadOf(q, p, sid, node, dest, count) ==
  /\ q = FI!BuildTcpFrame(2, p) /\ Bytes(p, 18)
  /\ At(p, 0) = 128 /\ At(p, 4) = dest /\ At(p, 6) = 0 /\ At(p, 7) = node /\ At(p, 8) = 0 /\ At(p, 9) = sid
  /\ U16(p, 10) = 257 /\ U16(p, 16) = count
  /\ sid \in Int /\ dest \in Int /\ count \in Nat /\ count # 0 /\ count <= 32766

\* build_read_request of fins/codec.py makes such a read.
LEMMA FinsReadIs ==
  ASSUME NEW sid, NEW node \in Int, NEW area, NEW address, NEW count, NEW dest,
         NEW q, q = FI!BuildReadRequest(sid, node, area, address, count, dest), q # <<>>
  PROVE  \E p : FinsReadOf(q, p, sid, node, dest, count)
<1> DEFINE m == FI!Memory(sid, node, 257, area, address, count, dest)
<1>1. /\ FI!Addressable(sid, area, address, dest) /\ count \in 1..FI!MAX_READ_WORDS
      /\ q = FI!BuildTcpFrame(2, m)
  BY DEF FI!BuildReadRequest, FI!TCP_CMD_DATA_SEND, FI!CMD_MEMORY_AREA_READ
<1>2. count \in WORD /\ 257 \in WORD /\ count \in Nat /\ count # 0 /\ count <= 32766
  <2>1. FI!MAX_READ_WORDS \in Nat /\ FI!MAX_READ_WORDS = 32766
    BY DEF FI!MAX_READ_WORDS
  <2>2. count \in Nat /\ count # 0 /\ count <= FI!MAX_READ_WORDS
    BY <1>1, <2>1, CountIs
  <2> QED BY <2>1, <2>2, WordIs
<1>3. sid \in Int /\ area \in Int /\ address \in WORD /\ dest \in Int
  BY <1>1, AddressableIs
<1>4. PICK p : p = m
  OBVIOUS
<1> HIDE DEF m
<1>5. /\ Bytes(p, 18) /\ U16(p, 10) = 257 /\ U16(p, 16) = count
      /\ At(p, 0) = 128 /\ At(p, 4) = dest /\ At(p, 6) = 0 /\ At(p, 7) = node /\ At(p, 8) = 0 /\ At(p, 9) = sid
  <2>1. PICK command \in WORD : command = 257
    BY <1>2
  <2>2. p = FI!Memory(sid, node, command, area, address, count, dest)
    BY <1>4, <2>1 DEF m
  <2>3. /\ sid \in Int /\ node \in Int /\ command \in WORD /\ area \in Int
        /\ address \in WORD /\ count \in WORD /\ dest \in Int
    BY <1>2, <1>3
  <2>4. Bytes(p, 18) /\ U16(p, 10) = command /\ At(p, 12) = area /\ At(p, 15) = 0 /\ U16(p, 16) = count
    BY ONLY <2>2, <2>3, MemoryIsRead
  <2>5. At(p, 0) = 128 /\ At(p, 4) = dest /\ At(p, 6) = 0 /\ At(p, 7) = node /\ At(p, 8) = 0 /\ At(p, 9) = sid
    BY ONLY <2>2, <2>3, MemoryHead
  <2> QED BY <2>1, <2>4, <2>5
<1> QED BY <1>1, <1>2, <1>3, <1>4, <1>5 DEF FinsReadOf

\* What is where in the listener's answer to it.
FinsAnswerOf(x, p, server, count) ==
  x = <<64, 0, 2>> \o Mid(p, 6, 9) \o <<0, server, 0, At(p, 9)>> \o B16(257) \o Zeros(2 + 2 * count)

\* What the fields of the answer hold: the nodes and the sid of the request
\* come back in their places.
LEMMA FinsAnswerIsRead ==
  ASSUME NEW p, Bytes(p, 18), NEW server \in Int, NEW count \in Nat, NEW x, FinsAnswerOf(x, p, server, count)
  PROVE  /\ Bytes(x, 14 + 2 * count) /\ At(x, 0) = 64 /\ At(x, 4) = At(p, 7) /\ At(x, 7) = server
         /\ At(x, 9) = At(p, 9) /\ U16(x, 10) = 257 /\ U16(x, 12) = 0
<1> DEFINE a == <<64, 0, 2>>
           b == Mid(p, 6, 9)
           c == <<0, server, 0, At(p, 9)>>
           d == B16(257)
           e == Zeros(2 + 2 * count)
<1>1. Bytes(a, 3) /\ At(a, 0) = 64
  BY DEF Bytes, At
<1>2. Bytes(b, 3) /\ \A i \in Nat : i < 3 => At(b, i) = At(p, 6 + i)
  <2>1. 6 \in Nat /\ 9 \in Nat /\ 18 \in Nat /\ 6 <= 9 /\ 9 <= 18 /\ 9 - 6 = 3
    OBVIOUS
  <2>2. Bytes(Mid(p, 6, 9), 9 - 6) /\ \A i \in Nat : i < 9 - 6 => At(Mid(p, 6, 9), i) = At(p, 6 + i)
    BY ONLY <2>1, Bytes(p, 18), MidBytes
  <2> QED BY <2>1, <2>2
<1>3. Bytes(c, 4) /\ At(c, 1) = server /\ At(c, 3) = At(p, 9)
  <2>1. At(p, 9) \in Int
    BY AtIsInt DEF Bytes
  <2> QED BY <2>1 DEF Bytes, At
<1>4. Bytes(d, 2) /\ At(d, 0) * 256 + At(d, 1) = 257
  <2>1. 257 \in WORD
    BY WordIs
  <2> QED BY <2>1, FieldIsRead
<1>5. Bytes(e, 2 + 2 * count) /\ At(e, 0) = 0 /\ At(e, 1) = 0 /\ 2 + 2 * count \in Nat
  <2>1. 2 + 2 * count \in Nat
    OBVIOUS
  <2>2. \A i \in Nat : At(e, i) = 0
    BY <2>1 DEF At, Zeros
  <2> QED BY <2>1, <2>2, ZerosBytes
<1>6. x = a \o b \o c \o d \o e
  BY DEF FinsAnswerOf
<1> HIDE DEF a, b, c, d, e
<1>7. /\ Bytes(a \o b, 6) /\ \A i \in Nat : i < 3 => At(a \o b, i) = At(a, i)
      /\ \A i \in Nat : At(a \o b, 3 + i) = At(b, i)
  BY <1>1, <1>2, BytesJoined
<1>8. /\ Bytes(a \o b \o c, 10) /\ \A i \in Nat : i < 6 => At(a \o b \o c, i) = At(a \o b, i)
      /\ \A i \in Nat : At(a \o b \o c, 6 + i) = At(c, i)
  BY <1>3, <1>7, BytesJoined
<1>9. /\ Bytes(a \o b \o c \o d, 12) /\ \A i \in Nat : i < 10 => At(a \o b \o c \o d, i) = At(a \o b \o c, i)
      /\ \A i \in Nat : At(a \o b \o c \o d, 10 + i) = At(d, i)
  BY <1>4, <1>8, BytesJoined
<1> DEFINE h == a \o b \o c \o d
<1> HIDE DEF h
<1>10. PICK n \in Nat : n = 2 + 2 * count
  BY <1>5
<1>11. /\ Bytes(x, 12 + n) /\ \A i \in Nat : i < 12 => At(x, i) = At(h, i)
       /\ \A i \in Nat : At(x, 12 + i) = At(e, i)
  <2>1. 12 \in Nat /\ n \in Nat /\ Bytes(h, 12) /\ Bytes(e, n)
    BY <1>5, <1>9, <1>10 DEF h
  <2>2. /\ Bytes(h \o e, 12 + n) /\ \A i \in Nat : i < 12 => At(h \o e, i) = At(h, i)
        /\ \A i \in Nat : At(h \o e, 12 + i) = At(e, i)
    BY ONLY <2>1, BytesJoined
  <2> QED BY <1>6, <2>2 DEF h
<1>12. At(h, 0) = 64 /\ At(h, 4) = At(p, 7) /\ At(h, 7) = server /\ At(h, 9) = At(p, 9) /\ U16(h, 10) = 257
  <2>1. At(a \o b, 3 + 1) = At(b, 1) /\ At(b, 1) = At(p, 6 + 1)
    BY <1>2, <1>7
  <2>2. At(a \o b \o c, 6 + 1) = At(c, 1) /\ At(a \o b \o c, 6 + 3) = At(c, 3)
    BY <1>8
  <2>3. At(h, 10 + 0) = At(d, 0) /\ At(h, 10 + 1) = At(d, 1)
    BY <1>9 DEF h
  <2>4. \A i \in Nat : i < 10 => At(h, i) = At(a \o b \o c, i)
    BY <1>9 DEF h
  <2>5. At(h, 0) = 64 /\ At(h, 4) = At(p, 7)
    BY <1>1, <1>7, <1>8, <2>1, <2>4
  <2>6. At(h, 7) = server /\ At(h, 9) = At(p, 9)
    BY <1>3, <2>2, <2>4
  <2> QED BY <1>4, <2>3, <2>5, <2>6 DEF U16
<1>13. At(x, 0) = At(h, 0) /\ At(x, 4) = At(h, 4) /\ At(x, 7) = At(h, 7) /\ At(x, 9) = At(h, 9) /\ U16(x, 10) = U16(h, 10)
  BY <1>11 DEF U16
<1>14. U16(x, 12) = 0
  <2>1. At(x, 12 + 0) = At(e, 0) /\ At(x, 12 + 1) = At(e, 1)
    BY <1>11
  <2> QED BY <1>5, <2>1 DEF U16
<1> QED BY <1>10, <1>11, <1>12, <1>13, <1>14

\* The listener's answer to a FINS read, by its parts.
LEMMA FinsReadAnswer ==
  ASSUME NEW q, NEW p, NEW sid, NEW node, NEW dest, NEW count, FinsReadOf(q, p, sid, node, dest, count),
         NEW server \in Int, NEW r, r = FinsResponse(q, server)
  PROVE  \E x : r = FI!BuildTcpFrame(2, x) /\ FinsAnswerOf(x, p, server, count)
<1> DEFINE x == <<64, 0, 2>> \o Mid(p, 6, 9) \o <<0, server, 0, At(p, 9)>> \o B16(257) \o Zeros(2 + 2 * U16(p, 16))
<1>1. /\ Bytes(q, 34) /\ U32(q, 8) = 2 /\ From(q, 16) = p /\ U16(p, 10) = 257 /\ U16(p, 16) = count /\ Len(p) = 18
  <2>1. q = FI!BuildTcpFrame(2, p) /\ Bytes(p, 18) /\ U16(p, 10) = 257 /\ U16(p, 16) = count
    BY DEF FinsReadOf
  <2>2. PICK command \in WORD : command = 2
    BY WordIs
  <2>3. q = FI!BuildTcpFrame(command, p)
    BY <2>1, <2>2
  <2>4. 18 \in Nat /\ 18 <= 100000
    OBVIOUS
  <2>5. Bytes(q, 16 + 18) /\ U32(q, 8) = command /\ From(q, 16) = p
    BY ONLY <2>1, <2>2, <2>3, <2>4, TcpFrameIsRead
  <2> QED BY <2>1, <2>2, <2>5 DEF Bytes
<1>2. Len(q) = 34
  BY <1>1 DEF Bytes
<1>3. r = FI!BuildTcpFrame(2, x)
  <2>1. FI!TCP_HEADER_LEN = 16 /\ FI!TCP_CMD_CONNECT_REQ = 0 /\ FI!CMD_MEMORY_AREA_READ = 257 /\ 2 \in FI!FINS_EXCHANGE_COMMANDS
    BY DEF FI!TCP_HEADER_LEN, FI!TCP_CMD_CONNECT_REQ, FI!CMD_MEMORY_AREA_READ, FI!FINS_EXCHANGE_COMMANDS,
           FI!TCP_CMD_DATA_SEND
  <2>2. ~(Len(q) >= 16 /\ U32(q, 8) = 0 /\ Len(From(q, 16)) >= 4)
    BY <1>1
  <2>3. Len(q) >= 16 /\ U32(q, 8) \in FI!FINS_EXCHANGE_COMMANDS /\ Len(From(q, 16)) >= 18 /\ U16(From(q, 16), 10) = 257
    <3>1. Len(q) >= 16 /\ Len(p) >= 18
      BY <1>1, <1>2
    <3>2. U32(q, 8) \in FI!FINS_EXCHANGE_COMMANDS
      BY ONLY <1>1, <2>1
    <3>3. Len(From(q, 16)) >= 18 /\ U16(From(q, 16), 10) = 257
      BY ONLY <1>1, <3>1
    <3> QED BY <3>1, <3>2, <3>3
  <2> QED BY <1>1, <2>1, <2>2, <2>3 DEF FinsResponse
<1>4. FinsAnswerOf(x, p, server, count)
  BY <1>1 DEF FinsAnswerOf
<1> QED BY <1>3, <1>4

\* What the parser of answers and the sniffing say of an answer whose parts are these.
LEMMA FinsAnswerParsed ==
  ASSUME NEW k \in Nat, 14 <= k, k <= 100000, k % 2 = 0, NEW x, Bytes(x, k), At(x, 0) = 64, U16(x, 10) = 257, U16(x, 12) = 0,
         NEW r, r = FI!BuildTcpFrame(2, x)
  PROVE  /\ FI!ParseResponse(r, <<>>) = {} /\ \A q : FI!CrossCheck(r, q) = {} => FI!ParseResponse(r, q) = {}
         /\ FI!EndCode(r) = 0 /\ FI!ValidateFrame(r, "resp") = {} /\ ParseAuto("fins", r) = AsResponse({}, 0)
<1>1. FinsHead(r, 2, x) /\ FI!ValidateFrame(r, "resp") = {}
  <2>1. PICK command \in 0..3 : command = 2
    OBVIOUS
  <2>2. r = FI!BuildTcpFrame(command, x) /\ command \in WORD
    BY <2>1, WordIs
  <2>3. FinsHead(r, command, x)
    BY ONLY k \in Nat, k <= 100000, Bytes(x, k), <2>2, FinsHeadIs
  <2>4. FI!ValidateFrame(r, "resp") = {}
    BY ONLY k \in Nat, k <= 100000, Bytes(x, k), <2>1, <2>2, FinsValidated
  <2> QED BY <2>1, <2>3, <2>4
<1> DEFINE h == FI!ParseTcpHeader(r)
<1>2. h.ok /\ h.command = 2 /\ h.error = 0 /\ h.payload = x /\ Len(x) = k
  BY <1>1 DEF FinsHead, Bytes
<1>3. FI!U16(x, 10) = 257 /\ FI!U16(x, 12) = 0 /\ 2 \in FI!FINS_EXCHANGE_COMMANDS
  BY FinsReading DEF FI!FINS_EXCHANGE_COMMANDS, FI!TCP_CMD_DATA_SEND
<1>4. ~FI!IsNonstandard(x)
  BY <1>3 DEF FI!IsNonstandard, FI!CMD_MEMORY_AREA_READ
<1>5. ASSUME NEW q PROVE FI!ParseResponse(r, q) = IF q # <<>> THEN FI!CrossCheck(r, q) ELSE {}
  <2> DEFINE p == h.payload
             handshake == h.command \notin FI!FINS_EXCHANGE_COMMANDS /\ Len(p) < 14
             fins == Len(p) >= 14
             cmd == FI!U16(p, 10)
             odd == FI!IsNonstandard(p)
             trailing == Len(p) > 14
             supported == fins /\ (odd \/ cmd \in {257, 258})
             write == supported /\ cmd = 258 /\ ~odd
             p1 == h.error # 0
             p2 == handshake /\ q # <<>> /\ FI!ParseTcpHeader(q).ok /\ FI!ParseTcpHeader(q).command # h.command
             p3 == ~handshake /\ ~fins
             p4 == fins /\ ~supported
             p5 == supported /\ trailing /\ (write \/ FI!U16(p, 12) # 0)
             p6 == supported /\ ~write /\ FI!U16(p, 12) = 0 /\ Len(p) % 2 # 0
             found == FI!Found([tcp_error |-> p1, command_mismatch |-> p2, too_short |-> p3, unsupported |-> p4,
                                trailing |-> p5, odd_length |-> p6])
  <2>1. FI!ParseResponse(r, q) = IF ~h.ok THEN {"tcp_header"}
          ELSE found \cup (IF fins /\ q # <<>> /\ ~odd THEN FI!CrossCheck(r, q) ELSE {})
    BY DEF FI!ParseResponse, FI!FINS_HEADER_LEN, FI!CMD_MEMORY_AREA_READ, FI!CMD_MEMORY_AREA_WRITE
  <2> HIDE DEF h
  <2>2. ~handshake /\ fins /\ cmd = 257 /\ ~odd /\ FI!U16(p, 12) = 0 /\ Len(p) % 2 = 0
    BY <1>2, <1>3, <1>4
  <2>3. supported /\ ~write
    BY <2>2
  <2> HIDE DEF handshake, fins, cmd, odd, supported, write, trailing, p
  <2>4. ~p1 /\ ~p2 /\ ~p3 /\ ~p4 /\ ~p5 /\ ~p6
    BY <1>2, <2>2, <2>3
  <2> HIDE DEF p1, p2, p3, p4, p5, p6
  <2>5. found = {}
    BY <2>4 DEF FI!Found
  <2> HIDE DEF found
  <2> QED BY <1>2, <2>1, <2>2, <2>5
<1>6. FI!EndCode(r) = 0
  BY <1>2, <1>3 DEF FI!EndCode, FI!FINS_HEADER_LEN
<1>7. ParseAuto("fins", r) = AsResponse({}, 0)
  <2>1. Len(h.payload) >= 14 /\ (At(h.payload, 0) \div 64) % 2 = 1
    BY <1>2
  <2>2. FI!ParseResponse(r, <<>>) = {}
    BY <1>5
  <2>3. FI!FINS_HEADER_LEN = 10 /\ FI!TCP_CMD_CONNECT_REQ = 0 /\ FI!TCP_CMD_DATA_SEND = 2
    BY DEF FI!FINS_HEADER_LEN, FI!TCP_CMD_CONNECT_REQ, FI!TCP_CMD_DATA_SEND
  <2> DEFINE data == Len(h.payload) >= FI!FINS_HEADER_LEN + 4
             answers == (At(h.payload, 0) \div 64) % 2 = 1
             request == CASE ~h.ok -> TRUE
                          [] h.ok /\ h.command = FI!TCP_CMD_CONNECT_REQ -> ~data
                          [] h.ok /\ h.command = FI!TCP_CMD_DATA_SEND   -> data /\ ~answers
                          [] h.ok /\ h.command = FI!TCP_CMD_EXCHANGE    -> ~(data /\ answers)
                          [] OTHER -> FALSE
  <2>4. ParseAuto("fins", r) = IF request THEN AsRequest(FI!ParseRequest(r))
                               ELSE AsResponse(FI!ParseResponse(r, <<>>), FI!EndCode(r))
    BY DEF ParseAuto, ParseFins
  <2> HIDE DEF h
  <2>5. ~request
    <3>1. data /\ answers
      BY <2>1, <2>3
    <3> HIDE DEF data, answers
    <3>2. FI!TCP_CMD_EXCHANGE = 4
      BY DEF FI!TCP_CMD_EXCHANGE
    <3> QED BY <1>2, <2>3, <3>1, <3>2
  <2> HIDE DEF request
  <2>6. ParseAuto("fins", r) = AsResponse(FI!ParseResponse(r, <<>>), FI!EndCode(r))
    BY <2>4, <2>5
  <2> QED BY ONLY <1>6, <2>2, <2>6
<1> QED BY <1>1, <1>5, <1>6, <1>7

\* Every FINS read is answered by the listener with a frame, as long as the words fit
\* one, in which the parser finds nothing, and which is seen to be an answer; of the
\* one node that was asked when the request is at hand.
THEOREM FinsReadIsAnswered ==
  ASSUME NEW sid, NEW node \in Int, NEW area, NEW address, NEW count, NEW dest, NEW server \in Int,
         NEW q, q = FI!BuildReadRequest(sid, node, area, address, count, dest), q # <<>>,
         NEW r, r = FinsResponse(q, server), 30 + 2 * count <= 16400
  PROVE  /\ IsFrame("fins", r) /\ FI!ParseResponse(r, <<>>) = {} /\ FI!EndCode(r) = 0
         /\ dest = server => FI!ParseResponse(r, q) = {}
         /\ FI!ValidateFrame(r, "resp") = {} /\ ParseAuto("fins", r) = AsResponse({}, 0)
<1>1. PICK p : FinsReadOf(q, p, sid, node, dest, count)
  BY FinsReadIs
<1>2. PICK x : r = FI!BuildTcpFrame(2, x) /\ FinsAnswerOf(x, p, server, count)
  BY <1>1, FinsReadAnswer
<1>3. count \in Nat /\ Bytes(p, 18)
  BY <1>1 DEF FinsReadOf
<1>4. /\ Bytes(x, 14 + 2 * count) /\ At(x, 0) = 64 /\ At(x, 4) = At(p, 7) /\ At(x, 7) = server
      /\ At(x, 9) = At(p, 9) /\ U16(x, 10) = 257 /\ U16(x, 12) = 0
  BY ONLY server \in Int, <1>2, <1>3, FinsAnswerIsRead
<1>5. PICK k \in Nat : k = 14 + 2 * count
  BY <1>3
<1>6. 14 <= k /\ k <= 100000 /\ k % 2 = 0 /\ 16 + k <= 16400
  BY <1>3, <1>5
<1>7. /\ FI!ParseResponse(r, <<>>) = {} /\ \A y : FI!CrossCheck(r, y) = {} => FI!ParseResponse(r, y) = {}
      /\ FI!EndCode(r) = 0 /\ FI!ValidateFrame(r, "resp") = {} /\ ParseAuto("fins", r) = AsResponse({}, 0)
  BY ONLY <1>2, <1>4, <1>5, <1>6, FinsAnswerParsed
<1>8. PICK command \in WORD : command = 2
  BY WordIs
<1>9. r = FI!BuildTcpFrame(command, x)
  BY <1>2, <1>8
<1>10. IsFrame("fins", r)
  <2>1. Bytes(r, 16 + k) /\ CutWhole("fins", r)
    BY ONLY <1>4, <1>5, <1>6, <1>8, <1>9, TcpFrameIsCutWhole
  <2> QED BY <2>1 DEF IsFrame, Bytes
<1>11. ASSUME dest = server PROVE FI!CrossCheck(r, q) = {}
  <2>1. FinsHead(r, command, x)
    BY ONLY <1>4, <1>5, <1>6, <1>8, <1>9, FinsHeadIs
  <2>2. q = FI!BuildTcpFrame(command, p) /\ 18 \in Nat /\ 18 <= 100000
    BY <1>1, <1>8 DEF FinsReadOf
  <2>3. FinsHead(q, command, p)
    BY ONLY <1>3, <1>8, <2>2, FinsHeadIs
  <2> DEFINE h == FI!ParseTcpHeader(r)
             g == FI!ParseTcpHeader(q)
             p1 == FI!At(h.payload, 9) # FI!At(g.payload, 9)
             p2 == FI!At(h.payload, 7) # FI!At(g.payload, 4)
  <2>4. FI!CrossCheck(r, q) = IF ~h.ok \/ ~g.ok \/ Len(h.payload) < 10 \/ Len(g.payload) < 10 THEN {}
                              ELSE FI!Found([sid |-> p1, node |-> p2])
    BY DEF FI!CrossCheck
  <2>5. h.payload = x /\ g.payload = p
    BY <2>1, <2>3 DEF FinsHead
  <2>6. At(p, 4) = dest
    BY <1>1 DEF FinsReadOf
  <2>7. ~p1 /\ ~p2
    BY <1>4, <1>11, <2>5, <2>6, FinsReading
  <2> HIDE DEF p1, p2
  <2>8. FI!Found([sid |-> p1, node |-> p2]) = {}
    BY <2>7 DEF FI!Found
  <2> QED BY <2>4, <2>8
<1> QED BY <1>7, <1>10, <1>11

\* A FINS read and a handshake are seen to be requests.
LEMMA FinsReadIsSeen ==
  ASSUME NEW sid, NEW node \in Int, NEW area, NEW address, NEW count, NEW dest,
         NEW q, q = FI!BuildReadRequest(sid, node, area, address, count, dest), q # <<>>
  PROVE  ParseAuto("fins", q) = AsRequest({})
<1>1. PICK p : FinsReadOf(q, p, sid, node, dest, count)
  BY FinsReadIs
<1>2. q = FI!BuildTcpFrame(2, p) /\ Bytes(p, 18) /\ At(p, 0) = 128
  BY <1>1 DEF FinsReadOf
<1>3. PICK command \in WORD : command = 2
  BY WordIs
<1>4. q = FI!BuildTcpFrame(command, p) /\ 18 \in Nat /\ 18 <= 100000
  BY <1>2, <1>3
<1>5. FinsHead(q, command, p)
  BY ONLY <1>2, <1>3, <1>4, FinsHeadIs
<1> DEFINE h == FI!ParseTcpHeader(q)
           data == Len(h.payload) >= FI!FINS_HEADER_LEN + 4
           answers == (At(h.payload, 0) \div 64) % 2 = 1
           request == CASE ~h.ok -> TRUE
                        [] h.ok /\ h.command = FI!TCP_CMD_CONNECT_REQ -> ~data
                        [] h.ok /\ h.command = FI!TCP_CMD_DATA_SEND   -> data /\ ~answers
                        [] h.ok /\ h.command = FI!TCP_CMD_EXCHANGE    -> ~(data /\ answers)
                        [] OTHER -> FALSE
<1>6. ParseAuto("fins", q) = IF request THEN AsRequest(FI!ParseRequest(q))
                             ELSE AsResponse(FI!ParseResponse(q, <<>>), FI!EndCode(q))
  BY DEF ParseAuto, ParseFins
<1>7. h.ok /\ h.command = 2 /\ h.payload = p
  BY <1>3, <1>5 DEF FinsHead
<1> HIDE DEF h
<1>8. data /\ ~answers
  <2>1. Len(p) = 18 /\ ~((At(p, 0) \div 64) % 2 = 1)
    BY <1>2 DEF Bytes
  <2>2. FI!FINS_HEADER_LEN + 4 = 14
    BY DEF FI!FINS_HEADER_LEN
  <2> QED BY <1>7, <2>1, <2>2
<1> HIDE DEF data, answers
<1>9. request
  BY <1>7, <1>8 DEF FI!TCP_CMD_CONNECT_REQ, FI!TCP_CMD_DATA_SEND, FI!TCP_CMD_EXCHANGE
<1> HIDE DEF request
<1>10. FI!ParseRequest(q) = {}
  BY FinsReadIsAccepted
<1> QED BY <1>6, <1>9, <1>10

\* A handshake request is one, and its answer, with the node of the server and the
\* client's, is a frame and an answer.
LEMMA FinsHandshakeIsSeen ==
  ASSUME NEW node, NEW q, q = FI!BuildHandshakeRequest(node), q # <<>>
  PROVE  ParseAuto("fins", q) = AsRequest({})
<1> DEFINE b == B32(node)
<1>1. node \in BYTE /\ q = FI!BuildTcpFrame(0, b)
  <2>1. FI!BYTE = BYTE /\ FI!B32(node) = b
    BY FinsReading DEF FI!BYTE, BYTE
  <2> QED BY <2>1 DEF FI!BuildHandshakeRequest, FI!TCP_CMD_CONNECT_REQ
<1>2. Bytes(b, 4)
  <2>1. FitsWide(node)
    BY <1>1, ByteIs DEF FitsWide
  <2> QED BY <2>1, WideFieldIsRead
<1> HIDE DEF b
<1>3. PICK command \in WORD : command = 0
  BY WordIs
<1>4. q = FI!BuildTcpFrame(command, b) /\ 4 \in Nat /\ 4 <= 100000
  BY <1>1, <1>3
<1>5. FinsHead(q, command, b)
  BY ONLY <1>2, <1>3, <1>4, FinsHeadIs
<1> DEFINE h == FI!ParseTcpHeader(q)
           data == Len(h.payload) >= FI!FINS_HEADER_LEN + 4
           answers == (At(h.payload, 0) \div 64) % 2 = 1
           request == CASE ~h.ok -> TRUE
                        [] h.ok /\ h.command = FI!TCP_CMD_CONNECT_REQ -> ~data
                        [] h.ok /\ h.command = FI!TCP_CMD_DATA_SEND   -> data /\ ~answers
                        [] h.ok /\ h.command = FI!TCP_CMD_EXCHANGE    -> ~(data /\ answers)
                        [] OTHER -> FALSE
<1>6. ParseAuto("fins", q) = IF request THEN AsRequest(FI!ParseRequest(q))
                             ELSE AsResponse(FI!ParseResponse(q, <<>>), FI!EndCode(q))
  BY DEF ParseAuto, ParseFins
<1>7. h.ok /\ h.command = 0 /\ h.payload = b
  BY <1>3, <1>5 DEF FinsHead
<1> HIDE DEF h
<1>8. ~data
  <2>1. Len(b) = 4
    BY <1>2 DEF Bytes
  <2>2. FI!FINS_HEADER_LEN + 4 = 14
    BY DEF FI!FINS_HEADER_LEN
  <2> QED BY <1>7, <2>1, <2>2
<1> HIDE DEF data, answers
<1>9. request
  BY <1>7, <1>8 DEF FI!TCP_CMD_CONNECT_REQ, FI!TCP_CMD_DATA_SEND, FI!TCP_CMD_EXCHANGE
<1> HIDE DEF request
<1>10. FI!ParseRequest(q) = {}
  BY FinsHandshakeIsAccepted
<1> QED BY <1>6, <1>9, <1>10

\* The handshake's answer: a FINS/TCP frame, which the parser and validate_frame
\* accept, without an error, and parse_auto takes for an answer.
THEOREM FinsHandshakeIsAnswered ==
  ASSUME NEW node, NEW server, NEW q, q = FI!BuildHandshakeRequest(node), q # <<>>,
         NEW r, r = FinsResponse(q, server)
  PROVE  /\ IsFrame("fins", r) /\ FI!ParseResponse(r, <<>>) = {} /\ FI!EndCode(r) = 0
         /\ FI!ValidateFrame(r, "resp") = {} /\ ParseAuto("fins", r) = AsResponse({}, 0)
<1> DEFINE b == B32(node)
<1>1. node \in BYTE /\ q = FI!BuildTcpFrame(0, b)
  <2>1. FI!BYTE = BYTE /\ FI!B32(node) = b
    BY FinsReading DEF FI!BYTE, BYTE
  <2> QED BY <2>1 DEF FI!BuildHandshakeRequest, FI!TCP_CMD_CONNECT_REQ
<1>2. Bytes(b, 4) /\ node \in Nat /\ node <= 255 /\ At(b, 3) = node
  <2>1. FitsWide(node) /\ node \in Nat /\ node <= 255
    BY <1>1, ByteIs DEF FitsWide
  <2>2. node \div 65536 = 0 /\ (node % 65536) % 256 = node /\ node % 65536 = node
    BY <2>1
  <2>3. b = B16(0) \o B16(node)
    BY <2>2 DEF B32
  <2>4. PICK u : u = B16(0)
    OBVIOUS
  <2>5. PICK v : v = B16(node)
    OBVIOUS
  <2>6. Bytes(u, 2) /\ Bytes(v, 2)
    <3>1. node \in WORD /\ 0 \in WORD
      BY <2>1, WordIs
    <3> QED BY <2>4, <2>5, <3>1, FieldIsRead
  <2>7. At(v, 1) = node
    <3>1. v = <<node \div 256, node % 256>> /\ node % 256 = node
      BY <2>1, <2>5 DEF B16
    <3> QED BY <3>1 DEF At
  <2>8. At(u \o v, 2 + 1) = At(v, 1)
    <3>1. 2 \in Nat /\ 1 \in Nat
      OBVIOUS
    <3> QED BY ONLY <2>6, <3>1, BytesJoined
  <2>9. At(b, 3) = node
    BY <2>3, <2>4, <2>5, <2>7, <2>8
  <2> QED BY <2>1, <2>9, WideFieldIsRead
<1> HIDE DEF b
<1>3. Len(q) = 20 /\ U32(q, 8) = 0 /\ From(q, 16) = b /\ Len(b) = 4
  <2>1. PICK command \in WORD : command = 0
    BY WordIs
  <2>2. q = FI!BuildTcpFrame(command, b) /\ 4 \in Nat /\ 4 <= 100000
    BY <1>1, <2>1
  <2>3. Bytes(q, 16 + 4) /\ U32(q, 8) = command /\ From(q, 16) = b
    BY ONLY <1>2, <2>1, <2>2, TcpFrameIsRead
  <2> QED BY <1>2, <2>1, <2>3 DEF Bytes
<1>4. PICK s \in {2, 3} : s = IF node # 2 THEN 2 ELSE 3
  OBVIOUS
<1> DEFINE c == B32(s)
           x == c \o b
<1>5. r = FI!BuildTcpFrame(1, x)
  <2>1. FI!TCP_HEADER_LEN = 16 /\ FI!TCP_CMD_CONNECT_REQ = 0 /\ FI!TCP_CMD_CONNECT_CFM = 1
    BY DEF FI!TCP_HEADER_LEN, FI!TCP_CMD_CONNECT_REQ, FI!TCP_CMD_CONNECT_CFM
  <2>2. Len(q) >= 16 /\ U32(q, 8) = 0 /\ Len(From(q, 16)) >= 4 /\ At(From(q, 16), 3) = node
    BY <1>2, <1>3
  <2>3. ~(U32(q, 8) \in FI!FINS_EXCHANGE_COMMANDS)
    BY <1>3 DEF FI!FINS_EXCHANGE_COMMANDS, FI!TCP_CMD_DATA_SEND, FI!TCP_CMD_EXCHANGE
  <2>4. B32(node) = b
    BY DEF b
  <2> HIDE DEF c, x
  <2>5. r = FI!BuildTcpFrame(1, B32(IF node # 2 THEN 2 ELSE 3) \o B32(node))
    BY <2>1, <2>2, <2>3 DEF FinsResponse
  <2> QED BY <1>4, <2>4, <2>5 DEF c, x
<1>6. Bytes(x, 8)
  <2>1. FitsWide(s)
    BY <1>4 DEF FitsWide
  <2>2. Bytes(c, 4)
    BY <2>1, WideFieldIsRead
  <2> HIDE DEF c
  <2> QED BY <1>2, <2>2, BytesJoined
<1> HIDE DEF x
<1>7. PICK command \in 0..3 : command = 1
  OBVIOUS
<1>8. r = FI!BuildTcpFrame(command, x) /\ command \in WORD /\ 8 \in Nat /\ 8 <= 100000
  BY <1>5, <1>7, WordIs
<1>9. FinsHead(r, command, x)
  BY ONLY <1>6, <1>8, FinsHeadIs
<1>10. FI!ValidateFrame(r, "resp") = {}
  BY ONLY <1>6, <1>7, <1>8, FinsValidated
<1>11. IsFrame("fins", r)
  <2>1. Bytes(FI!BuildTcpFrame(command, x), 16 + 8)
        /\ (CutWhole("fins", FI!BuildTcpFrame(command, x)) <=> 16 + 8 <= 16400)
    BY ONLY <1>6, <1>8, TcpFrameIsCutWhole
  <2> QED BY <1>8, <2>1 DEF IsFrame, Bytes
<1> DEFINE h == FI!ParseTcpHeader(r)
<1>12. h.ok /\ h.command = 1 /\ h.error = 0 /\ h.payload = x /\ Len(x) = 8
  BY <1>6, <1>7, <1>9 DEF FinsHead, Bytes
<1>13. FI!ParseResponse(r, <<>>) = {}
  <2> DEFINE p == h.payload
             handshake == h.command \notin FI!FINS_EXCHANGE_COMMANDS /\ Len(p) < 14
             fins == Len(p) >= 14
             cmd == FI!U16(p, 10)
             odd == FI!IsNonstandard(p)
             trailing == Len(p) > 14
             supported == fins /\ (odd \/ cmd \in {257, 258})
             write == supported /\ cmd = 258 /\ ~odd
             p1 == h.error # 0
             p2 == handshake /\ <<>> # <<>> /\ FI!ParseTcpHeader(<<>>).ok /\ FI!ParseTcpHeader(<<>>).command # h.command
             p3 == ~handshake /\ ~fins
             p4 == fins /\ ~supported
             p5 == supported /\ trailing /\ (write \/ FI!U16(p, 12) # 0)
             p6 == supported /\ ~write /\ FI!U16(p, 12) = 0 /\ Len(p) % 2 # 0
             found == FI!Found([tcp_error |-> p1, command_mismatch |-> p2, too_short |-> p3, unsupported |-> p4,
                                trailing |-> p5, odd_length |-> p6])
  <2>1. FI!ParseResponse(r, <<>>) = IF ~h.ok THEN {"tcp_header"}
          ELSE found \cup (IF fins /\ <<>> # <<>> /\ ~odd THEN FI!CrossCheck(r, <<>>) ELSE {})
    BY DEF FI!ParseResponse, FI!FINS_HEADER_LEN, FI!CMD_MEMORY_AREA_READ, FI!CMD_MEMORY_AREA_WRITE
  <2> HIDE DEF h
  <2>2. handshake /\ ~fins
    BY <1>12 DEF FI!FINS_EXCHANGE_COMMANDS, FI!TCP_CMD_DATA_SEND, FI!TCP_CMD_EXCHANGE
  <2>3. ~supported
    BY <2>2
  <2> HIDE DEF handshake, fins, cmd, odd, supported, write, trailing, p
  <2>4. ~p1 /\ ~p2 /\ ~p3 /\ ~p4 /\ ~p5 /\ ~p6
    BY <1>12, <2>2, <2>3
  <2> HIDE DEF p1, p2, p3, p4, p5, p6
  <2>5. found = {}
    BY <2>4 DEF FI!Found
  <2> HIDE DEF found
  <2> QED BY <1>12, <2>1, <2>5
<1>14. FI!EndCode(r) = 0
  BY <1>12 DEF FI!EndCode, FI!FINS_HEADER_LEN
<1>15. ParseAuto("fins", r) = AsResponse({}, 0)
  <2> DEFINE data == Len(h.payload) >= FI!FINS_HEADER_LEN + 4
             answers == (At(h.payload, 0) \div 64) % 2 = 1
             request == CASE ~h.ok -> TRUE
                          [] h.ok /\ h.command = FI!TCP_CMD_CONNECT_REQ -> ~data
                          [] h.ok /\ h.command = FI!TCP_CMD_DATA_SEND   -> data /\ ~answers
                          [] h.ok /\ h.command = FI!TCP_CMD_EXCHANGE    -> ~(data /\ answers)
                          [] OTHER -> FALSE
  <2>1. ParseAuto("fins", r) = IF request THEN AsRequest(FI!ParseRequest(r))
                               ELSE AsResponse(FI!ParseResponse(r, <<>>), FI!EndCode(r))
    BY DEF ParseAuto, ParseFins
  <2> HIDE DEF h, data, answers
  <2>2. ~request
    BY <1>12 DEF FI!TCP_CMD_CONNECT_REQ, FI!TCP_CMD_DATA_SEND, FI!TCP_CMD_EXCHANGE
  <2> HIDE DEF request
  <2> QED BY <1>13, <1>14, <2>1, <2>2
<1> QED BY <1>10, <1>11, <1>13, <1>14, <1>15

\* The subheader, and the rest of what comes before the length field, which is the
\* same in a request and in its answer.
SubheaderRun(fmt, dir) ==
  IF MC!IsAscii(fmt) THEN Hex(MC!Subheader(fmt, dir), 4) ELSE B16(MC!Subheader(fmt, dir))
LeadRest(rest, k, fmt, pc, station, serial) ==
  /\ k \in Nat /\ Bytes(rest, k) /\ MC!Size(fmt) + k = MC!LenOffset(fmt)
  /\ \A dir \in {"req", "resp"} : Lead(fmt, dir, pc, station, serial) = SubheaderRun(fmt, dir) \o rest

\* There is such a rest, for each of the four formats.
LEMMA LeadHasRest ==
  ASSUME NEW fmt \in MC!FRAME_FORMATS, NEW pc \in BYTE, NEW station \in BYTE, NEW serial \in WORD
  PROVE  \E k \in Nat : \E rest : LeadRest(rest, k, fmt, pc, station, serial)
<1> DEFINE b == IF MC!Is4e(fmt) THEN MC!Word(fmt, serial) \o MC!Word(fmt, 0) ELSE <<>>
           c == IF MC!IsAscii(fmt) THEN Hex(pc, 4) \o Hex(1023, 4) \o Hex(station, 2)
                                   ELSE <<0, pc>> \o S16(1023) \o <<station>>
           sz == MC!Size(fmt)
<1>1. \A dir : Lead(fmt, dir, pc, station, serial) = SubheaderRun(fmt, dir) \o b \o c
  BY DEF Lead, SubheaderRun
<1>2. /\ pc \in Nat /\ station \in Nat /\ 1023 \in WORD /\ 0 \in WORD
  BY ByteIs, WordIs
<1>3. PICK n \in Nat : n = IF MC!Is4e(fmt) THEN 2 * sz ELSE 0
  BY DEF MC!Size
<1>4. PICK m \in Nat : m = IF MC!IsAscii(fmt) THEN 10 ELSE 5
  OBVIOUS
<1>5. Bytes(b, n) /\ sz \in {2, 4}
  <2>1. Bytes(MC!Word(fmt, serial), sz) /\ Bytes(MC!Word(fmt, 0), sz) /\ sz \in {2, 4}
    BY <1>2, MelsecWord
  <2>2. sz \in Nat /\ sz + sz = 2 * sz
    BY <2>1
  <2>3. Bytes(MC!Word(fmt, serial) \o MC!Word(fmt, 0), sz + sz)
    BY <2>1, <2>2, BytesJoined
  <2>4. Bytes(<<>>, 0)
    BY DEF Bytes
  <2> QED BY <1>3, <2>1, <2>2, <2>3, <2>4
<1>6. Bytes(c, m)
  <2>1. Bytes(Hex(pc, 4) \o Hex(1023, 4) \o Hex(station, 2), 10)
    <3>1. Bytes(Hex(pc, 4), 4) /\ Bytes(Hex(1023, 4), 4) /\ Bytes(Hex(station, 2), 2)
      BY <1>2, HexBytes
    <3> QED BY <3>1, BytesJoined
  <2>2. Bytes(<<0, pc>> \o S16(1023) \o <<station>>, 5)
    <3>1. Bytes(<<0, pc>>, 2) /\ Bytes(S16(1023), 2) /\ Bytes(<<station>>, 1)
      BY <1>2, BytesOfTwo, BytesOfOne, FieldIsRead
    <3> DEFINE x == <<0, pc>>
               y == <<station>>
    <3> HIDE DEF x, y
    <3>2. Bytes(x \o S16(1023) \o y, 5)
      BY <3>1, BytesJoined DEF x, y
    <3> QED BY <3>2 DEF x, y
  <2> QED BY <1>4, <2>1, <2>2
<1>7. \A dir \in {"req", "resp"} : Bytes(SubheaderRun(fmt, dir), sz)
  BY SubheaderOpens DEF SubheaderRun
<1> DEFINE rest == b \o c
<1> HIDE DEF b, c
<1>8. Bytes(rest, n + m) /\ n + m \in Nat
  BY <1>5, <1>6, BytesJoined
<1>9. sz + (n + m) = MC!LenOffset(fmt)
  BY <1>3, <1>4 DEF MC!Size, MC!LenOffset, MC!Pick
<1>10. ASSUME NEW dir \in {"req", "resp"} PROVE Lead(fmt, dir, pc, station, serial) = SubheaderRun(fmt, dir) \o rest
  <2>1. PICK a : a = SubheaderRun(fmt, dir)
    OBVIOUS
  <2>2. a \in Seq(Int) /\ b \in Seq(Int) /\ c \in Seq(Int)
    BY <1>5, <1>6, <1>7, <2>1 DEF Bytes
  <2>3. (a \o b) \o c = a \o (b \o c)
    BY <2>2, ConcatAssociative
  <2> QED BY <1>1, <2>1, <2>3
<1> HIDE DEF rest
<1>11. LeadRest(rest, n + m, fmt, pc, station, serial)
  BY <1>8, <1>9, <1>10 DEF LeadRest
<1> QED BY <1>8, <1>11

\* A read by its parts.
MelsecReadOf(q, fmt, pdu, m, pc, station, timer, serial, device, count) ==
  /\ pc \in BYTE /\ station \in BYTE /\ timer \in WORD /\ serial \in WORD
  /\ device \in DOMAIN MC!DEVICE_CODES /\ count \in 1..MC!MAX_READ_POINTS
  /\ m \in Nat /\ m <= 4000 /\ Bytes(pdu, m)
  /\ q = Lead(fmt, "req", pc, station, serial) \o MC!Word(fmt, MC!Size(fmt) + m) \o MC!Word(fmt, timer) \o pdu
  /\ MelsecHeadIsSound(q, fmt, "req", timer, pdu, m)
  /\ PduIsRead(fmt, pdu, MC!CMD_BATCH_READ_WORD, device, count)

\* build_read_request of melsec/codec.py makes such a read.
LEMMA MelsecReadIs ==
  ASSUME NEW fmt \in MC!FRAME_FORMATS, NEW device, NEW head, AsciiHeadFits(fmt, device, head),
         NEW count, NEW pc, NEW station, NEW timer, NEW serial \in WORD,
         NEW q, q = MC!BuildReadRequest(fmt, device, head, count, pc, station, timer, serial), q # <<>>
  PROVE  \E pdu, m : MelsecReadOf(q, fmt, pdu, m, pc, station, timer, serial, device, count)
<1>1. PICK cmd : cmd = MC!CMD_BATCH_READ_WORD
  OBVIOUS
<1>2. /\ MC!Addressable(device, head, pc, station, timer) /\ count \in 1..MC!MAX_READ_POINTS
      /\ q = MC!BuildRequest(fmt, cmd, device, head, count, <<>>, pc, station, timer, serial)
  BY <1>1 DEF MC!BuildReadRequest
<1>3. cmd \in WORD
  BY <1>1, WordIs DEF MC!CMD_BATCH_READ_WORD
<1>4. 0 \in Nat /\ 0 <= 960 /\ Len(<<>>) = 0 /\ DOMAIN <<>> = 1..0 /\ (\A i \in 1..0 : <<>>[i] \in Int) /\ (<<>> = <<>> <=> 0 = 0)
  OBVIOUS
<1>5. /\ pc \in BYTE /\ station \in BYTE /\ timer \in WORD
      /\ device \in DOMAIN MC!DEVICE_CODES /\ head \in MC!TRIPLE
  <2>1. timer \in {0, 1, 2, 4, 10, 11}
    BY <1>2 DEF MC!Addressable, MC!MONITOR_TIMER_VALUES
  <2>2. timer \in WORD
    BY <2>1, WordIs
  <2> QED BY <1>2, <2>2, MelsecCopies DEF MC!Addressable
<1>6. count \in WORD
  <2>1. MC!MAX_READ_POINTS \in Int /\ MC!MAX_READ_POINTS <= 960
    BY DEF MC!MAX_READ_POINTS
  <2>2. count \in Int /\ 1 <= count /\ count <= MC!MAX_READ_POINTS
    BY <1>2, <2>1, InRange
  <2> QED BY <2>1, <2>2, WordIs
<1>7. PICK none : none = <<>>
  OBVIOUS
<1>8. PICK n \in Nat : n = 0
  OBVIOUS
<1>9. n <= 960 /\ Len(none) = n /\ DOMAIN none = 1..n /\ (\A i \in 1..n : none[i] \in Int) /\ (none = <<>> <=> n = 0)
  BY <1>4, <1>7, <1>8
<1> DEFINE part == MC!EncodePdu(fmt, cmd, device, head, count)
           f == MC!BuildRequest(fmt, cmd, device, head, count, none, pc, station, timer, serial)
<1>10. PICK v, x, m : RequestParts(f, fmt, part, pc, station, timer, serial, v, x, m)
  BY ONLY fmt \in MC!FRAME_FORMATS, cmd \in WORD, serial \in WORD, n \in Nat, <1>2, <1>6, <1>9, MelsecRequestIs
<1> HIDE DEF f
<1>11. q = f
  BY <1>2, <1>7 DEF f
<1> DEFINE pdu == part \o v
<1>12. /\ x \in Nat /\ m \in Nat /\ m <= 4000 /\ Bytes(v, x) /\ Bytes(pdu, m)
       /\ f = RequestLead(fmt, pc, station, serial) \o MC!Word(fmt, MC!Size(fmt) + m) \o MC!Word(fmt, timer) \o pdu
  BY <1>10 DEF RequestParts
<1>13. PduIsRead(fmt, pdu, cmd, device, count)
  <2>1. CASE MC!IsAscii(fmt)
    BY <1>3, <1>5, <1>6, <1>12, <2>1, AsciiPduIsRead
  <2>2. CASE ~MC!IsAscii(fmt)
    BY <1>3, <1>5, <1>6, <1>12, <2>2, BinaryPduIsRead
  <2> QED BY <2>1, <2>2
<1> HIDE DEF pdu
<1>14. MelsecHeadIsSound(f, fmt, "req", timer, pdu, m)
  BY <1>5, <1>12, MelsecHeadIsRead DEF RequestLead
<1>15. MelsecReadOf(q, fmt, pdu, m, pc, station, timer, serial, device, count)
  <2>1. /\ m \in Nat /\ m <= 4000 /\ Bytes(pdu, m)
        /\ q = Lead(fmt, "req", pc, station, serial) \o MC!Word(fmt, MC!Size(fmt) + m) \o MC!Word(fmt, timer) \o pdu
    BY <1>11, <1>12 DEF RequestLead
  <2>2. MelsecHeadIsSound(q, fmt, "req", timer, pdu, m)
    BY <1>11, <1>14
  <2>3. PduIsRead(fmt, pdu, MC!CMD_BATCH_READ_WORD, device, count)
    BY <1>1, <1>13
  <2>4. count \in 1..MC!MAX_READ_POINTS
    BY <1>2
  <2> QED BY ONLY serial \in WORD, <1>5, <2>1, <2>2, <2>3, <2>4 DEF MelsecReadOf
<1> QED BY <1>15

\* What fills an answer: the digit of zero, or zero.
Fill(fmt, n) == [i \in 1..n |-> IF MC!IsAscii(fmt) THEN 48 ELSE 0]

\* It is as long as it is asked to be, and the same all through.
LEMMA FillIs ==
  ASSUME NEW fmt, NEW n \in Nat
  PROVE  Bytes(Fill(fmt, n), n) /\ \A i \in Nat : i < n => At(Fill(fmt, n), i) = IF MC!IsAscii(fmt) THEN 48 ELSE 0
<1> DEFINE g == Fill(fmt, n)
<1>1. g \in [1..n -> Int] /\ \A j \in 1..n : g[j] = IF MC!IsAscii(fmt) THEN 48 ELSE 0
  BY DEF Fill
<1> HIDE DEF g
<1>2. g \in Seq(Int)
  BY <1>1, SeqDef
<1>3. Len(g) = n
  BY <1>1, <1>2, LenProperties
<1>4. ASSUME NEW i \in Nat, i < n PROVE At(g, i) = IF MC!IsAscii(fmt) THEN 48 ELSE 0
  <2>1. i + 1 \in 1..n
    BY <1>4
  <2> QED BY <1>1, <1>3, <1>4, <2>1 DEF At
<1> QED BY <1>2, <1>3, <1>4 DEF Bytes, g

\* It begins with an end code of none.
LEMMA FillBegins ==
  ASSUME NEW fmt \in MC!FRAME_FORMATS, NEW m \in Nat
  PROVE  Fill(fmt, MC!Size(fmt) + m) = MC!Word(fmt, 0) \o Fill(fmt, m)
<1>1. PICK sz \in {2, 4} : sz = MC!Size(fmt) /\ (MC!IsAscii(fmt) => sz = 4) /\ (~MC!IsAscii(fmt) => sz = 2)
  BY DEF MC!Size
<1>2. PICK c \in Int : c = IF MC!IsAscii(fmt) THEN 48 ELSE 0
  OBVIOUS
<1>3. PICK w : w = MC!Word(fmt, 0)
  OBVIOUS
<1>4. Bytes(w, sz) /\ \A i \in Nat : i < sz => At(w, i) = c
  <2>1. 0 \in WORD
    BY WordIs
  <2>2. Bytes(w, sz)
    BY <1>1, <1>3, <2>1, MelsecWord
  <2>3. CASE MC!IsAscii(fmt)
    <3>1. w = Hex(0, 4)
      BY <1>3, <2>3, MelsecCopies DEF MC!Word
    <3>2. ASSUME NEW j \in 1..4 PROVE w[j] = 48
      <4>1. w[j] = Digit((0 \div SIXTEENS[4 - j + 1]) % 16)
        BY <3>1 DEF Hex
      <4>2. 4 - j + 1 \in 1..4
        OBVIOUS
      <4>3. PICK d \in Nat \ {0} : d = SIXTEENS[4 - j + 1]
        BY <4>2 DEF SIXTEENS
      <4>4. (0 \div d) % 16 = 0
        BY <4>3
      <4> QED BY <4>1, <4>3, <4>4 DEF Digit
    <3>3. ASSUME NEW i \in Nat, i < sz PROVE At(w, i) = c
      <4>1. i + 1 \in 1..4 /\ Len(w) = 4
        BY <1>1, <2>2, <2>3, <3>3 DEF Bytes
      <4> QED BY <1>2, <2>3, <3>2, <3>3, <4>1 DEF At
    <3> QED BY <2>2, <3>3
  <2>4. CASE ~MC!IsAscii(fmt)
    <3>1. w = S16(0)
      BY <1>3, <2>4, MelsecCopies DEF MC!Word
    <3>2. At(w, 0) = 0 /\ At(w, 1) = 0
      <4>1. At(w, 0) = 0 % 256 /\ At(w, 1) = 0 \div 256
        BY <2>1, <3>1, FieldIsRead
      <4> QED BY <4>1
    <3>3. ASSUME NEW i \in Nat, i < sz PROVE At(w, i) = c
      <4>1. i \in {0, 1}
        BY <1>1, <2>4, <3>3
      <4> QED BY <1>2, <2>4, <3>2, <4>1
    <3> QED BY <2>2, <3>3
  <2> QED BY <2>3, <2>4
<1> DEFINE g == Fill(fmt, sz + m)
           h == Fill(fmt, m)
<1>5. sz \in Nat /\ sz + m \in Nat
  BY <1>1
<1>6. Bytes(g, sz + m) /\ \A i \in Nat : i < sz + m => At(g, i) = c
  BY <1>2, <1>5, FillIs
<1>7. Bytes(h, m) /\ \A i \in Nat : i < m => At(h, i) = c
  BY <1>2, FillIs
<1> HIDE DEF g, h
<1> DEFINE t == w \o h
<1>8. Bytes(t, sz + m) /\ (\A i \in Nat : i < sz => At(t, i) = At(w, i)) /\ \A i \in Nat : At(t, sz + i) = At(h, i)
  BY <1>4, <1>5, <1>7, BytesJoined
<1> HIDE DEF t
<1>9. ASSUME NEW i \in Nat, i < sz + m PROVE At(t, i) = c
  <2>1. CASE i < sz
    BY <1>4, <1>8, <2>1
  <2>2. CASE ~(i < sz)
    <3>1. i - sz \in Nat /\ i - sz < m /\ sz + (i - sz) = i
      BY <1>5, <1>9, <2>2
    <3>2. At(t, sz + (i - sz)) = At(h, i - sz)
      BY <1>8, <3>1
    <3> QED BY <1>7, <3>1, <3>2
  <2> QED BY <2>1, <2>2
<1>10. PICK n \in Nat : n = sz + m
  BY <1>5
<1>11. Bytes(g, n) /\ Bytes(t, n) /\ \A i \in Nat : i < n => At(g, i) = At(t, i)
  BY <1>6, <1>8, <1>9, <1>10
<1>12. g = t
  BY ONLY n \in Nat, <1>11, SameBytes
<1> QED BY <1>1, <1>3, <1>12 DEF g, t, h

\* The four formats by what their names say.
LEMMA FormatsAre ==
  ASSUME NEW fmt \in MC!FRAME_FORMATS
  PROVE  fmt = IF MC!IsAscii(fmt) THEN IF MC!Is4e(fmt) THEN "4e_ascii" ELSE "3e_ascii"
                                  ELSE IF MC!Is4e(fmt) THEN "4e_binary" ELSE "3e_binary"
<1>1. fmt \in {"3e_binary", "3e_ascii", "4e_binary", "4e_ascii"}
  BY DEF MC!FRAME_FORMATS
<1> QED BY <1>1 DEF MC!IsAscii, MC!Is4e

\* The first four bytes, one by one.
LEMMA FirstFour ==
  ASSUME NEW n \in Nat, 4 <= n, NEW f, Bytes(f, n)
  PROVE  Upto(f, 4) = <<At(f, 0), At(f, 1), At(f, 2), At(f, 3)>>
<1>1. Bytes(Upto(f, 4), 4) /\ \A i \in Nat : i < 4 => At(Upto(f, 4), i) = At(f, i)
  BY UptoIsPrefix DEF Bytes
<1> DEFINE u == Upto(f, 4)
<1> HIDE DEF u
<1>2. /\ At(u, 0) = At(f, 0) /\ At(u, 1) = At(f, 1) /\ At(u, 2) = At(f, 2) /\ At(u, 3) = At(f, 3)
      /\ Len(u) = 4 /\ u \in Seq(Int)
  BY <1>1 DEF u, Bytes
<1>3. u[1] = At(f, 0) /\ u[2] = At(f, 1) /\ u[3] = At(f, 2) /\ u[4] = At(f, 3)
  BY <1>2 DEF At
<1>4. u = <<At(f, 0), At(f, 1), At(f, 2), At(f, 3)>>
  <2> DEFINE a == At(f, 0)
             b == At(f, 1)
             c == At(f, 2)
             d == At(f, 3)
  <2> HIDE DEF a, b, c, d
  <2>1. u = <<a, b, c, d>>
    BY <1>2, <1>3, SeqEqual DEF a, b, c, d
  <2> QED BY <2>1 DEF a, b, c, d
<1> QED BY <1>4 DEF u

\* The listener tells the format of a request from its first four bytes.
LEMMA FormatIsTold ==
  ASSUME NEW fmt \in MC!FRAME_FORMATS, NEW n \in Nat, 4 <= n, NEW f, Bytes(f, n), Opens(f, fmt, "req")
  PROVE  MelsecFormat(f) = fmt
<1>1. Upto(f, 4) = <<At(f, 0), At(f, 1), At(f, 2), At(f, 3)>> /\ Len(f) = n
  BY FirstFour DEF Bytes
<1> DEFINE u == Upto(f, 4)
<1> HIDE DEF u
<1>2. MelsecFormat(f) =
        CASE Len(f) >= 2 /\ At(f, 1) = 0 /\ At(f, 0) \in {80, 84} -> IF At(f, 0) = 84 THEN "4e_binary" ELSE "3e_binary"
          [] Len(f) >= 4 /\ At(f, 0) \in {53, 68} -> IF u = <<53, 52, 48, 48>> THEN "4e_ascii" ELSE "3e_ascii"
          [] OTHER -> "none"
  BY DEF MelsecFormat, u
<1>3. CASE MC!IsAscii(fmt)
  <2>1. /\ At(f, 0) = 53 /\ At(f, 2) = 48 /\ At(f, 3) = 48
        /\ At(f, 1) = (IF MC!Is4e(fmt) THEN 52 ELSE 48)
    BY <1>3 DEF Opens
  <2>2. u = <<53, 52, 48, 48>> <=> MC!Is4e(fmt)
    BY <1>1, <2>1 DEF u
  <2>3. MelsecFormat(f) = IF u = <<53, 52, 48, 48>> THEN "4e_ascii" ELSE "3e_ascii"
    BY <1>1, <1>2, <2>1
  <2>4. fmt = IF MC!Is4e(fmt) THEN "4e_ascii" ELSE "3e_ascii"
    BY <1>3, FormatsAre
  <2> QED BY ONLY <2>2, <2>3, <2>4
<1>4. CASE ~MC!IsAscii(fmt)
  <2>1. At(f, 0) = (IF MC!Is4e(fmt) THEN 84 ELSE 80) /\ At(f, 1) = 0
    BY <1>4 DEF Opens
  <2>2. MelsecFormat(f) = IF At(f, 0) = 84 THEN "4e_binary" ELSE "3e_binary"
    BY <1>1, <1>2, <2>1
  <2>3. At(f, 0) = 84 <=> MC!Is4e(fmt)
    BY <2>1
  <2>4. fmt = IF MC!Is4e(fmt) THEN "4e_binary" ELSE "3e_binary"
    BY <1>4, FormatsAre
  <2> QED BY ONLY <2>2, <2>3, <2>4
<1> QED BY <1>3, <1>4

\* parse_auto tells the format and the direction from them, of requests and of
\* answers.
LEMMA KindIsTold ==
  ASSUME NEW fmt \in MC!FRAME_FORMATS, NEW dir \in {"req", "resp"}, NEW n \in Nat, 4 <= n, NEW f, Bytes(f, n),
         Opens(f, fmt, dir)
  PROVE  MelsecKind(f) = <<fmt, dir>>
<1> DEFINE u == Upto(f, 4)
           a == At(f, 0)
           b == At(f, 1)
           c == At(f, 2)
           d == At(f, 3)
           head == IF a = 100 THEN Patch(u, 0, <<68>>) ELSE u
           w == U16(f, 0)
<1>1. u = <<a, b, c, d>> /\ Len(f) = n
  BY FirstFour DEF Bytes
<1>2. MelsecKind(f) =
        CASE Len(f) < 4                     -> <<"3e_binary", "req">>
          [] head = <<53, 48, 48, 48>>      -> <<"3e_ascii", "req">>
          [] head = <<53, 52, 48, 48>>      -> <<"4e_ascii", "req">>
          [] head = <<68, 48, 48, 48>>      -> <<"3e_ascii", "resp">>
          [] head = <<68, 52, 48, 48>>      -> <<"4e_ascii", "resp">>
          [] Len(f) >= 4 /\ w = 20480 -> <<"3e_binary", "req">>
          [] Len(f) >= 4 /\ w = 21504 -> <<"4e_binary", "req">>
          [] Len(f) >= 4 /\ w = 54272 -> <<"4e_binary", "resp">>
          [] OTHER                          -> <<"3e_binary", "resp">>
  BY DEF MelsecKind
<1>3. w = a * 256 + b
  <2>1. 0 + 1 = 1
    OBVIOUS
  <2> QED BY <2>1 DEF U16
<1>4. a # 100
  BY DEF Opens
<1>5. head = <<a, b, c, d>>
  BY <1>1, <1>4
<1> HIDE DEF u, head, w
<1>6. CASE MC!IsAscii(fmt)
  <2>1. a = (IF dir = "req" THEN 53 ELSE 68) /\ b = (IF MC!Is4e(fmt) THEN 52 ELSE 48) /\ c = 48 /\ d = 48
    BY <1>6 DEF Opens
  <2>2. fmt = IF MC!Is4e(fmt) THEN "4e_ascii" ELSE "3e_ascii"
    BY <1>6, FormatsAre
  <2> HIDE DEF a, b, c, d
  <2>3. /\ head = <<53, 48, 48, 48>> <=> a = 53 /\ b = 48
        /\ head = <<53, 52, 48, 48>> <=> a = 53 /\ b = 52
        /\ head = <<68, 48, 48, 48>> <=> a = 68 /\ b = 48
        /\ head = <<68, 52, 48, 48>> <=> a = 68 /\ b = 52
    BY <1>5, <2>1
  <2>4. ~(Len(f) < 4)
    BY <1>1
  <2> DEFINE p1 == head = <<53, 48, 48, 48>>
             p2 == head = <<53, 52, 48, 48>>
             p3 == head = <<68, 48, 48, 48>>
             p4 == head = <<68, 52, 48, 48>>
  <2>5. MelsecKind(f) =
          CASE Len(f) < 4 -> <<"3e_binary", "req">>
            [] p1      -> <<"3e_ascii", "req">>
            [] p2      -> <<"4e_ascii", "req">>
            [] p3      -> <<"3e_ascii", "resp">>
            [] p4      -> <<"4e_ascii", "resp">>
            [] Len(f) >= 4 /\ w = 20480 -> <<"3e_binary", "req">>
            [] Len(f) >= 4 /\ w = 21504 -> <<"4e_binary", "req">>
            [] Len(f) >= 4 /\ w = 54272 -> <<"4e_binary", "resp">>
            [] OTHER                          -> <<"3e_binary", "resp">>
    BY <1>2
  <2>6. w # 20480 /\ w # 21504 /\ w # 54272
    BY <1>3, <2>1
  <2>7. /\ p1 <=> dir = "req" /\ ~MC!Is4e(fmt)
        /\ p2 <=> dir = "req" /\ MC!Is4e(fmt)
        /\ p3 <=> dir = "resp" /\ ~MC!Is4e(fmt)
        /\ p4 <=> dir = "resp" /\ MC!Is4e(fmt)
    BY <2>1, <2>3
  <2> HIDE DEF p1, p2, p3, p4
  <2>8. MelsecKind(f) =
          CASE p1      -> <<"3e_ascii", "req">>
            [] p2      -> <<"4e_ascii", "req">>
            [] p3      -> <<"3e_ascii", "resp">>
            [] p4      -> <<"4e_ascii", "resp">>
            [] OTHER   -> <<"3e_binary", "resp">>
    BY ONLY <2>4, <2>5, <2>6
  <2> QED BY ONLY <2>2, <2>7, <2>8, dir \in {"req", "resp"}
<1>7. CASE ~MC!IsAscii(fmt)
  <2>1. a = (IF MC!Is4e(fmt) THEN IF dir = "req" THEN 84 ELSE 212 ELSE IF dir = "req" THEN 80 ELSE 208) /\ b = 0
    BY <1>7 DEF Opens
  <2>2. fmt = IF MC!Is4e(fmt) THEN "4e_binary" ELSE "3e_binary"
    BY <1>7, FormatsAre
  <2> HIDE DEF a, b, c, d
  <2>3. head # <<53, 48, 48, 48>> /\ head # <<53, 52, 48, 48>> /\ head # <<68, 48, 48, 48>> /\ head # <<68, 52, 48, 48>>
    BY <1>5, <2>1
  <2>4. ~(Len(f) < 4) /\ Len(f) >= 4
    BY <1>1
  <2>5. w = (IF MC!Is4e(fmt) THEN IF dir = "req" THEN 21504 ELSE 54272 ELSE IF dir = "req" THEN 20480 ELSE 53248)
    BY <1>3, <2>1
  <2>6. CASE dir = "req" /\ MC!Is4e(fmt)
    BY <1>2, <2>2, <2>3, <2>4, <2>5, <2>6
  <2>7. CASE dir = "req" /\ ~MC!Is4e(fmt)
    BY <1>2, <2>2, <2>3, <2>4, <2>5, <2>7
  <2>8. CASE dir = "resp" /\ MC!Is4e(fmt)
    BY <1>2, <2>2, <2>3, <2>4, <2>5, <2>8
  <2>9. CASE dir = "resp" /\ ~MC!Is4e(fmt)
    BY <1>2, <2>2, <2>3, <2>4, <2>5, <2>9
  <2> QED BY <2>6, <2>7, <2>8, <2>9
<1> QED BY <1>6, <1>7

\* The answer to a read by its parts: w words of nothing.
MelsecAnswerOf(r, fmt, w, m, pc, station, serial) ==
  /\ m \in Nat /\ m <= 3840 /\ w \in Nat /\ m = MC!Size(fmt) * w
  /\ r = Lead(fmt, "resp", pc, station, serial) \o MC!Word(fmt, MC!Size(fmt) + m) \o MC!Word(fmt, 0) \o Fill(fmt, m)

\* The listener's answer to a read is such an answer, of the words the read asked for.
LEMMA MelsecAnswerIs ==
  ASSUME NEW fmt \in MC!FRAME_FORMATS, NEW q, NEW pdu, NEW x, NEW pc, NEW station, NEW timer, NEW serial, NEW device, NEW count,
         MelsecReadOf(q, fmt, pdu, x, pc, station, timer, serial, device, count),
         NEW r, r = MelsecResponse(q)
  PROVE  \E m : MelsecAnswerOf(r, fmt, MC!WordsOf(device, count), m, pc, station, serial)
<1>1. /\ pc \in BYTE /\ station \in BYTE /\ timer \in WORD /\ serial \in WORD /\ x \in Nat /\ x <= 4000 /\ Bytes(pdu, x)
      /\ q = Lead(fmt, "req", pc, station, serial) \o MC!Word(fmt, MC!Size(fmt) + x) \o MC!Word(fmt, timer) \o pdu
      /\ MelsecHeadIsSound(q, fmt, "req", timer, pdu, x)
      /\ PduIsRead(fmt, pdu, MC!CMD_BATCH_READ_WORD, device, count)
      /\ count \in 1..MC!MAX_READ_POINTS
  BY DEF MelsecReadOf
<1>2. PICK sz \in {2, 4} : sz = MC!Size(fmt)
  BY DEF MC!Size
<1>17. q = Lead(fmt, "req", pc, station, serial) \o MC!Word(fmt, MC!Size(fmt) + x) \o MC!Word(fmt, timer) \o pdu
  BY <1>1
<1>3. PICK k \in Nat : \E rest : LeadRest(rest, k, fmt, pc, station, serial)
  BY <1>1, LeadHasRest
<1>18. PICK rest : LeadRest(rest, k, fmt, pc, station, serial)
  BY <1>3
<1>4. k \in Nat /\ Bytes(rest, k) /\ sz + k = MC!LenOffset(fmt) /\ sz \in Nat
  BY <1>2, <1>18 DEF LeadRest
<1>5. /\ Lead(fmt, "req", pc, station, serial) = SubheaderRun(fmt, "req") \o rest
      /\ Lead(fmt, "resp", pc, station, serial) = SubheaderRun(fmt, "resp") \o rest
  BY <1>18 DEF LeadRest
<1>6. Bytes(SubheaderRun(fmt, "req"), sz) /\ Bytes(SubheaderRun(fmt, "resp"), sz)
  BY <1>2, SubheaderOpens DEF SubheaderRun
<1>7. PICK h \in Nat : h = MC!HeaderLen(fmt) /\ 11 <= h /\ sz + k <= h
  <2>1. MC!HeaderLen(fmt) \in {11, 22, 15, 30} /\ MC!LenOffset(fmt) <= MC!HeaderLen(fmt)
    BY DEF MC!HeaderLen, MC!LenOffset, MC!Pick, MC!HEADER_LENS
  <2> QED BY <1>4, <2>1
<1>8. Bytes(q, h + x) /\ From(q, h) = pdu /\ Opens(q, fmt, "req")
  BY <1>1, <1>7 DEF MelsecHeadIsSound
<1>9. MelsecFormat(q) = fmt
  <2>1. h + x \in Nat /\ 4 <= h + x
    BY <1>1, <1>7
  <2> QED BY <1>8, <2>1, FormatIsTold
<1>10. Mid(q, sz, sz + k) = rest
  <2> DEFINE a == SubheaderRun(fmt, "req")
             l == a \o rest
             s == MC!Word(fmt, MC!Size(fmt) + x)
             t == MC!Word(fmt, timer)
  <2>1. Bytes(l, sz + k) /\ \A i \in Nat : At(l, sz + i) = At(rest, i)
    BY <1>4, <1>6, BytesJoined
  <2>2. Bytes(s, sz) /\ Bytes(t, sz)
    <3>1. MC!Size(fmt) + x \in WORD
      BY <1>1, <1>2, WordIs
    <3> QED BY <1>1, <1>2, <3>1, MelsecWord
  <2>3. q = l \o s \o t \o pdu
    BY ONLY <1>5, <1>17
  <2> HIDE DEF a, l, s, t
  <2>4. PICK n \in Nat : n = sz + k
    BY <1>4
  <2> DEFINE ls == l \o s
             lst == ls \o t
  <2>5. Bytes(ls, n + sz) /\ \A i \in Nat : i < n => At(ls, i) = At(l, i)
    BY <1>4, <2>1, <2>2, <2>4, BytesJoined
  <2> HIDE DEF ls
  <2>6. Bytes(lst, n + sz + sz) /\ \A i \in Nat : i < n + sz => At(lst, i) = At(ls, i)
    <3>1. n + sz \in Nat
      BY <1>4
    <3> QED BY <1>4, <2>2, <2>5, <3>1, BytesJoined
  <2> HIDE DEF lst
  <2>7. \A i \in Nat : i < n + sz + sz => At(q, i) = At(lst, i)
    <3>1. PICK u \in Nat : u = n + sz + sz
      BY <1>4
    <3>2. q = lst \o pdu
      BY <2>3 DEF lst, ls
    <3>3. \A i \in Nat : i < u => At(lst \o pdu, i) = At(lst, i)
      BY <1>1, <2>6, <3>1, BytesJoined
    <3> QED BY <3>1, <3>2, <3>3
  <2>8. \A i \in Nat : i < k => At(q, sz + i) = At(rest, i)
    <3> TAKE i \in Nat
    <3> HAVE i < k
    <3>1. sz + i \in Nat /\ sz + i < n /\ sz + i < n + sz /\ sz + i < n + sz + sz
      BY <1>4, <2>4
    <3> QED BY <2>1, <2>5, <2>6, <2>7, <3>1
  <2>9. PICK u \in Nat : u = h + x
    BY <1>1, <1>7
  <2>10. Bytes(q, u) /\ sz + k <= u
    BY <1>1, <1>7, <1>8, <2>9
  <2> QED BY ONLY k \in Nat, u \in Nat, <1>4, <2>8, <2>10, MidIs
<1>11. PICK w \in Nat : w = MC!WordsOf(device, count) /\ w <= 960
  <2>1. MC!MAX_READ_POINTS \in Int /\ MC!MAX_READ_POINTS <= 960
    BY DEF MC!MAX_READ_POINTS
  <2>2. count \in Int /\ 1 <= count /\ count <= 960
    BY <1>1, <2>1, InRange
  <2> QED BY <2>2 DEF MC!WordsOf
<1>12. PICK m \in Nat : m = sz * w /\ m <= 3840 /\ sz * (1 + w) = sz + m
  <2>1. CASE sz = 2
    BY <1>11, <2>1
  <2>2. CASE sz = 4
    BY <1>11, <2>2
  <2> QED BY <2>1, <2>2
<1> DEFINE g == Fill(fmt, sz + m)
<1>13. r = SubheaderRun(fmt, "resp") \o rest \o MC!Word(fmt, sz + m) \o g
  <2> DEFINE body == From(q, MC!HeaderLen(fmt))
             p == MC!DecodePdu(fmt, body)
             data == [i \in 1..MC!Size(fmt) * (1 + MC!WordsOf(p.device, p.count)) |-> IF MC!IsAscii(fmt) THEN 48 ELSE 0]
             echo == Mid(q, MC!Size(fmt), MC!LenOffset(fmt))
  <2>1. r = CASE fmt = "none" -> None
              [] fmt # "none" /\ Len(body) < 10 -> None
              [] fmt # "none" /\ Len(body) >= 10 ->
                   IF ~p.ok THEN Raises
                   ELSE IF p.cmd # MC!CMD_BATCH_READ_WORD THEN None
                   ELSE SubheaderRun(fmt, "resp") \o echo \o MC!Word(fmt, Len(data)) \o data
    BY <1>9 DEF MelsecResponse, SubheaderRun
  <2>2. body = pdu
    BY <1>7, <1>8
  <2>3. Len(body) >= 10 /\ p.ok /\ p.cmd = MC!CMD_BATCH_READ_WORD /\ p.device = device /\ p.count = count
    <3>1. MC!PduAsciiLen(fmt) >= 10 /\ MC!PduAsciiLen(fmt) \in Int
      BY DEF MC!PduAsciiLen
    <3>2. Len(pdu) = x /\ Len(pdu) >= MC!PduAsciiLen(fmt)
      BY <1>1 DEF PduIsRead, Bytes
    <3> QED BY <1>1, <2>2, <3>1, <3>2 DEF PduIsRead
  <2>4. data = g
    <3>1. data = [i \in 1..sz * (1 + w) |-> IF MC!IsAscii(fmt) THEN 48 ELSE 0]
      BY <1>2, <1>11, <2>3
    <3> HIDE DEF data
    <3> QED BY <1>12, <3>1 DEF Fill
  <2>5. echo = rest
    BY <1>2, <1>4, <1>10
  <2>6. fmt # "none"
    BY DEF MC!FRAME_FORMATS
  <2>7. Len(g) = sz + m
    <3>1. sz + m \in Nat
      BY <1>4
    <3> QED BY <3>1, FillIs DEF Bytes
  <2> HIDE DEF body, p, data, echo, g
  <2>8. r = SubheaderRun(fmt, "resp") \o echo \o MC!Word(fmt, Len(data)) \o data
    <3>1. ~(Len(body) < 10)
      <4>1. Len(body) \in Nat
        BY <1>1, <2>2 DEF Bytes
      <4> QED BY <2>3, <4>1
    <3> QED BY ONLY <2>1, <2>3, <2>6, <3>1
  <2> QED BY ONLY <2>4, <2>5, <2>7, <2>8
<1>14. g = MC!Word(fmt, 0) \o Fill(fmt, m)
  BY <1>2, FillBegins
<1> HIDE DEF g
<1>15. r = Lead(fmt, "resp", pc, station, serial) \o MC!Word(fmt, sz + m) \o MC!Word(fmt, 0) \o Fill(fmt, m)
  <2>1. PICK l : l = Lead(fmt, "resp", pc, station, serial)
    OBVIOUS
  <2>2. PICK s : s = MC!Word(fmt, sz + m)
    OBVIOUS
  <2>3. PICK t : t = MC!Word(fmt, 0)
    OBVIOUS
  <2>4. PICK z : z = Fill(fmt, m)
    OBVIOUS
  <2>5. Bytes(s, sz) /\ Bytes(t, sz)
    <3>1. sz + m \in WORD /\ 0 \in WORD
      BY <1>12, WordIs
    <3> QED BY <1>2, <2>2, <2>3, <3>1, MelsecWord
  <2>6. z \in Seq(Int) /\ s \in Seq(Int) /\ t \in Seq(Int)
    BY <2>4, <2>5, FillIs DEF Bytes
  <2>7. l \in Seq(Int)
    <3>1. Bytes(SubheaderRun(fmt, "resp") \o rest, sz + k)
      BY <1>4, <1>6, BytesJoined
    <3> QED BY <1>5, <2>1, <3>1 DEF Bytes
  <2>8. l \o s \in Seq(Int)
    BY <2>6, <2>7, ConcatProperties
  <2>9. ((l \o s) \o t) \o z = (l \o s) \o (t \o z)
    <3>1. PICK y : y = l \o s
      OBVIOUS
    <3>2. y \in Seq(Int)
      BY <2>8, <3>1
    <3>3. (y \o t) \o z = y \o (t \o z)
      BY ONLY <2>6, <3>2, ConcatAssociative
    <3> QED BY <3>1, <3>3
  <2>10. r = (l \o s) \o (t \o z)
    BY <1>5, <1>13, <1>14, <2>1, <2>2, <2>3, <2>4
  <2> QED BY ONLY <2>1, <2>2, <2>3, <2>4, <2>9, <2>10
<1>16. MelsecAnswerOf(r, fmt, w, m, pc, station, serial)
  BY <1>2, <1>12, <1>15 DEF MelsecAnswerOf
<1> QED BY <1>11, <1>16

\* Parts of two runs that have the same bytes there are the same.
LEMMA MidsAgree ==
  ASSUME NEW f, NEW g, NEW m \in Nat, NEW n \in Nat, Bytes(f, m), Bytes(g, n), NEW i \in Nat, NEW j \in Nat,
         i <= j, j <= m, j <= n, \A k \in Nat : i + k < j => At(f, i + k) = At(g, i + k)
  PROVE  Mid(f, i, j) = Mid(g, i, j)
<1> DEFINE u == Mid(f, i, j)
           v == Mid(g, i, j)
<1>1. Bytes(u, j - i) /\ \A k \in Nat : k < j - i => At(u, k) = At(f, i + k)
  BY MidBytes
<1>2. Bytes(v, j - i) /\ \A k \in Nat : k < j - i => At(v, k) = At(g, i + k)
  BY MidBytes
<1> HIDE DEF u, v
<1>3. PICK d \in Nat : d = j - i
  OBVIOUS
<1>4. \A k \in Nat : k < d => i + k < j
  BY <1>3
<1>5. Bytes(u, d) /\ Bytes(v, d) /\ \A k \in Nat : k < d => At(u, k) = At(v, k)
  BY <1>1, <1>2, <1>3, <1>4
<1> QED BY <1>5, SameBytes DEF u, v

\* A frame of this make, and what is read of it.
MelsecFrame(f, fmt, dir, pc, station, serial, timer, m, data) ==
  /\ pc \in BYTE /\ station \in BYTE /\ serial \in WORD /\ timer \in WORD /\ m \in Nat /\ m <= 4000 /\ Bytes(data, m)
  /\ f = Lead(fmt, dir, pc, station, serial) \o MC!Word(fmt, MC!Size(fmt) + m) \o MC!Word(fmt, timer) \o data
MelsecFrameRead(f, fmt, dir, pc, station, serial, timer, m, data) ==
  /\ MelsecHeadIsSound(f, fmt, dir, timer, data, m) /\ IsFrame("melsec", f)
  /\ \A i \in Nat : i < MC!LenOffset(fmt) => At(f, i) = At(Lead(fmt, dir, pc, station, serial), i)

\* Such a frame is cut whole, and its fields are read where the format has them.
LEMMA MelsecFrameIsRead ==
  ASSUME NEW fmt \in MC!FRAME_FORMATS, NEW dir \in {"req", "resp"}, NEW f, NEW pc, NEW station, NEW serial, NEW timer,
         NEW m, NEW data, MelsecFrame(f, fmt, dir, pc, station, serial, timer, m, data)
  PROVE  MelsecFrameRead(f, fmt, dir, pc, station, serial, timer, m, data)
<1> DEFINE r == Lead(fmt, dir, pc, station, serial)
           s == MC!Word(fmt, MC!Size(fmt) + m)
           e == MC!Word(fmt, timer)
<1>1. /\ pc \in BYTE /\ station \in BYTE /\ serial \in WORD /\ timer \in WORD /\ m \in Nat /\ m <= 4000 /\ Bytes(data, m)
  BY DEF MelsecFrame
<1>2. f = r \o s \o e \o data
  BY DEF MelsecFrame
<1>3. MelsecHeadIsSound(Lead(fmt, dir, pc, station, serial) \o MC!Word(fmt, MC!Size(fmt) + m)
                             \o MC!Word(fmt, timer) \o data, fmt, dir, timer, data, m)
  BY <1>1, MelsecHeadIsRead
<1>4. PICK sz \in {2, 4} : sz = MC!Size(fmt)
  BY DEF MC!Size
<1>5. PICK l \in Nat : l = MC!LenOffset(fmt) /\ Bytes(r, l) /\ Begins(r, l, sz)
  BY <1>1, <1>4, LeadBegins
<1>6. Bytes(s, sz) /\ Bytes(e, sz) /\ (s = IF sz = 4 THEN Hex(sz + m, 4) ELSE S16(sz + m)) /\ sz \in Nat
  <2>1. sz + m \in WORD
    BY <1>1, <1>4, WordIs
  <2> QED BY <1>1, <1>4, <2>1, MelsecWord
<1>7. MelsecHeadIsSound(f, fmt, dir, timer, data, m)
  BY ONLY <1>2, <1>3
<1> HIDE DEF r, s, e
<1>8. IsFrame("melsec", r \o s \o e \o data)
  BY ONLY l \in Nat, <1>1, <1>5, <1>6, MelsecIsCutWhole
<1>9. MelsecParts(r \o s \o e \o data, r, l, s, e, sz, data, m)
  BY ONLY l \in Nat, <1>1, <1>5, <1>6, MelsecPartsAreRead
<1>10. MelsecParts(f, r, l, s, e, sz, data, m) /\ IsFrame("melsec", f)
  BY ONLY <1>2, <1>8, <1>9
<1>11. \A i \in Nat : i < l => At(f, i) = At(r, i)
  BY ONLY <1>10 DEF MelsecParts
<1>12. \A i \in Nat : i < MC!LenOffset(fmt) => At(f, i) = At(r, i)
  BY ONLY <1>5, <1>11
<1> QED BY ONLY <1>7, <1>10, <1>12 DEF MelsecFrameRead, r

\* Request and answer have the same route and the same station.
LEMMA RoutesAgree ==
  ASSUME NEW fmt \in MC!FRAME_FORMATS, NEW pc \in BYTE, NEW station \in BYTE, NEW serial \in WORD,
         NEW q, NEW r, NEW n \in Nat, NEW x \in Nat, Bytes(q, MC!HeaderLen(fmt) + x), Bytes(r, MC!HeaderLen(fmt) + n),
         \A i \in Nat : i < MC!LenOffset(fmt) => At(q, i) = At(Lead(fmt, "req", pc, station, serial), i),
         \A i \in Nat : i < MC!LenOffset(fmt) => At(r, i) = At(Lead(fmt, "resp", pc, station, serial), i)
  PROVE  MC!Route(r, fmt) = MC!Route(q, fmt) /\ MC!Station(r, fmt) = MC!Station(q, fmt)
<1> DEFINE a == SubheaderRun(fmt, "req")
           b == SubheaderRun(fmt, "resp")
<1>1. PICK sz \in {2, 4} : sz = MC!Size(fmt)
  BY DEF MC!Size
<1>2. PICK k \in Nat : \E rest : LeadRest(rest, k, fmt, pc, station, serial)
  BY LeadHasRest
<1>3. PICK rest : LeadRest(rest, k, fmt, pc, station, serial)
  BY <1>2
<1>4. /\ Bytes(rest, k) /\ sz + k = MC!LenOffset(fmt) /\ sz \in Nat
      /\ Lead(fmt, "req", pc, station, serial) = a \o rest
      /\ Lead(fmt, "resp", pc, station, serial) = b \o rest
  BY <1>1, <1>3 DEF LeadRest
<1>5. Bytes(a, sz) /\ Bytes(b, sz)
  BY <1>1, SubheaderOpens DEF SubheaderRun
<1> HIDE DEF a, b
<1>6. \A i \in Nat : At(a \o rest, sz + i) = At(rest, i)
  BY <1>4, <1>5, BytesJoined
<1>7. \A i \in Nat : At(b \o rest, sz + i) = At(rest, i)
  BY <1>4, <1>5, BytesJoined
<1>8. ASSUME NEW i \in Nat, sz <= i, i < sz + k PROVE At(r, i) = At(q, i)
  <2>1. i - sz \in Nat /\ sz + (i - sz) = i
    BY <1>4, <1>8
  <2>2. At(a \o rest, i) = At(rest, i - sz) /\ At(b \o rest, i) = At(rest, i - sz)
    BY <1>6, <1>7, <2>1
  <2> QED BY <1>4, <1>8, <2>2
<1>9. PICK h \in Nat : h = MC!HeaderLen(fmt)
  BY DEF MC!HeaderLen, MC!Pick, MC!HEADER_LENS
<1>10. PICK u \in Nat, v \in Nat : u = h + n /\ v = h + x
  BY <1>9
<1>11. Bytes(r, u) /\ Bytes(q, v)
  BY <1>9, <1>10
<1>12. ASSUME NEW i \in Nat, NEW j \in Nat, sz <= i, i <= j, j <= sz + k PROVE MC!Mid(r, i, j) = MC!Mid(q, i, j)
  <2>1. \A o \in Nat : i + o < j => At(r, i + o) = At(q, i + o)
    <3> TAKE o \in Nat
    <3> HAVE i + o < j
    <3>1. i + o \in Nat /\ sz <= i + o /\ i + o < sz + k
      BY <1>4, <1>12
    <3> QED BY <1>8, <3>1
  <2>2. j <= u /\ j <= v
    <3>1. sz + k <= h
      <4>1. MC!LenOffset(fmt) <= MC!HeaderLen(fmt)
        BY DEF MC!HeaderLen, MC!LenOffset, MC!Pick, MC!HEADER_LENS
      <4> QED BY <1>4, <1>9, <4>1
    <3> QED BY <1>4, <1>10, <1>12, <3>1
  <2>3. Mid(r, i, j) = Mid(q, i, j)
    BY ONLY u \in Nat, v \in Nat, i \in Nat, j \in Nat, <1>11, <1>12, <2>1, <2>2, MidsAgree
  <2> QED BY <2>3, MelsecReading
<1>13. PICK i \in Nat, j \in Nat : /\ i = MC!LenOffset(fmt) - (IF MC!IsAscii(fmt) THEN 10 ELSE 5)
                                    /\ j = MC!LenOffset(fmt) - MC!Size(fmt) \div 2
                                    /\ sz <= i /\ i <= j /\ j <= sz + k
  <2>1. CASE MC!IsAscii(fmt)
    <3>1. MC!LenOffset(fmt) \in {14, 22} /\ MC!Size(fmt) = 4
      BY <2>1 DEF MC!LenOffset, MC!Size, MC!Pick
    <3> QED BY <1>1, <1>4, <2>1, <3>1
  <2>2. CASE ~MC!IsAscii(fmt)
    <3>1. MC!LenOffset(fmt) \in {7, 11} /\ MC!Size(fmt) = 2
      BY <2>2 DEF MC!LenOffset, MC!Size, MC!Pick
    <3> QED BY <1>1, <1>4, <2>2, <3>1
  <2> QED BY <2>1, <2>2
<1>14. MC!Route(r, fmt) = MC!Route(q, fmt)
  BY <1>12, <1>13 DEF MC!Route
<1>15. MC!Station(r, fmt) = MC!Station(q, fmt)
  <2>1. sz + k \in Nat /\ sz + k <= sz + k /\ sz <= j /\ j <= sz + k
    BY <1>4, <1>13
  <2>2. MC!Mid(r, j, sz + k) = MC!Mid(q, j, sz + k)
    BY <1>12, <2>1
  <2> QED BY <1>4, <1>13, <2>2 DEF MC!Station
<1> QED BY <1>14, <1>15

\* The words of an answer that is all zeros.
LEMMA FillIsDecoded ==
  ASSUME NEW fmt \in MC!FRAME_FORMATS, NEW m \in Nat, NEW w \in Nat, m = MC!Size(fmt) * w
  PROVE  MC!DecodeWordValues(fmt, Fill(fmt, m)).decodable /\ MC!DecodeWordValues(fmt, Fill(fmt, m)).count = w
<1> DEFINE g == Fill(fmt, m)
           d == MC!DecodeWordValues(fmt, g)
<1>1. PICK sz \in {2, 4} : sz = MC!Size(fmt) /\ (MC!IsAscii(fmt) => sz = 4)
  BY DEF MC!Size
<1>2. Bytes(g, m) /\ \A i \in Nat : i < m => At(g, i) = IF MC!IsAscii(fmt) THEN 48 ELSE 0
  BY FillIs
<1> HIDE DEF g
<1>3. Len(g) = m /\ m \div sz = w
  <2>1. m \div sz = w
    <3>1. CASE sz = 2
      BY <1>1, <3>1
    <3>2. CASE sz = 4
      BY <1>1, <3>2
    <3> QED BY <3>1, <3>2
  <2> QED BY <1>2, <2>1 DEF Bytes
<1>4. /\ d.count = Len(g) \div MC!Size(fmt)
      /\ d.decodable = (MC!IsAscii(fmt) => \A i \in 0..(Len(g) \div 4) - 1 : MC!IsHex(MC!Mid(g, 4 * i, 4 * i + 4)))
  BY DEF MC!DecodeWordValues
<1> HIDE DEF d
<1>5. ASSUME MC!IsAscii(fmt), NEW i \in 0..(Len(g) \div 4) - 1 PROVE MC!IsHex(MC!Mid(g, 4 * i, 4 * i + 4))
  <2>1. PICK a \in Nat, b \in Nat : a = 4 * i /\ b = 4 * i + 4 /\ b <= m /\ a <= b /\ b - a = 4
    <3>1. m = 4 * w /\ i \in Nat /\ i <= w - 1
      BY <1>1, <1>3, <1>5
    <3> QED BY <3>1
  <2>6. Bytes(g, m)
    BY <1>2
  <2>7. Bytes(Mid(g, a, b), b - a) /\ \A k \in Nat : k < b - a => At(Mid(g, a, b), k) = At(g, a + k)
    BY ONLY m \in Nat, a \in Nat, b \in Nat, <2>1, <2>6, MidBytes
  <2> DEFINE s == Mid(g, a, b)
  <2>2. Bytes(s, b - a) /\ \A k \in Nat : k < b - a => At(s, k) = At(g, a + k)
    BY <2>7
  <2> HIDE DEF s
  <2>3. HexRun(s, 4)
    <3>1. ASSUME NEW k \in Nat, k < 4 PROVE At(s, k) \in (48..57) \cup (65..70) \cup (97..102)
      <4>1. a + k \in Nat /\ a + k < m /\ k < b - a
        BY <2>1, <3>1
      <4>2. At(s, k) = 48
        BY <1>2, <1>5, <2>2, <4>1
      <4> QED BY <4>2
    <3> QED BY <2>1, <2>2, <3>1 DEF HexRun
  <2>4. 4 \in Nat /\ 1 <= 4
    OBVIOUS
  <2>5. IsHex(s)
    BY ONLY <2>3, <2>4, RunIsHex
  <2> QED BY <2>1, <2>5, MelsecReading DEF s
<1> QED BY <1>1, <1>3, <1>4, <1>5 DEF d, g

\* Findings of an answer: none where none of the five conditions holds.
LEMMA MelsecAnswerFindings ==
  ASSUME NEW a, NEW b, NEW c, NEW d, NEW e, ~a, ~b, ~c, ~d, ~e
  PROVE  MC!Found([subheader |-> a, data_length |-> b, trailing |-> c, undecodable |-> d, data_short |-> e]) = {}
BY DEF MC!Found

\* Findings of a request: none where none of its five conditions holds.
LEMMA MelsecFrameFindings ==
  ASSUME NEW a, NEW b, NEW c, NEW d, NEW e, ~a, ~b, ~c, ~d, ~e
  PROVE  MC!Found([frame_header_complete |-> a, subheader_match |-> b, data_length_consistent |-> c,
                   end_code_known |-> d, command_supported |-> e]) = {}
BY DEF MC!Found

\* A sound answer of w words with the end code 0.
LEMMA MelsecAnswerParsed ==
  ASSUME NEW fmt \in MC!FRAME_FORMATS, NEW m \in Nat, NEW w \in Nat, m = MC!Size(fmt) * w,
         NEW r, MelsecHeadIsSound(r, fmt, "resp", 0, Fill(fmt, m), m)
  PROVE  /\ MC!ParseResponseFmt(r, <<>>, fmt) = {} /\ MC!EndCode(r, fmt) = 0
         /\ MC!ValidateFrameFmt(r, "resp", fmt) = {}
         /\ \A q, pdu, device, count :
              /\ From(q, MC!HeaderLen(fmt)) = pdu /\ PduIsRead(fmt, pdu, MC!CMD_BATCH_READ_WORD, device, count)
              /\ w = MC!WordsOf(device, count) /\ MC!CrossCheckFmt(r, q, fmt) = {}
              => MC!ParseResponseFmt(r, q, fmt) = {}
<1>1. /\ Bytes(r, MC!HeaderLen(fmt) + m) /\ From(r, MC!HeaderLen(fmt)) = Fill(fmt, m) /\ MC!HeaderIsSound(r, fmt)
      /\ MC!SubheaderAt(fmt, r) = MC!Subheader(fmt, "resp")
      /\ MC!WordAt(fmt, r, MC!LenOffset(fmt)) = MC!TailBytes(r, fmt)
      /\ MC!WordAt(fmt, r, MC!EndOffset(fmt)) = 0
  BY DEF MelsecHeadIsSound
<1> DEFINE data == MC!From(r, MC!HeaderLen(fmt))
           end == MC!WordAt(fmt, r, MC!EndOffset(fmt))
           words == MC!DecodeWordValues(fmt, data)
<1>2. words.decodable /\ words.count = w
  <2>1. data = Fill(fmt, m)
    BY <1>1, MelsecReading
  <2> QED BY <2>1, FillIsDecoded
<1>3. ASSUME NEW q, q # <<>> => MC!CrossCheckFmt(r, q, fmt) = {},
             NEW asked, asked = MC!DecodePdu(fmt, MC!From(q, MC!HeaderLen(fmt))),
             q # <<>> /\ asked.ok => ~(words.count < MC!WordsOf(asked.device, asked.count))
      PROVE  MC!ParseResponseFmt(r, q, fmt) = {}
  <2> DEFINE p1 == MC!SubheaderAt(fmt, r) # MC!Subheader(fmt, "resp")
             p2 == MC!WordAt(fmt, r, MC!LenOffset(fmt)) # MC!TailBytes(r, fmt)
             p3 == end # 0 /\ Len(data) > MC!Size(fmt)
             p4 == end = 0 /\ ~words.decodable
             p5 == /\ end = 0 /\ words.decodable /\ words.count > 0
                   /\ q # <<>> /\ asked.ok
                   /\ words.count < MC!WordsOf(asked.device, asked.count)
  <2>1. MC!ParseResponseFmt(r, q, fmt) =
          IF ~MC!HeaderIsSound(r, fmt) THEN {"header"}
          ELSE MC!Found([subheader |-> p1, data_length |-> p2, trailing |-> p3, undecodable |-> p4, data_short |-> p5])
               \cup (IF q = <<>> THEN {} ELSE MC!CrossCheckFmt(r, q, fmt))
    BY <1>3 DEF MC!ParseResponseFmt
  <2> HIDE DEF words, data
  <2>2. ~p1 /\ ~p2 /\ ~p3 /\ ~p4
    BY <1>1, <1>2
  <2>3. ~p5
    BY <1>3
  <2> HIDE DEF p1, p2, p3, p4, p5
  <2>4. MC!Found([subheader |-> p1, data_length |-> p2, trailing |-> p3, undecodable |-> p4, data_short |-> p5]) = {}
    BY ONLY <2>2, <2>3, MelsecAnswerFindings
  <2> QED BY ONLY <1>1, <1>3, <2>1, <2>4
<1>4. MC!ParseResponseFmt(r, <<>>, fmt) = {}
  <2>1. PICK asked : asked = MC!DecodePdu(fmt, MC!From(<<>>, MC!HeaderLen(fmt)))
    OBVIOUS
  <2> HIDE DEF words
  <2> QED BY <1>3, <2>1
<1>5. MC!EndCode(r, fmt) = 0
  BY <1>1 DEF MC!EndCode
<1>6. MC!ValidateFrameFmt(r, "resp", fmt) = {}
  <2> DEFINE n == Len(r)
             pdu == MC!DecodePdu(fmt, MC!From(r, MC!HeaderLen(fmt)))
             sized == n >= MC!LenOffset(fmt) + MC!Size(fmt)
             p1 == n < MC!HeaderLen(fmt)
             p2 == n >= MC!Size(fmt) /\ MC!SubheaderAt(fmt, r) # MC!Subheader(fmt, "resp")
             p3 == sized /\ MC!WordAt(fmt, r, MC!LenOffset(fmt)) # MC!TailBytes(r, fmt)
             p4 == sized /\ "resp" = "resp" /\ n >= MC!EndOffset(fmt) + 2 /\ end \notin MC!END_CODES
             p5 == /\ sized /\ "resp" = "req" /\ n >= MC!HeaderLen(fmt) + 2
                   /\ ~(pdu.ok /\ pdu.cmd = MC!CMD_BATCH_READ_WORD)
  <2>1. MC!ValidateFrameFmt(r, "resp", fmt) =
          MC!Found([frame_header_complete |-> p1, subheader_match |-> p2, data_length_consistent |-> p3,
                    end_code_known |-> p4, command_supported |-> p5])
    BY DEF MC!ValidateFrameFmt
  <2>2. ~p1
    <3>1. MC!HeaderLen(fmt) \in Nat
      BY DEF MC!HeaderLen, MC!Pick, MC!HEADER_LENS
    <3>2. Len(r) = MC!HeaderLen(fmt) + m
      BY <1>1 DEF Bytes
    <3> QED BY <3>1, <3>2
  <2>3. ~p2 /\ ~p3
    BY <1>1
  <2>4. ~p4
    BY <1>1 DEF MC!END_CODES
  <2>5. ~p5
    OBVIOUS
  <2> HIDE DEF p1, p2, p3, p4, p5
  <2> QED BY ONLY <2>1, <2>2, <2>3, <2>4, <2>5, MelsecFrameFindings
<1>7. ASSUME NEW q, NEW pdu, NEW device, NEW count,
             From(q, MC!HeaderLen(fmt)) = pdu, PduIsRead(fmt, pdu, MC!CMD_BATCH_READ_WORD, device, count),
             w = MC!WordsOf(device, count), MC!CrossCheckFmt(r, q, fmt) = {}
      PROVE  MC!ParseResponseFmt(r, q, fmt) = {}
  <2>1. PICK asked : asked = MC!DecodePdu(fmt, MC!From(q, MC!HeaderLen(fmt)))
    OBVIOUS
  <2>2. asked = MC!DecodePdu(fmt, pdu)
    BY <1>7, <2>1, MelsecReading
  <2>3. asked.device = device /\ asked.count = count
    BY <1>7, <2>2 DEF PduIsRead
  <2>4. ~(words.count < MC!WordsOf(asked.device, asked.count))
    BY <1>2, <1>7, <2>3
  <2> HIDE DEF words
  <2> QED BY <1>3, <1>7, <2>1, <2>4
<1> QED BY <1>4, <1>5, <1>6, <1>7

\* Every MELSEC read, in each of the four formats, is answered by the listener with
\* a frame in which the parser finds nothing, with the request at hand or without,
\* and which is seen to be an answer in that format.
THEOREM MelsecReadIsAnswered ==
  ASSUME NEW fmt \in MC!FRAME_FORMATS, NEW device, NEW head, AsciiHeadFits(fmt, device, head),
         NEW count, NEW pc, NEW station, NEW timer, NEW serial \in WORD,
         NEW q, q = MC!BuildReadRequest(fmt, device, head, count, pc, station, timer, serial), q # <<>>,
         NEW r, r = MelsecResponse(q)
  PROVE  /\ IsFrame("melsec", r)
         /\ MC!ParseResponseFmt(r, q, fmt) = {} /\ MC!ParseResponseFmt(r, <<>>, fmt) = {} /\ MC!EndCode(r, fmt) = 0
         /\ MC!ValidateFrameFmt(r, "resp", fmt) = {} /\ ParseAuto("melsec", r) = AsResponse({}, 0)
<1>1. PICK pdu, x : MelsecReadOf(q, fmt, pdu, x, pc, station, timer, serial, device, count)
  BY MelsecReadIs
<1>2. PICK w : w = MC!WordsOf(device, count)
  OBVIOUS
<1>3. PICK m : MelsecAnswerOf(r, fmt, w, m, pc, station, serial)
  BY <1>1, <1>2, MelsecAnswerIs
<1>4. /\ m \in Nat /\ m <= 4000 /\ w \in Nat /\ m = MC!Size(fmt) * w
      /\ r = Lead(fmt, "resp", pc, station, serial) \o MC!Word(fmt, MC!Size(fmt) + m) \o MC!Word(fmt, 0) \o Fill(fmt, m)
  BY <1>3 DEF MelsecAnswerOf
<1>5. /\ pc \in BYTE /\ station \in BYTE /\ timer \in WORD /\ x \in Nat /\ x <= 4000 /\ Bytes(pdu, x)
      /\ MelsecHeadIsSound(q, fmt, "req", timer, pdu, x)
      /\ PduIsRead(fmt, pdu, MC!CMD_BATCH_READ_WORD, device, count)
  BY <1>1 DEF MelsecReadOf
<1>6. q = Lead(fmt, "req", pc, station, serial) \o MC!Word(fmt, MC!Size(fmt) + x) \o MC!Word(fmt, timer) \o pdu
  BY <1>1 DEF MelsecReadOf
<1>7. MelsecFrameRead(r, fmt, "resp", pc, station, serial, 0, m, Fill(fmt, m))
  <2>1. 0 \in WORD /\ Bytes(Fill(fmt, m), m)
    BY <1>4, WordIs, FillIs
  <2>2. MelsecFrame(r, fmt, "resp", pc, station, serial, 0, m, Fill(fmt, m))
    BY <1>4, <1>5, <2>1 DEF MelsecFrame
  <2>3. PICK zero : zero = 0
    OBVIOUS
  <2>4. PICK z : z = Fill(fmt, m)
    OBVIOUS
  <2>5. PICK resp \in {"req", "resp"} : resp = "resp"
    OBVIOUS
  <2>6. MelsecFrame(r, fmt, resp, pc, station, serial, zero, m, z)
    BY ONLY <2>2, <2>3, <2>4, <2>5
  <2>7. MelsecFrameRead(r, fmt, resp, pc, station, serial, zero, m, z)
    BY ONLY fmt \in MC!FRAME_FORMATS, resp \in {"req", "resp"}, <2>6, MelsecFrameIsRead
  <2> QED BY ONLY <2>3, <2>4, <2>5, <2>7
<1>8. MelsecFrameRead(q, fmt, "req", pc, station, serial, timer, x, pdu)
  <2>1. PICK req \in {"req", "resp"} : req = "req"
    OBVIOUS
  <2>2. MelsecFrame(q, fmt, "req", pc, station, serial, timer, x, pdu)
    BY <1>5, <1>6 DEF MelsecFrame
  <2>3. MelsecFrame(q, fmt, req, pc, station, serial, timer, x, pdu)
    BY ONLY <2>1, <2>2
  <2>4. MelsecFrameRead(q, fmt, req, pc, station, serial, timer, x, pdu)
    BY ONLY fmt \in MC!FRAME_FORMATS, req \in {"req", "resp"}, <2>3, MelsecFrameIsRead
  <2> QED BY ONLY <2>1, <2>4
<1>15. /\ \A i \in Nat : i < MC!LenOffset(fmt) => At(q, i) = At(Lead(fmt, "req", pc, station, serial), i)
       /\ \A i \in Nat : i < MC!LenOffset(fmt) => At(r, i) = At(Lead(fmt, "resp", pc, station, serial), i)
       /\ IsFrame("melsec", r)
  BY ONLY <1>7, <1>8 DEF MelsecFrameRead
<1>17. MelsecHeadIsSound(r, fmt, "resp", 0, Fill(fmt, m), m)
  BY ONLY <1>7 DEF MelsecFrameRead
<1>18. Bytes(q, MC!HeaderLen(fmt) + x) /\ From(q, MC!HeaderLen(fmt)) = pdu /\ MC!HeaderIsSound(q, fmt)
  BY <1>5 DEF MelsecHeadIsSound
<1>19. Bytes(r, MC!HeaderLen(fmt) + m) /\ MC!HeaderIsSound(r, fmt) /\ Opens(r, fmt, "resp")
  BY <1>17 DEF MelsecHeadIsSound
<1>20. MC!CrossCheckFmt(r, q, fmt) = {}
  <2>1. /\ \A i \in Nat : i < MC!LenOffset(fmt) => At(q, i) = At(Lead(fmt, "req", pc, station, serial), i)
        /\ \A i \in Nat : i < MC!LenOffset(fmt) => At(r, i) = At(Lead(fmt, "resp", pc, station, serial), i)
    BY ONLY <1>15
  <2>2. m \in Nat /\ x \in Nat /\ pc \in BYTE /\ station \in BYTE
    BY <1>4, <1>5
  <2>3. MC!Route(r, fmt) = MC!Route(q, fmt) /\ MC!Station(r, fmt) = MC!Station(q, fmt)
    BY ONLY fmt \in MC!FRAME_FORMATS, serial \in WORD, <1>18, <1>19, <2>1, <2>2, RoutesAgree
  <2> DEFINE p1 == MC!Route(r, fmt) # MC!Route(q, fmt)
             p2 == MC!Station(r, fmt) # MC!Station(q, fmt)
  <2>4. MC!CrossCheckFmt(r, q, fmt) = IF ~MC!HeaderIsSound(r, fmt) \/ ~MC!HeaderIsSound(q, fmt) THEN {"cross_check"}
                                      ELSE MC!Found([route |-> p1, station |-> p2])
    BY DEF MC!CrossCheckFmt
  <2>5. ~p1 /\ ~p2
    BY <2>3
  <2> HIDE DEF p1, p2
  <2>6. MC!Found([route |-> p1, station |-> p2]) = {}
    BY <2>5 DEF MC!Found
  <2> QED BY ONLY <1>18, <1>19, <2>4, <2>6
<1>21. /\ MC!ParseResponseFmt(r, <<>>, fmt) = {} /\ MC!EndCode(r, fmt) = 0
       /\ MC!ValidateFrameFmt(r, "resp", fmt) = {} /\ MC!ParseResponseFmt(r, q, fmt) = {}
  <2>1. m \in Nat /\ w \in Nat /\ m = MC!Size(fmt) * w
    BY <1>4
  <2> QED BY ONLY fmt \in MC!FRAME_FORMATS, <1>2, <1>5, <1>17, <1>18, <1>20, <2>1, MelsecAnswerParsed
<1>22. MelsecKind(r) = <<fmt, "resp">>
  <2>1. PICK n \in Nat : n = MC!HeaderLen(fmt) + m /\ 4 <= n
    <3>1. MC!HeaderLen(fmt) \in {11, 22, 15, 30}
      BY DEF MC!HeaderLen, MC!Pick, MC!HEADER_LENS
    <3> QED BY <1>4, <3>1
  <2>4. PICK resp \in {"req", "resp"} : resp = "resp"
    OBVIOUS
  <2>2. Bytes(r, n) /\ Opens(r, fmt, resp)
    BY <1>19, <2>1, <2>4
  <2>3. MelsecKind(r) = <<fmt, resp>>
    BY ONLY fmt \in MC!FRAME_FORMATS, resp \in {"req", "resp"}, n \in Nat, <2>1, <2>2, KindIsTold
  <2> QED BY <2>3, <2>4
<1>23. ParseAuto("melsec", r) = AsResponse({}, 0)
  <2>1. ParseAuto("melsec", r) = IF MelsecKind(r)[2] = "req" THEN AsRequest(MC!ParseRequestFmt(r, MelsecKind(r)[1]))
                                 ELSE AsResponse(MC!ParseResponseFmt(r, <<>>, MelsecKind(r)[1]), MC!EndCode(r, MelsecKind(r)[1]))
    BY DEF ParseAuto, ParseMelsec
  <2>2. MelsecKind(r)[1] = fmt /\ MelsecKind(r)[2] # "req"
    BY ONLY <1>22
  <2> QED BY ONLY <1>21, <2>1, <2>2
<1> QED BY <1>15, <1>21, <1>23

\* The read itself is seen to be a request in its format.
LEMMA MelsecReadIsSeen ==
  ASSUME NEW fmt \in MC!FRAME_FORMATS, NEW device, NEW head, AsciiHeadFits(fmt, device, head),
         NEW count, NEW pc, NEW station, NEW timer, NEW serial \in WORD,
         NEW q, q = MC!BuildReadRequest(fmt, device, head, count, pc, station, timer, serial), q # <<>>
  PROVE  ParseAuto("melsec", q) = AsRequest({})
<1>1. PICK pdu, x : MelsecReadOf(q, fmt, pdu, x, pc, station, timer, serial, device, count)
  BY MelsecReadIs
<1>2. x \in Nat /\ Bytes(q, MC!HeaderLen(fmt) + x) /\ Opens(q, fmt, "req")
  BY <1>1 DEF MelsecReadOf, MelsecHeadIsSound
<1>3. PICK n \in Nat : n = MC!HeaderLen(fmt) + x /\ 4 <= n
  <2>1. MC!HeaderLen(fmt) \in {11, 22, 15, 30}
    BY DEF MC!HeaderLen, MC!Pick, MC!HEADER_LENS
  <2> QED BY <1>2, <2>1
<1>4. PICK req \in {"req", "resp"} : req = "req"
  OBVIOUS
<1>5. Bytes(q, n) /\ Opens(q, fmt, req)
  BY <1>2, <1>3, <1>4
<1>6. MelsecKind(q) = <<fmt, req>>
  BY ONLY fmt \in MC!FRAME_FORMATS, req \in {"req", "resp"}, n \in Nat, <1>3, <1>5, KindIsTold
<1>7. MC!ParseRequestFmt(q, fmt) = {}
  BY MelsecReadIsAccepted
<1>8. ParseAuto("melsec", q) = IF MelsecKind(q)[2] = "req" THEN AsRequest(MC!ParseRequestFmt(q, MelsecKind(q)[1]))
                               ELSE AsResponse(MC!ParseResponseFmt(q, <<>>, MelsecKind(q)[1]), MC!EndCode(q, MelsecKind(q)[1]))
  BY DEF ParseAuto, ParseMelsec
<1>9. MelsecKind(q)[1] = fmt /\ MelsecKind(q)[2] = "req"
  BY ONLY <1>4, <1>6
<1> QED BY ONLY <1>7, <1>8, <1>9

\* A Modbus read, parsed on its own, is a request of no error.
LEMMA ModbusReadIsSeen ==
  ASSUME NEW tid, NEW unit, NEW fc, NEW address, NEW quantity,
         NEW q, q = MB!BuildReadRequest(tid, unit, fc, address, quantity), q # <<>>
  PROVE  ParseAuto("modbus", q) = AsRequest({})
<1>1. Len(q) = 12 /\ At(q, 7) \in MB!KNOWN_FCS
  <2>1. ModbusReadOf(q, unit, fc, quantity)
    BY ModbusReadIs
  <2> QED BY <2>1 DEF ModbusReadOf, Bytes, MB!READ_FCS, MB!KNOWN_FCS
<1>2. MB!ParseRequest(q) = {}
  BY ModbusReadIsAccepted
<1> QED BY <1>1, <1>2 DEF ParseAuto, ParseModbus

-----------------------------------------------------------------------------
(* What is said in a capture                                                *)

\* A request that is a frame and is seen as one, and so is the listener's answer.
Exchanged(w, q) ==
  /\ IsFrame(w, q) /\ ParseAuto(w, q) = AsRequest({})
  /\ IsFrame(w, BuildNormalResponse(w, q, 2)) /\ ParseAuto(w, BuildNormalResponse(w, q, 2)) = AsResponse({}, 0)

\* The Modbus reads of a capture are exchanged.
LEMMA ModbusReadsAreExchanged ==
  Exchanged("modbus", MB!BuildReadRequest(1, 1, 3, 0, 1)) /\ Exchanged("modbus", MB!BuildReadRequest(2, 1, 1, 7, 9))
<1>1. 1 \in 0..MB!MAX_UNIT_ID /\ 1 \in 1..MB!read_limit(3) /\ 9 \in 1..MB!read_limit(1)
  BY DEF MB!MAX_UNIT_ID, MB!read_limit
<1>2. ASSUME NEW tid \in WORD, NEW fc \in {1, 3}, NEW address \in WORD, NEW quantity \in WORD,
             quantity \in 1..MB!read_limit(fc), quantity \notin 17..24
      PROVE  Exchanged("modbus", MB!BuildReadRequest(tid, 1, fc, address, quantity))
  <2> DEFINE q == MB!BuildReadRequest(tid, 1, fc, address, quantity)
             pdu == <<fc>> \o MB!B16(address) \o MB!B16(quantity)
  <2>1. q = MB!Mbap(tid, 1, pdu)
    BY <1>1, <1>2, SmallNumbers DEF MB!BuildReadRequest, MB!READ_FCS
  <2>2. Bytes(pdu, 5)
    BY <1>2, FiveBytes
  <2> HIDE DEF pdu
  <2>3. Bytes(q, 12)
    <3>1. 5 \in Nat /\ 5 <= 253 /\ 1 \in Int /\ 7 + 5 = 12
      OBVIOUS
    <3>2. Bytes(MB!Mbap(tid, 1, pdu), 7 + 5)
      BY <2>2, <3>1, MbapIsCutWhole
    <3> QED BY <2>1, <3>1, <3>2
  <2>4. q # <<>>
    BY <2>3, EmptySeq DEF Bytes
  <2>5. IsFrame("modbus", q)
    BY <2>4, ModbusReadIsCutWhole DEF IsFrame, Bytes
  <2>6. ParseAuto("modbus", q) = AsRequest({})
    BY <2>4, ModbusReadIsSeen
  <2>7. IsFrame("modbus", ModbusResponse(q)) /\ ParseAuto("modbus", ModbusResponse(q)) = AsResponse({}, 0)
    BY <1>2, <2>4, ModbusReadIsAnswered
  <2>8. BuildNormalResponse("modbus", q, 2) = ModbusResponse(q)
    BY DEF BuildNormalResponse
  <2> HIDE DEF q
  <2>9. Exchanged("modbus", q)
    BY <2>5, <2>6, <2>7, <2>8 DEF Exchanged
  <2> QED BY <2>9 DEF q
<1> QED BY <1>1, <1>2, SmallNumbers

\* The FINS handshake and read of a capture are exchanged.
LEMMA FinsFramesAreExchanged ==
  Exchanged("fins", FI!BuildHandshakeRequest(1)) /\ Exchanged("fins", FI!BuildReadRequest(9, 1, 130, 0, 2, 2))
<1>1. ASSUME NEW q, q \in {FI!BuildHandshakeRequest(1), FI!BuildReadRequest(9, 1, 130, 0, 2, 2)}
      PROVE  q # <<>>
  <2>1. ASSUME NEW command \in WORD, NEW k \in {4, 18}, NEW payload, Bytes(payload, k)
        PROVE  FI!BuildTcpFrame(command, payload) # <<>>
    <3>1. k \in Nat /\ k <= 100000 /\ 16 + k <= 16400 /\ 16 + k \in Nat /\ 16 + k # 0
      OBVIOUS
    <3>2. Bytes(FI!BuildTcpFrame(command, payload), 16 + k)
      BY <2>1, <3>1, TcpFrameIsCutWhole
    <3> QED BY <3>1, <3>2, EmptySeq DEF Bytes
  <2>2. FI!BuildHandshakeRequest(1) # <<>>
    <3>1. 1 \in FI!BYTE /\ FitsWide(1)
      BY SmallNumbers DEF FitsWide
    <3>2. FI!BuildHandshakeRequest(1) = FI!BuildTcpFrame(0, FI!B32(1))
      BY <3>1 DEF FI!BuildHandshakeRequest, FI!TCP_CMD_CONNECT_REQ
    <3>3. FI!B32(1) = B32(1)
      BY DEF FI!B32, B32, FI!B16, B16
    <3> QED BY <2>1, <3>1, <3>2, <3>3, SmallNumbers, WideFieldIsRead
  <2>3. FI!BuildReadRequest(9, 1, 130, 0, 2, 2) # <<>>
    <3>1. FI!Addressable(9, 130, 0, 2)
      BY SmallNumbers DEF FI!Addressable, FI!AREA_CODES
    <3>2. 257 \in WORD /\ 2 \in 1..FI!MAX_READ_WORDS
      BY WordIs DEF FI!MAX_READ_WORDS
    <3>3. Bytes(FI!Memory(9, 1, 257, 130, 0, 2, 2), 18)
      <4>1. 9 \in Int /\ 1 \in Int /\ 130 \in Int /\ 0 \in WORD /\ 2 \in Int /\ 2 \in WORD
        BY SmallNumbers
      <4> QED BY <3>2, <4>1, MemoryBytes
    <3>4. FI!BuildReadRequest(9, 1, 130, 0, 2, 2) = FI!BuildTcpFrame(2, FI!Memory(9, 1, 257, 130, 0, 2, 2))
      BY <3>1, <3>2 DEF FI!BuildReadRequest, FI!TCP_CMD_DATA_SEND, FI!CMD_MEMORY_AREA_READ
    <3> QED BY <2>1, <3>3, <3>4, SmallNumbers
  <2> QED BY <1>1, <2>2, <2>3
<1>2. ASSUME NEW q, q = FI!BuildHandshakeRequest(1) PROVE Exchanged("fins", q)
  <2>1. q # <<>>
    BY <1>1, <1>2
  <2>2. IsFrame("fins", q)
    BY <1>2, <2>1, FinsHandshakeIsCutWhole DEF IsFrame, Bytes
  <2>3. ParseAuto("fins", q) = AsRequest({})
    BY <1>2, <2>1, FinsHandshakeIsSeen
  <2>4. IsFrame("fins", FinsResponse(q, 2)) /\ ParseAuto("fins", FinsResponse(q, 2)) = AsResponse({}, 0)
    BY <1>2, <2>1, FinsHandshakeIsAnswered
  <2>5. BuildNormalResponse("fins", q, 2) = FinsResponse(q, 2)
    BY DEF BuildNormalResponse
  <2> QED BY <2>2, <2>3, <2>4, <2>5 DEF Exchanged
<1>3. ASSUME NEW q, q = FI!BuildReadRequest(9, 1, 130, 0, 2, 2) PROVE Exchanged("fins", q)
  <2>1. q # <<>>
    BY <1>1, <1>3
  <2>2. IsFrame("fins", q)
    BY <1>3, <2>1, FinsReadIsCutWhole DEF IsFrame, Bytes
  <2>3. ParseAuto("fins", q) = AsRequest({})
    BY <1>3, <2>1, FinsReadIsSeen
  <2>4. IsFrame("fins", FinsResponse(q, 2)) /\ ParseAuto("fins", FinsResponse(q, 2)) = AsResponse({}, 0)
    <3>1. 30 + 2 * 2 <= 16400
      OBVIOUS
    <3> QED BY <1>3, <2>1, <3>1, FinsReadIsAnswered
  <2>5. BuildNormalResponse("fins", q, 2) = FinsResponse(q, 2)
    BY DEF BuildNormalResponse
  <2> QED BY <2>2, <2>3, <2>4, <2>5 DEF Exchanged
<1> QED BY <1>2, <1>3

\* The MELSEC reads of a capture are exchanged, in each of the four formats.
LEMMA MelsecReadsAreExchanged ==
  ASSUME NEW fmt \in MC!FRAME_FORMATS
  PROVE  /\ Exchanged("melsec", MC!BuildReadRequest(fmt, "D", 100, 2, 255, 0, 4, 1))
         /\ Exchanged("melsec", MC!BuildReadRequest(fmt, "X", 16, 20, 255, 0, 4, 2))
<1>1. AsciiHeadFits(fmt, "D", 100) /\ AsciiHeadFits(fmt, "X", 16) /\ 1 \in WORD /\ 2 \in WORD
  BY SmallNumbers DEF AsciiHeadFits, MC!HEX_DEVICES, MC!TENS
<1>2. \A d \in {"D", "X"}, head \in {100, 16} : MC!Addressable(d, head, 255, 0, 4)
  <2>1. 255 \in MC!BYTE /\ 0 \in MC!BYTE /\ 4 \in MC!MONITOR_TIMER_VALUES /\ {"D", "X"} \subseteq DOMAIN MC!DEVICE_CODES
    BY SmallNumbers DEF MC!MONITOR_TIMER_VALUES, MC!DEVICE_CODES
  <2>2. \A head \in {100, 16} : head \in MC!TRIPLE
    <3>1. MC!MOST_OF_THREE \in Nat /\ MC!MOST_OF_THREE >= 100
      BY DEF MC!MOST_OF_THREE
    <3> QED BY <3>1 DEF MC!TRIPLE
  <2> QED BY <2>1, <2>2 DEF MC!Addressable
<1>3. \A n \in {2, 20} : n \in 1..MC!MAX_READ_POINTS
  BY DEF MC!MAX_READ_POINTS
<1>4. ASSUME NEW d \in {"D", "X"}, NEW head \in {100, 16}, NEW count \in {2, 20}, NEW serial \in WORD,
             AsciiHeadFits(fmt, d, head), NEW q, q = MC!BuildReadRequest(fmt, d, head, count, 255, 0, 4, serial)
      PROVE  Exchanged("melsec", q)
  <2>1. IsFrame("melsec", MC!BuildRequest(fmt, 1025, d, head, count, <<>>, 255, 0, 4, serial))
    <3>1. 0 \in Nat /\ 0 <= 960 /\ Len(<<>>) = 0 /\ DOMAIN <<>> = 1..0 /\ \A i \in 1..0 : <<>>[i] \in Int
      OBVIOUS
    <3>2. 1025 \in WORD /\ count \in WORD
      BY WordIs
    <3> QED BY <1>2, <1>3, <1>4, <3>1, <3>2, MelsecRequestIsCutWhole
  <2>2. q = MC!BuildRequest(fmt, 1025, d, head, count, <<>>, 255, 0, 4, serial)
    BY <1>2, <1>3, <1>4 DEF MC!BuildReadRequest, MC!CMD_BATCH_READ_WORD
  <2>3. IsFrame("melsec", q) /\ q # <<>>
    BY <2>1, <2>2, FrameIsSomething DEF Wires
  <2>4. ParseAuto("melsec", q) = AsRequest({})
    BY <1>4, <2>3, MelsecReadIsSeen
  <2>5. IsFrame("melsec", MelsecResponse(q)) /\ ParseAuto("melsec", MelsecResponse(q)) = AsResponse({}, 0)
    BY <1>4, <2>3, MelsecReadIsAnswered
  <2>6. BuildNormalResponse("melsec", q, 2) = MelsecResponse(q)
    BY DEF BuildNormalResponse
  <2> QED BY <2>3, <2>4, <2>5, <2>6 DEF Exchanged
<1> QED BY <1>1, <1>4

\* The dialects of a connection that is captured.
Spoken == {"modbus", "fins"} \cup MC!FRAME_FORMATS

\* What a side of a frame's direction is.
Seen(s) == IF s = "client" THEN AsRequest({}) ELSE AsResponse({}, 0)

\* Frames of one side, each of them a frame of p and seen as the side's.
SideIsSound(p, s, frames) ==
  /\ frames \in Seq(Seq(Int)) /\ AreFrames(p, frames)
  /\ \A i \in DOMAIN frames : ParseAuto(p, frames[i]) = Seen(s)

\* Two such frames are the frames of a side.
LEMMA PairIsSound ==
  ASSUME NEW p, NEW s, NEW a, NEW b, IsFrame(p, a), IsFrame(p, b), ParseAuto(p, a) = Seen(s), ParseAuto(p, b) = Seen(s),
         NEW frames, frames \in Seq(Seq(Int)) <=> (a \in Seq(Int) /\ b \in Seq(Int)),
         DOMAIN frames = 1..2, Len(frames) = 2, frames[1] = a, frames[2] = b
  PROVE  SideIsSound(p, s, frames)
<1>1. a \in Seq(Int) /\ b \in Seq(Int)
  BY DEF IsFrame
<1>2. \A i \in 1..2 : i = 1 \/ i = 2
  OBVIOUS
<1>3. \A i \in 1..2 : IsFrame(p, frames[i]) /\ ParseAuto(p, frames[i]) = Seen(s)
  BY <1>2
<1> QED BY <1>1, <1>3 DEF SideIsSound, AreFrames

\* Two requests that are exchanged make a side of requests and one of answers.
LEMMA ExchangedIsSound ==
  ASSUME NEW d, NEW w, NEW a, NEW b, Exchanged(w, a), Exchanged(w, b), Requested(d) = <<a, b>>, Wire(d) = w
  PROVE  \A s \in Sides : SideIsSound(w, s, Said(d, s))
<1> DEFINE x == BuildNormalResponse(w, a, 2)
           y == BuildNormalResponse(w, b, 2)
<1>1. SideIsSound(w, "client", Said(d, "client"))
  <2> DEFINE frames == <<a, b>>
  <2>1. Said(d, "client") = frames
    BY DEF Said
  <2>2. /\ IsFrame(w, a) /\ IsFrame(w, b) /\ ParseAuto(w, a) = Seen("client") /\ ParseAuto(w, b) = Seen("client")
    BY DEF Exchanged, Seen
  <2>3. /\ frames \in Seq(Seq(Int)) <=> (a \in Seq(Int) /\ b \in Seq(Int))
        /\ DOMAIN frames = 1..2 /\ Len(frames) = 2 /\ frames[1] = a /\ frames[2] = b
    <3>1. DOMAIN frames = 1..2 /\ Len(frames) = 2 /\ frames[1] = a /\ frames[2] = b
      OBVIOUS
    <3>2. a \in Seq(Int) /\ b \in Seq(Int)
      BY <2>2 DEF IsFrame
    <3> QED BY <3>1, <3>2
  <2> HIDE DEF frames
  <2> QED BY <2>1, <2>2, <2>3, PairIsSound
<1>2. SideIsSound(w, "server", Said(d, "server"))
  <2> DEFINE asked == <<a, b>>
             frames == [i \in DOMAIN asked |-> BuildNormalResponse(w, asked[i], 2)]
  <2>1. Said(d, "server") = frames
    BY DEF Said, Answered
  <2>2. /\ IsFrame(w, x) /\ IsFrame(w, y) /\ ParseAuto(w, x) = Seen("server") /\ ParseAuto(w, y) = Seen("server")
    BY DEF Exchanged, Seen
  <2>3. DOMAIN asked = 1..2 /\ asked[1] = a /\ asked[2] = b
    OBVIOUS
  <2> HIDE DEF asked
  <2>4. DOMAIN frames = 1..2 /\ frames[1] = x /\ frames[2] = y
    BY <2>3
  <2>5. frames = [i \in 1..2 |-> frames[i]]
    BY <2>3
  <2> HIDE DEF x, y, frames
  <2>6. x \in Seq(Int) /\ y \in Seq(Int)
    BY <2>2 DEF IsFrame
  <2>7. frames \in Seq(Seq(Int)) /\ Len(frames) = 2
    <3>1. \A i \in 1..2 : frames[i] \in Seq(Int)
      BY <2>4, <2>6
    <3>2. frames \in [1..2 -> Seq(Int)]
      BY <2>5, <3>1
    <3>3. frames \in Seq(Seq(Int))
      <4>1. 2 \in Nat
        OBVIOUS
      <4> QED BY <2>5, <3>1, <4>1, SeqDef
    <3> QED BY <2>4, <3>3, LenProperties
  <2>8. \A i \in 1..2 : IsFrame(w, frames[i]) /\ ParseAuto(w, frames[i]) = Seen("server")
    BY <2>2, <2>4
  <2> QED BY <2>1, <2>4, <2>7, <2>8 DEF SideIsSound, AreFrames
<1> QED BY <1>1, <1>2 DEF Sides

\* What is said in a dialect is frames of its protocol, each seen for what it is.
LEMMA SaidIsSound ==
  ASSUME NEW d \in Spoken, NEW s \in Sides
  PROVE  Wire(d) \in {"modbus", "fins", "melsec"} /\ SideIsSound(Wire(d), s, Said(d, s))
<1>1. CASE d = "modbus"
  <2>1. Requested(d) = <<MB!BuildReadRequest(1, 1, 3, 0, 1), MB!BuildReadRequest(2, 1, 1, 7, 9)>>
    BY <1>1 DEF Requested, MC!FRAME_FORMATS
  <2>2. Wire(d) = "modbus"
    BY <1>1 DEF Wire, MC!FRAME_FORMATS
  <2>3. PICK a, b : a = MB!BuildReadRequest(1, 1, 3, 0, 1) /\ b = MB!BuildReadRequest(2, 1, 1, 7, 9)
    OBVIOUS
  <2>4. Exchanged("modbus", a) /\ Exchanged("modbus", b) /\ Requested(d) = <<a, b>>
    BY <2>1, <2>3, ModbusReadsAreExchanged
  <2> QED BY ONLY s \in Sides, <2>2, <2>4, ExchangedIsSound
<1>2. CASE d = "fins"
  <2>1. Requested(d) = <<FI!BuildHandshakeRequest(1), FI!BuildReadRequest(9, 1, 130, 0, 2, 2)>>
    BY <1>2 DEF Requested, MC!FRAME_FORMATS
  <2>2. Wire(d) = "fins"
    BY <1>2 DEF Wire, MC!FRAME_FORMATS
  <2>3. PICK a, b : a = FI!BuildHandshakeRequest(1) /\ b = FI!BuildReadRequest(9, 1, 130, 0, 2, 2)
    OBVIOUS
  <2>4. Exchanged("fins", a) /\ Exchanged("fins", b) /\ Requested(d) = <<a, b>>
    BY <2>1, <2>3, FinsFramesAreExchanged
  <2> QED BY ONLY s \in Sides, <2>2, <2>4, ExchangedIsSound
<1>3. CASE d \in MC!FRAME_FORMATS
  <2>1. PICK a, b : /\ a = MC!BuildReadRequest(d, "D", 100, 2, 255, 0, 4, 1)
                    /\ b = MC!BuildReadRequest(d, "X", 16, 20, 255, 0, 4, 2)
    OBVIOUS
  <2>2. Exchanged("melsec", a) /\ Exchanged("melsec", b)
    BY <1>3, <2>1, MelsecReadsAreExchanged
  <2>3. Requested(d) = <<a, b>>
    <3>1. d # "modbus" /\ d # "fins"
      BY <1>3 DEF MC!FRAME_FORMATS
    <3> QED BY <1>3, <2>1, <3>1 DEF Requested
  <2>4. Wire(d) = "melsec"
    BY <1>3 DEF Wire
  <2> QED BY ONLY s \in Sides, <2>2, <2>3, <2>4, ExchangedIsSound
<1> QED BY <1>1, <1>2, <1>3 DEF Spoken

\* Its first bytes are what is there of a side's frames.
Genuine(flow, p) ==
  /\ p \in Wires /\ flow.forward \in Sides
  /\ \A s \in Sides : /\ flow.parts[s] \in Seq(Int) /\ SideIsSound(p, s, flow.sent[s])
                      /\ IsPrefix(flow.parts[s], FlattenSeq(flow.sent[s]))

\* Frames are runs of bytes that are not empty.
LEMMA FramesAreRuns ==
  ASSUME NEW p \in Wires, NEW frames \in Seq(Seq(Int)), AreFrames(p, frames)
  PROVE  /\ FlattenSeq(frames) \in Seq(Int) /\ \A i \in 1..Len(frames) : frames[i] # <<>>
         /\ IsPrefix(FlattenSeq(frames), FlattenSeq(frames))
<1>1. FlattenSeq(frames) \in Seq(Int)
  <2>1. Len(frames) \in Nat /\ Len(frames) \in 0..Len(frames)
    BY LenProperties
  <2> QED BY <2>1, FrontsGrow
<1>2. \A i \in 1..Len(frames) : frames[i] # <<>>
  BY FrameIsSomething DEF AreFrames
<1> DEFINE f == FlattenSeq(frames)
<1>3. f \in Seq(Int)
  BY <1>1
<1> HIDE DEF f
<1>4. IsPrefix(f, f)
  BY <1>3, LenProperties DEF IsPrefix
<1> QED BY <1>1, <1>2, <1>4 DEF f

\* The frames and the tail of what is there of a side are those that were sent of it.
LEMMA MarkedIsTrue ==
  ASSUME NEW flow, NEW p, Genuine(flow, p), NEW s \in Sides, NEW n
  PROVE  Marked(n, s, SplitFrames(p, flow.parts[s])) = TruthOf(n, s, flow.parts[s], flow.sent[s])
<1> DEFINE parts == flow.parts[s]
           frames == flow.sent[s]
<1>1. /\ p \in Wires /\ parts \in Seq(Int) /\ frames \in Seq(Seq(Int)) /\ AreFrames(p, frames)
      /\ IsPrefix(parts, FlattenSeq(frames))
  BY DEF Genuine, SideIsSound
<1> HIDE DEF parts, frames
<1>2. Len(parts) \in Nat /\ \A i \in 1..Len(frames) : frames[i] # <<>>
  BY <1>1, FramesAreRuns, LenProperties
<1>3. PICK w : /\ Ends(frames, w, Len(parts))
               /\ Cardinality({i \in DOMAIN frames : Len(FirstRuns(frames, i)) <= Len(parts)}) = w
  BY <1>1, <1>2, RunsWithin
<1>4. Within(frames, Len(parts)) = w
  BY <1>3 DEF Within, FirstRuns
<1>5. SplitFrames(p, parts) = [frames |-> SubSeq(frames, 1, w), tail |-> From(parts, Len(FirstRuns(frames, w)))]
  BY <1>1, <1>3, SplitIsTrue
<1>6. Marked(n, s, SplitFrames(p, parts)) = TruthOf(n, s, parts, frames)
  BY <1>4, <1>5 DEF TruthOf, FirstRuns
<1> QED BY <1>6 DEF parts, frames

\* What parse_pcap tells, of whichever flow.
TOLD == [flow : Nat, side : Sides, frame : Seq(Int), partial : BOOLEAN]

\* Of a side of flow n: its frames, and what is no frame marked so.
IsOf(r, n, s, frames) ==
  r \in TOLD /\ r.flow = n /\ r.side = s /\ (~r.partial => \E i \in DOMAIN frames : r.frame = frames[i])

\* What is told of frames is as long as they are and of the flow and side.
LEMMA ToldIs ==
  ASSUME NEW n \in Nat, NEW s \in Sides, NEW partial \in BOOLEAN, NEW frames \in Seq(Seq(Int))
  PROVE  /\ Told(n, s, partial, frames) \in Seq(TOLD)
         /\ \A r \in Range(Told(n, s, partial, frames)) :
              /\ r \in TOLD /\ r.flow = n /\ r.side = s /\ r.partial = partial
              /\ \E i \in DOMAIN frames : r.frame = frames[i]
<1> DEFINE One(i) == [flow |-> n, side |-> s, frame |-> frames[i], partial |-> partial]
           t == Told(n, s, partial, frames)
<1>1. Len(frames) \in Nat /\ DOMAIN frames = 1..Len(frames) /\ \A i \in 1..Len(frames) : frames[i] \in Seq(Int)
  BY LenProperties, ElementOfSeq
<1>2. t = [i \in 1..Len(frames) |-> One(i)]
  BY <1>1 DEF Told
<1>3. \A i \in 1..Len(frames) : /\ One(i) \in TOLD /\ One(i).flow = n /\ One(i).side = s /\ One(i).partial = partial
                                /\ One(i).frame = frames[i]
  BY <1>1 DEF TOLD
<1> HIDE DEF One, t
<1>4. t \in Seq(TOLD)
  BY <1>1, <1>2, <1>3, SeqDef
<1>5. ASSUME NEW r \in Range(t)
      PROVE  /\ r \in TOLD /\ r.flow = n /\ r.side = s /\ r.partial = partial
             /\ \E i \in DOMAIN frames : r.frame = frames[i]
  <2>1. PICK i \in 1..Len(frames) : r = One(i)
    BY <1>2 DEF Range
  <2> QED BY <1>1, <1>3, <2>1
<1> QED BY <1>4, <1>5 DEF t

\* What is in two sequences joined is in one of them.
LEMMA InJoined ==
  ASSUME NEW S, NEW a \in Seq(S), NEW b \in Seq(S)
  PROVE  a \o b \in Seq(S) /\ Range(a \o b) \subseteq Range(a) \cup Range(b)
<1>1. Len(a) \in Nat /\ Len(b) \in Nat /\ DOMAIN a = 1..Len(a) /\ DOMAIN b = 1..Len(b)
  BY LenProperties
<1>2. /\ a \o b \in Seq(S) /\ Len(a \o b) = Len(a) + Len(b)
      /\ \A i \in 1..Len(a) + Len(b) : (a \o b)[i] = IF i <= Len(a) THEN a[i] ELSE b[i - Len(a)]
  BY ConcatProperties
<1> DEFINE c == a \o b
<1>3. DOMAIN c = 1..Len(a) + Len(b)
  BY <1>2, LenProperties
<1> HIDE DEF c
<1>4. ASSUME NEW x \in Range(c) PROVE x \in Range(a) \cup Range(b)
  <2>1. PICK i \in 1..Len(a) + Len(b) : x = c[i]
    BY <1>3 DEF Range
  <2>2. CASE i <= Len(a)
    <3>1. i \in DOMAIN a /\ x = a[i]
      BY <1>1, <1>2, <2>1, <2>2 DEF c
    <3> QED BY <3>1 DEF Range
  <2>3. CASE ~(i <= Len(a))
    <3>1. i - Len(a) \in DOMAIN b /\ x = b[i - Len(a)]
      BY <1>1, <1>2, <2>1, <2>3 DEF c
    <3> QED BY <3>1 DEF Range
  <2> QED BY <2>2, <2>3
<1> QED BY <1>2, <1>4 DEF c

\* What should be told of a side is of that side, and what is told to be a frame
\* is one that was sent.
LEMMA TruthIsOfSide ==
  ASSUME NEW flow, NEW p, Genuine(flow, p), NEW s \in Sides, NEW n \in Nat
  PROVE  /\ TruthOf(n, s, flow.parts[s], flow.sent[s]) \in Seq(TOLD)
         /\ \A r \in Range(TruthOf(n, s, flow.parts[s], flow.sent[s])) : IsOf(r, n, s, flow.sent[s])
<1> DEFINE parts == flow.parts[s]
           frames == flow.sent[s]
<1>1. /\ p \in Wires /\ parts \in Seq(Int) /\ frames \in Seq(Seq(Int)) /\ AreFrames(p, frames)
  BY DEF Genuine, SideIsSound
<1> HIDE DEF parts, frames
<1>2. Len(parts) \in Nat /\ Len(frames) \in Nat /\ \A i \in 1..Len(frames) : frames[i] # <<>>
  BY <1>1, FramesAreRuns, LenProperties
<1>3. PICK w : /\ Ends(frames, w, Len(parts))
               /\ Cardinality({i \in DOMAIN frames : Len(FirstRuns(frames, i)) <= Len(parts)}) = w
  BY <1>1, <1>2, RunsWithin
<1>4. Within(frames, Len(parts)) = w
  BY <1>3 DEF Within, FirstRuns
<1> DEFINE whole == SubSeq(frames, 1, w)
           m == Len(FirstRuns(frames, w))
           tail == From(parts, m)
<1>5. TruthOf(n, s, parts, frames) = Marked(n, s, [frames |-> whole, tail |-> tail])
  BY <1>4 DEF TruthOf, FirstRuns
<1>6. w \in 0..Len(frames) /\ m <= Len(parts) /\ FirstRuns(frames, w) \in Seq(Int)
  <2>1. w \in 0..Len(frames) /\ m <= Len(parts)
    BY <1>3 DEF Ends
  <2> QED BY <1>1, <2>1, FrontsGrow
<1>7. whole \in Seq(Seq(Int)) /\ \A i \in DOMAIN whole : i \in DOMAIN frames /\ whole[i] = frames[i]
  <2>1. w \in Nat /\ w <= Len(frames) /\ DOMAIN frames = 1..Len(frames)
    BY <1>1, <1>2, <1>6, LenProperties
  <2>2. \A i \in 1..w : frames[i] \in Seq(Int)
    BY <1>1, <1>2, <2>1, ElementOfSeq
  <2>3. /\ SubSeq(frames, 1, w) \in Seq(Seq(Int)) /\ Len(SubSeq(frames, 1, w)) = IF 1 <= w THEN w - 1 + 1 ELSE 0
        /\ \A i \in 1..w - 1 + 1 : SubSeq(frames, 1, w)[i] = frames[1 + i - 1]
    BY <1>1, <2>1, <2>2, SubSeqProperties
  <2>4. DOMAIN whole = 1..w
    BY <2>1, <2>3, LenProperties
  <2> HIDE DEF whole
  <2>5. whole \in Seq(Seq(Int)) /\ \A i \in 1..w : whole[i] = frames[i] /\ i \in 1..Len(frames)
    BY <2>1, <2>3 DEF whole
  <2> QED BY <2>1, <2>4, <2>5
<1>8. tail \in Seq(Int)
  <2>1. m \in 0..Len(parts)
    BY <1>2, <1>6, LenProperties
  <2> HIDE DEF m
  <2> QED BY <1>1, <2>1, FromIsSeq
<1> HIDE DEF whole, m, tail
<1> DEFINE t == <<tail>>
           a == Told(n, s, FALSE, whole)
           b == Told(n, s, TRUE, t)
           split == [frames |-> whole, tail |-> tail]
<1>9. Marked(n, s, split) = a \o (IF tail = <<>> THEN <<>> ELSE b)
  BY DEF Marked
<1>10. t \in Seq(Seq(Int))
  BY <1>8
<1> HIDE DEF t, split
<1>11. a \in Seq(TOLD) /\ \A r \in Range(a) : IsOf(r, n, s, frames)
  <2>1. PICK partial \in BOOLEAN : partial = FALSE
    OBVIOUS
  <2>2. PICK u : u = Told(n, s, partial, whole)
    OBVIOUS
  <2>3. /\ u \in Seq(TOLD)
        /\ \A r \in Range(u) : /\ r \in TOLD /\ r.flow = n /\ r.side = s /\ r.partial = partial
                               /\ \E i \in DOMAIN whole : r.frame = whole[i]
    BY ONLY n \in Nat, s \in Sides, partial \in BOOLEAN, <1>7, <2>2, ToldIs
  <2>4. \A r \in Range(u) : IsOf(r, n, s, frames)
    BY ONLY <1>7, <2>3 DEF IsOf
  <2> QED BY <2>1, <2>2, <2>3, <2>4
<1>12. b \in Seq(TOLD) /\ \A r \in Range(b) : IsOf(r, n, s, frames)
  <2>1. PICK partial \in BOOLEAN : partial = TRUE
    OBVIOUS
  <2>2. PICK u : u = Told(n, s, partial, t)
    OBVIOUS
  <2>3. /\ u \in Seq(TOLD)
        /\ \A r \in Range(u) : /\ r \in TOLD /\ r.flow = n /\ r.side = s /\ r.partial = partial
                               /\ \E i \in DOMAIN t : r.frame = t[i]
    BY ONLY n \in Nat, s \in Sides, partial \in BOOLEAN, <1>10, <2>2, ToldIs
  <2>4. \A r \in Range(u) : IsOf(r, n, s, frames)
    BY ONLY <2>1, <2>3 DEF IsOf
  <2> QED BY <2>1, <2>2, <2>3, <2>4
<1> HIDE DEF a, b
<1>13. /\ Marked(n, s, split) \in Seq(TOLD)
       /\ \A r \in Range(Marked(n, s, split)) : IsOf(r, n, s, frames)
  <2> DEFINE c == IF tail = <<>> THEN <<>> ELSE b
  <2>1. c \in Seq(TOLD) /\ \A r \in Range(c) : IsOf(r, n, s, frames)
    <3>1. <<>> \in Seq(TOLD) /\ Range(<<>>) = {}
      BY DEF Range
    <3> QED BY <1>12, <3>1
  <2>2. Marked(n, s, split) = a \o c
    BY <1>9
  <2> HIDE DEF c
  <2> QED BY <1>11, <2>1, <2>2, InJoined
<1> QED BY <1>5, <1>13 DEF parts, frames, split

\* What is in sequences joined is in one of them.
LEMMA InFlattened ==
  ASSUME NEW S, NEW seqs \in Seq(Seq(S))
  PROVE  /\ FlattenSeq(seqs) \in Seq(S)
         /\ \A x \in Range(FlattenSeq(seqs)) : \E i \in DOMAIN seqs : x \in Range(seqs[i])
<1> DEFINE R == S \X S
<1>1. \A i \in DOMAIN seqs : seqs[i] \in Seq(S)
  BY ElementOfSeq, LenProperties
<1>2. ASSUME NEW s \in Seq(S) PROVE Range(s) \subseteq S
  BY ElementOfSeq, LenProperties DEF Range
<1>3. \A i \in DOMAIN seqs : Ascending(seqs[i], R)
  <2> TAKE i \in DOMAIN seqs
  <2> DEFINE s == seqs[i]
  <2>1. s \in Seq(S) /\ DOMAIN s = 1..Len(s)
    BY <1>1, LenProperties
  <2> HIDE DEF s
  <2>2. \A j \in DOMAIN s : s[j] \in S
    BY <2>1, ElementOfSeq
  <2>3. Ascending(s, R)
    BY <2>2 DEF Ascending
  <2> HIDE DEF R
  <2> QED BY <2>3 DEF s
<1>4. \A i, j \in DOMAIN seqs : i < j => \A x \in Range(seqs[i]), y \in Range(seqs[j]) : <<x, y>> \in R
  BY <1>1, <1>2
<1> HIDE DEF R
<1>5. FlattenSeq(seqs) \in Seq(S) /\ Range(FlattenSeq(seqs)) = UNION {Range(seqs[i]) : i \in DOMAIN seqs}
  BY <1>3, <1>4, FlattenedAscends
<1> QED BY <1>5

\* A flow is told as it was sent, first the side it is named for.
LEMMA ChunkIsTruth ==
  ASSUME NEW n \in Nat, NEW p, Genuine(flows[n], p)
  PROVE  /\ Chunk(flows, n, p) = Truth(n) /\ Truth(n) \in Seq(TOLD)
         /\ \A r \in Range(Truth(n)) : \E s \in Sides : IsOf(r, n, s, flows[n].sent[s])
<1> DEFINE first  == InOrder(flows[n], 1)
           second == InOrder(flows[n], 2)
           Of(s)  == TruthOf(n, s, flows[n].parts[s], flows[n].sent[s])
<1>1. first \in Sides /\ second \in Sides
  <2>1. flows[n].forward \in Sides
    BY DEF Genuine
  <2>2. ASSUME NEW side \in Sides PROVE OtherSide(side) \in Sides
    BY DEF OtherSide, Sides
  <2> QED BY <2>1, <2>2 DEF InOrder
<1>2. Chunk(flows, n, p) = Marked(n, first, SplitFrames(p, flows[n].parts[first]))
                             \o Marked(n, second, SplitFrames(p, flows[n].parts[second]))
  BY DEF Chunk
<1>3. Truth(n) = Of(first) \o Of(second)
  BY DEF Truth
<1> HIDE DEF first, second
<1>4. \A s \in Sides : Marked(n, s, SplitFrames(p, flows[n].parts[s])) = Of(s)
  BY MarkedIsTrue
<1>5. \A s \in Sides : Of(s) \in Seq(TOLD) /\ \A r \in Range(Of(s)) : IsOf(r, n, s, flows[n].sent[s])
  BY TruthIsOfSide
<1>6. Chunk(flows, n, p) = Truth(n)
  BY <1>1, <1>2, <1>3, <1>4
<1> DEFINE a == Of(first)
           b == Of(second)
<1>7. /\ a \in Seq(TOLD) /\ \A r \in Range(a) : IsOf(r, n, first, flows[n].sent[first])
      /\ b \in Seq(TOLD) /\ \A r \in Range(b) : IsOf(r, n, second, flows[n].sent[second])
  BY <1>1, <1>5
<1>8. Truth(n) = a \o b
  BY <1>3
<1> HIDE DEF a, b, Of
<1>9. a \o b \in Seq(TOLD) /\ Range(a \o b) \subseteq Range(a) \cup Range(b)
  BY <1>7, InJoined
<1> QED BY <1>1, <1>6, <1>7, <1>8, <1>9

\* Each of one or two flows has what is there of what was sent.
AllGenuine(protocols) ==
  \E m \in {1, 2} : DOMAIN flows = 1..m /\ \A n \in 1..m : Genuine(flows[n], protocols[n])

\* A report of them is what they told, as far as the budget goes, and says how far.
LEMMA ReportIsTrue ==
  ASSUME NEW protocols, AllGenuine(protocols), BudgetFrames \in Nat,
         NEW told, told = FlattenSeq([n \in DOMAIN flows |-> Truth(n)]),
         NEW r, r = Report(flows, protocols)
  PROVE  /\ r.protocols = protocols
         /\ IsPrefix(r.frames, told) /\ r.total = Len(told) /\ r.truncated = (r.frames # told)
         /\ \A x \in Range(r.frames) : \E n \in DOMAIN flows, s \in Sides : IsOf(x, n, s, flows[n].sent[s])
<1>1. PICK m \in {1, 2} : DOMAIN flows = 1..m /\ \A n \in 1..m : Genuine(flows[n], protocols[n])
  BY DEF AllGenuine
<1> DEFINE chunks == [n \in DOMAIN flows |-> Chunk(flows, n, protocols[n])]
           truths == [n \in DOMAIN flows |-> Truth(n)]
           k == BudgetFrames
<1>2. /\ r = [kind |-> "flows", protocols |-> protocols, total |-> Len(FlattenSeq(chunks)),
              truncated |-> Len(FlattenSeq(chunks)) > k, frames |-> Upto(FlattenSeq(chunks), k)]
  BY DEF Report, Fitted
<1>3. m \in Nat /\ \A n \in 1..m : n \in Nat
  OBVIOUS
<1>4. \A n \in 1..m : /\ Chunk(flows, n, protocols[n]) = Truth(n) /\ Truth(n) \in Seq(TOLD)
                      /\ \A x \in Range(Truth(n)) : \E s \in Sides : IsOf(x, n, s, flows[n].sent[s])
  <2> TAKE n \in 1..m
  <2>1. n \in Nat /\ Genuine(flows[n], protocols[n])
    BY <1>1, <1>3
  <2> QED BY ONLY <2>1, ChunkIsTruth
<1>5. chunks = truths
  BY <1>1, <1>4
<1>6. told = FlattenSeq(truths)
  OBVIOUS
<1>7. DOMAIN truths = 1..m /\ (\A n \in 1..m : truths[n] = Truth(n)) /\ truths = [n \in 1..m |-> truths[n]]
  BY <1>1
<1> HIDE DEF chunks, truths
<1>8. truths \in Seq(Seq(TOLD))
  BY <1>3, <1>4, <1>7, SeqDef
<1>9. told \in Seq(TOLD) /\ \A x \in Range(told) : \E n \in DOMAIN truths : x \in Range(truths[n])
  BY <1>6, <1>8, InFlattened
<1>10. /\ r.protocols = protocols /\ r.total = Len(told) /\ r.truncated = (Len(told) > k) /\ r.frames = Upto(told, k)
  BY <1>2, <1>5, <1>6
<1>11. Len(told) \in Nat /\ k \in Nat
  BY <1>9, LenProperties
<1> DEFINE c == IF k < Len(told) THEN k ELSE Len(told)
<1>12. c \in Nat /\ c <= Len(told) /\ (Len(told) > k <=> c # Len(told)) /\ r.frames = SubSeq(told, 1, c)
  BY <1>10, <1>11 DEF Upto
<1> HIDE DEF c, k
<1> DEFINE u == SubSeq(told, 1, c)
<1>13. u \in Seq(TOLD) /\ Len(u) = c /\ DOMAIN u = 1..c /\ \A i \in 1..c : u[i] = told[i] /\ i \in DOMAIN told
  <2>1. \A i \in 1..c : told[i] \in TOLD
    BY <1>9, <1>11, <1>12, ElementOfSeq
  <2>2. u \in Seq(TOLD) /\ Len(u) = (IF 1 <= c THEN c - 1 + 1 ELSE 0) /\ \A i \in 1..c - 1 + 1 : u[i] = told[1 + i - 1]
    BY <1>9, <1>12, <2>1, SubSeqProperties
  <2>3. DOMAIN u = 1..Len(u) /\ DOMAIN told = 1..Len(told)
    BY <1>9, <2>2, LenProperties
  <2> HIDE DEF u
  <2>4. Len(u) = c /\ c - 1 + 1 = c
    BY <1>12, <2>2
  <2>5. \A i \in 1..c : 1 + i - 1 = i /\ i \in 1..Len(told)
    BY <1>11, <1>12
  <2>6. \A i \in 1..c : u[i] = told[i] /\ i \in DOMAIN told
    BY <2>2, <2>3, <2>4, <2>5
  <2> QED BY <2>2, <2>3, <2>4, <2>6
<1> HIDE DEF u
<1>14. u = told <=> c = Len(told)
  <2>1. ASSUME c = Len(told) PROVE u = told
    BY <1>9, <2>1, SubSeqFull DEF u
  <2> QED BY <1>13, <2>1
<1>15. IsPrefix(u, told)
  <2>1. u = SubSeq(u, 1, Len(u))
    BY <1>13, SubSeqFull
  <2> QED BY <1>12, <1>13, <2>1 DEF IsPrefix
<1>16. \A x \in Range(u) : \E n \in DOMAIN flows, s \in Sides : IsOf(x, n, s, flows[n].sent[s])
  <2> TAKE x \in Range(u)
  <2>1. x \in Range(told)
    BY <1>13 DEF Range
  <2>2. PICK n \in 1..m : x \in Range(truths[n])
    BY <1>7, <1>9, <2>1
  <2> QED BY <1>1, <1>4, <1>7, <2>2
<1>17. r.frames = u
  BY <1>12 DEF u
<1>18. r.truncated = (r.frames # told)
  <2>1. (Len(told) > k) = (r.frames # told)
    BY <1>12, <1>14, <1>17
  <2> QED BY <1>10, <2>1
<1> QED BY <1>10, <1>15, <1>16, <1>17, <1>18

-----------------------------------------------------------------------------
(* What is reported of a capture                                            *)

\* The sides say what is said in one dialect, and what is reported are the flows
\* of the capture, cut by protocols that are known.
ReportedInv ==
  /\ spoken \in Dialects \cup {"none"} /\ forward \in Sides \cup {"none"}
  /\ forward # "none" => spoken # "none"
  /\ spoken # "none" => sent = [s \in Sides |-> Said(spoken, s)]
  /\ report.kind = "flows" =>
       /\ forward \in Sides /\ flows \in Captures
       /\ \E protocols : report = Report(flows, protocols) /\ \A n \in DOMAIN flows : protocols[n] \in Wires

\* The dialects of a capture are known.
LEMMA DialectsAreKnown ==
  /\ BudgetFrames \in Nat
  /\ \A d \in Dialects : d \in Spoken /\ d # "none" /\ d # "quiet"
  /\ \A d \in Others : d # "quiet" => d \in Spoken
<1>1. BudgetFrames \in Nat /\ Dialects \cup (Others \ {"quiet"}) \subseteq Spoken
  BY CaptureAssumption DEF Spoken
<1>2. "none" \notin Spoken /\ "quiet" \notin Spoken
  BY DEF Spoken, MC!FRAME_FORMATS
<1> QED BY <1>1, <1>2

\* A protocol that is guessed is one of three.
LEMMA GuessIsKnown == ASSUME NEW parts, AutodetectFlow(parts) # "none" PROVE AutodetectFlow(parts) \in Wires
<1> DEFINE Total(p) == Complete(p, parts["client"]) + Complete(p, parts["server"])
           totals   == <<Total(PROTOCOLS[1]), Total(PROTOCOLS[2]), Total(PROTOCOLS[3])>>
           best     == {i \in 1..3 : totals[i] > 0 /\ \A j \in 1..3 : totals[j] < totals[i] \/ (totals[j] = totals[i] /\ i <= j)}
<1>1. AutodetectFlow(parts) = IF best = {} THEN "none" ELSE PROTOCOLS[CHOOSE i \in best : TRUE]
  BY DEF AutodetectFlow
<1>2. best \subseteq 1..3
  OBVIOUS
<1> HIDE DEF best
<1>3. PICK i \in 1..3 : AutodetectFlow(parts) = PROTOCOLS[i]
  BY <1>1, <1>2
<1>4. i = 1 \/ i = 2 \/ i = 3
  OBVIOUS
<1> QED BY <1>3, <1>4 DEF PROTOCOLS, Wires, LengthFirst

\* That holds in every state of the capture.
THEOREM ReportedInvHolds == Spec => []ReportedInv
<1>1. Init => ReportedInv
  BY DEF Init, CaptureInit, ReportedInv, Unread
<1>2. ReportedInv /\ [Next]_vars => ReportedInv'
  <2> SUFFICES ASSUME ReportedInv, [Next]_vars PROVE ReportedInv'
    OBVIOUS
  <2>1. CASE UNCHANGED capture_vars
    BY <2>1 DEF capture_vars, ReportedInv, Captures, ThisFlow
  <2>2. CASE ChooseSpoken
    <3>1. /\ spoken = "none" /\ spoken' \in Dialects /\ sent' = [s \in Sides |-> Said(spoken', s)]
          /\ UNCHANGED <<buffers, forward, flows, report>>
      BY <2>2 DEF ChooseSpoken
    <3>2. report.kind # "flows" /\ forward = "none"
      BY <3>1 DEF ReportedInv, Sides
    <3> QED BY <3>1, <3>2 DEF ReportedInv
  <2>3. CASE Segment \/ Retransmission
    <3>1. spoken # "none" /\ report = Unread /\ UNCHANGED <<spoken, sent, report>> /\ forward' \in Sides \cup {"none"}
      <4>1. ASSUME NEW side \in Sides, NEW from, NEW upto, Packet(side, from, upto) PROVE forward' \in Sides
        BY <4>1 DEF Packet, ReportedInv
      <4>2. CASE Segment
        BY <4>1, <4>2 DEF Segment, ReportedInv
      <4>3. CASE Retransmission
        BY <4>1, <4>3 DEF Retransmission
      <4> QED BY <2>3, <4>2, <4>3
    <3>2. report'.kind # "flows"
      BY <3>1 DEF Unread
    <3> QED BY <3>1, <3>2 DEF ReportedInv
  <2>4. CASE ParsePcap
    <3>1. forward # "none" /\ flows' \in Captures /\ UNCHANGED <<spoken, sent, buffers, forward>>
      BY <2>4 DEF ParsePcap
    <3>2. spoken \in Dialects /\ forward \in Sides /\ Captures' = Captures
      BY <3>1 DEF ReportedInv, Captures, ThisFlow
    <3>3. PICK guess \in BOOLEAN :
            \E protocols \in {[n \in DOMAIN flows' |-> IF guess THEN AutodetectFlow(flows'[n].parts) ELSE Wire(spoken)]} :
              report' = IF \E n \in DOMAIN protocols : protocols[n] = "none" THEN Raised ELSE Report(flows', protocols)
      BY <2>4 DEF ParsePcap
    <3>4. PICK protocols :
            /\ protocols = [n \in DOMAIN flows' |-> IF guess THEN AutodetectFlow(flows'[n].parts) ELSE Wire(spoken)]
            /\ report' = IF \E n \in DOMAIN protocols : protocols[n] = "none" THEN Raised ELSE Report(flows', protocols)
      BY <3>3
    <3>5. Wire(spoken) \in Wires
      <4>1. "client" \in Sides /\ spoken \in Spoken
        BY <3>2, DialectsAreKnown DEF Sides
      <4> QED BY <4>1, SaidIsSound DEF Wires, LengthFirst
    <3>6. ASSUME report'.kind = "flows"
          PROVE  \E p : report' = Report(flows', p) /\ \A n \in DOMAIN flows' : p[n] \in Wires
      <4>1. DOMAIN protocols = DOMAIN flows'
        BY <3>4
      <4>2. ~\E n \in DOMAIN protocols : protocols[n] = "none"
        BY <3>4, <3>6 DEF Raised, Unread
      <4>3. report' = Report(flows', protocols)
        BY <3>4, <4>2
      <4>4. \A n \in DOMAIN flows' : protocols[n] \in Wires
        <5> TAKE n \in DOMAIN flows'
        <5>1. protocols[n] = IF guess THEN AutodetectFlow(flows'[n].parts) ELSE Wire(spoken)
          BY <3>4
        <5>2. protocols[n] # "none"
          BY <4>1, <4>2
        <5> QED BY <3>5, <5>1, <5>2, GuessIsKnown
      <4> QED BY <4>3, <4>4
    <3> QED BY <3>1, <3>2, <3>6 DEF ReportedInv
  <2> QED BY <2>1, <2>2, <2>3, <2>4 DEF Next, CaptureNext, vars
<1> QED BY <1>1, <1>2, PTL DEF Spec

\* What was joined of a side from its start on is the first of its bytes.
LEMMA JoinedIsPrefix ==
  ASSUME JoinedInv, JoinedIsUnbroken, NEW s \in Sides, buffers[s].gaps = 0, origin[s] \in {-1, 0}
  PROVE  buffers[s].parts \in Seq(Int) /\ IsPrefix(buffers[s].parts, Stream(s))
<1>1. /\ Stream(s) \in Seq(Int) /\ Orderly(Stream(s), isn, buffers[s], origin[s])
  BY DEF JoinedInv
<1>2. buffers[s].parts \in Seq(Int) /\ (buffers[s].parts # <<>> => origin[s] \in Nat)
  BY <1>1 DEF Orderly
<1> DEFINE t == Stream(s)
           p == buffers[s].parts
<1>3. t \in Seq(Int) /\ p \in Seq(Int) /\ (p # <<>> => IsPrefix(p, From(t, origin[s])) /\ origin[s] = 0)
  BY <1>1, <1>2 DEF JoinedIsUnbroken
<1> HIDE DEF t, p
<1>4. CASE p = <<>>
  <2>1. Len(t) \in Nat
    BY <1>3, LenProperties
  <2> QED BY <1>3, <1>4, <2>1 DEF IsPrefix, p, t
<1>5. CASE p # <<>>
  <2>1. From(t, 0) = t
    BY <1>3, SubSeqFull DEF From
  <2> QED BY <1>2, <1>3, <1>5, <2>1 DEF p, t
<1> QED BY <1>4, <1>5

\* The flow of the connection has what is there of what was said.
LEMMA ThisFlowIsGenuine ==
  ASSUME JoinedInv, JoinedIsUnbroken, ReportedInv, spoken \in Dialects, forward \in Sides,
         \A s \in Sides : buffers[s].gaps = 0 /\ origin[s] \in {-1, 0}
  PROVE  Genuine(ThisFlow, Wire(spoken))
<1>1. spoken \in Spoken /\ spoken # "none"
  BY DialectsAreKnown
<1>2. sent = [s \in Sides |-> Said(spoken, s)]
  BY <1>1 DEF ReportedInv
<1>3. /\ ThisFlow.forward = forward /\ ThisFlow.sent = sent
      /\ \A s \in Sides : ThisFlow.parts[s] = buffers[s].parts
  BY DEF ThisFlow, Flow
<1>4. Wire(spoken) \in Wires
  <2>1. "client" \in Sides
    BY DEF Sides
  <2> QED BY <1>1, <2>1, SaidIsSound DEF Wires, LengthFirst
<1>5. ASSUME NEW s \in Sides
      PROVE  /\ ThisFlow.parts[s] \in Seq(Int) /\ SideIsSound(Wire(spoken), s, ThisFlow.sent[s])
             /\ IsPrefix(ThisFlow.parts[s], FlattenSeq(ThisFlow.sent[s]))
  <2>1. buffers[s].parts \in Seq(Int) /\ IsPrefix(buffers[s].parts, Stream(s))
    BY JoinedIsPrefix
  <2>2. SideIsSound(Wire(spoken), s, Said(spoken, s))
    BY <1>1, SaidIsSound
  <2>3. sent[s] = Said(spoken, s)
    BY <1>2
  <2> QED BY <1>3, <2>1, <2>2, <2>3 DEF Stream
<1> QED BY <1>3, <1>4, <1>5 DEF Genuine

\* So has that of another connection, and one of no bytes whatever it is cut by.
LEMMA OtherFlowIsGenuine ==
  ASSUME NEW d \in Others, NEW p \in Wires, d = "quiet" \/ p = Wire(d)
  PROVE  Genuine(OtherFlow(d), p)
<1> DEFINE asked == IF d = "quiet" THEN <<>> ELSE Requested(d)
           frames == [client |-> asked, server |-> Answered(d, asked)]
<1>1. OtherFlow(d) = Flow(d, "client", [s \in Sides |-> FlattenSeq(frames[s])], frames)
  BY DEF OtherFlow
<1>2. ASSUME NEW s \in Sides PROVE SideIsSound(p, s, frames[s])
  <2>1. s = "client" \/ s = "server"
    BY DEF Sides
  <2>2. frames["client"] = asked /\ frames["server"] = Answered(d, asked)
    OBVIOUS
  <2>3. CASE d = "quiet"
    <3>1. asked = <<>>
      BY <2>3
    <3> HIDE DEF asked, frames
    <3>2. Answered(d, <<>>) = <<>>
      BY DEF Answered
    <3>3. frames[s] = <<>>
      BY <2>1, <2>2, <3>1, <3>2
    <3>4. <<>> \in Seq(Seq(Int)) /\ Len(<<>>) = 0 /\ DOMAIN <<>> = {} /\ 1..0 = {}
      OBVIOUS
    <3> QED BY <3>3, <3>4 DEF SideIsSound, AreFrames
  <2>4. CASE d # "quiet"
    <3>1. d \in Spoken /\ p = Wire(d) /\ asked = Requested(d)
      BY <2>4, DialectsAreKnown
    <3>2. SideIsSound(p, s, Said(d, s))
      BY <3>1, SaidIsSound
    <3> HIDE DEF asked, frames
    <3>3. frames[s] = Said(d, s)
      BY <2>1, <2>2, <3>1 DEF Said
    <3> QED BY <3>2, <3>3
  <2> QED BY <2>3, <2>4
<1> HIDE DEF frames
<1>3. /\ OtherFlow(d).forward = "client" /\ OtherFlow(d).sent = frames
      /\ \A s \in Sides : OtherFlow(d).parts[s] = FlattenSeq(frames[s])
  BY <1>1 DEF Flow
<1>4. ASSUME NEW s \in Sides
      PROVE  FlattenSeq(frames[s]) \in Seq(Int) /\ IsPrefix(FlattenSeq(frames[s]), FlattenSeq(frames[s]))
  BY <1>2, FramesAreRuns DEF SideIsSound
<1>5. "client" \in Sides
  BY DEF Sides
<1> QED BY <1>2, <1>3, <1>4, <1>5 DEF Genuine

\* What is reported is what was said, of each flow: the connection's own and,
\* if there is one, the other's.
LEMMA FlowsAreGenuine ==
  ASSUME JoinedInv, JoinedIsUnbroken, ReportedInv, report.kind = "flows", ProtocolsAreRight,
         \A s \in Sides : buffers[s].gaps = 0 /\ origin[s] \in {-1, 0}
  PROVE  \E protocols : AllGenuine(protocols) /\ report = Report(flows, protocols)
<1>1. spoken \in Dialects /\ forward \in Sides /\ flows \in Captures
  BY DEF ReportedInv, Sides
<1>2. PICK protocols : report = Report(flows, protocols) /\ \A n \in DOMAIN flows : protocols[n] \in Wires
  BY DEF ReportedInv
<1>3. report.protocols = protocols
  BY <1>2 DEF Report
<1>4. spoken # "quiet" /\ Genuine(ThisFlow, Wire(spoken)) /\ ThisFlow.dialect = spoken
  BY <1>1, ThisFlowIsGenuine, DialectsAreKnown DEF ThisFlow, Flow
<1>5. ASSUME NEW n \in DOMAIN flows, flows[n] = ThisFlow PROVE Genuine(flows[n], protocols[n])
  BY <1>3, <1>4, <1>5 DEF ProtocolsAreRight
<1>6. ASSUME NEW n \in DOMAIN flows, NEW d \in Others, flows[n] = OtherFlow(d) PROVE Genuine(flows[n], protocols[n])
  <2>1. OtherFlow(d).dialect = d
    BY DEF OtherFlow, Flow
  <2>2. protocols[n] \in Wires /\ (d = "quiet" \/ protocols[n] = Wire(d))
    BY <1>2, <1>3, <1>6, <2>1 DEF ProtocolsAreRight
  <2> QED BY <1>6, <2>2, OtherFlowIsGenuine
<1>7. AllGenuine(protocols)
  <2>1. CASE flows = <<ThisFlow>>
    <3> DEFINE t == ThisFlow
               f == <<t>>
    <3>1. flows = f
      BY <2>1
    <3>2. DOMAIN f = 1..1 /\ \A n \in 1..1 : f[n] = t
      OBVIOUS
    <3> HIDE DEF f
    <3>3. DOMAIN flows = 1..1 /\ \A n \in 1..1 : n \in DOMAIN flows /\ flows[n] = t
      BY <3>1, <3>2
    <3>4. \A n \in 1..1 : Genuine(flows[n], protocols[n])
      BY <1>5, <3>3
    <3> QED BY <3>3, <3>4 DEF AllGenuine
  <2>2. CASE \E d \in Others : flows = <<ThisFlow, OtherFlow(d)>> \/ flows = <<OtherFlow(d), ThisFlow>>
    <3>1. PICK d \in Others : flows = <<ThisFlow, OtherFlow(d)>> \/ flows = <<OtherFlow(d), ThisFlow>>
      BY <2>2
    <3> DEFINE t == ThisFlow
               o == OtherFlow(d)
    <3>2. \A x, y : DOMAIN <<x, y>> = 1..2 /\ \A n \in 1..2 : <<x, y>>[n] = x \/ <<x, y>>[n] = y
      OBVIOUS
    <3>3. flows = <<t, o>> \/ flows = <<o, t>>
      BY <3>1
    <3> HIDE DEF t, o
    <3>4. DOMAIN flows = 1..2 /\ \A n \in 1..2 : flows[n] = t \/ flows[n] = o
      BY <3>2, <3>3
    <3>5. \A n \in 1..2 : Genuine(flows[n], protocols[n])
      <4> TAKE n \in 1..2
      <4>1. n \in DOMAIN flows /\ (flows[n] = t \/ flows[n] = o)
        BY <3>4
      <4> QED BY <1>5, <1>6, <4>1 DEF t, o
    <3> QED BY <3>4, <3>5 DEF AllGenuine
  <2> QED BY <1>1, <2>1, <2>2 DEF Captures
<1> QED BY <1>2, <1>7

\* A capture is not made to say what was not said: where no gap is told and the
\* start was captured, parse_pcap reports the frames that were sent, in order, cut
\* short only where it says so, each sound and of the direction of its sender.
THEOREM CaptureIsTruthfulHolds == Spec => []CaptureIsTruthful
<1>1. JoinedInv /\ JoinedIsUnbroken /\ ReportedInv => CaptureIsTruthful
  <2> SUFFICES ASSUME JoinedInv, JoinedIsUnbroken, ReportedInv, report.kind = "flows", ProtocolsAreRight,
                      \A s \in Sides : buffers[s].gaps = 0 /\ origin[s] \in {-1, 0}
               PROVE  /\ \E told \in {FlattenSeq([n \in DOMAIN flows |-> Truth(n)])} :
                           IsPrefix(report.frames, told) /\ report.total = Len(told)
                             /\ report.truncated = (report.frames # told)
                      /\ \A r \in {q \in Range(report.frames) : ~q.partial} :
                           \E parsed \in {ParseAuto(report.protocols[r.flow], r.frame)} :
                             parsed.errors = {} /\ parsed.direction = (IF r.side = "client" THEN "req" ELSE "resp")
    BY DEF CaptureIsTruthful
  <2>1. PICK protocols : AllGenuine(protocols) /\ report = Report(flows, protocols)
    BY FlowsAreGenuine
  <2>2. PICK told : told = FlattenSeq([n \in DOMAIN flows |-> Truth(n)])
    OBVIOUS
  <2>3. /\ report.protocols = protocols
        /\ IsPrefix(report.frames, told) /\ report.total = Len(told) /\ report.truncated = (report.frames # told)
        /\ \A x \in Range(report.frames) : \E n \in DOMAIN flows, s \in Sides : IsOf(x, n, s, flows[n].sent[s])
    BY <2>1, <2>2, DialectsAreKnown, ReportIsTrue
  <2>4. ASSUME NEW r \in Range(report.frames), ~r.partial
        PROVE  \E parsed \in {ParseAuto(report.protocols[r.flow], r.frame)} :
                 parsed.errors = {} /\ parsed.direction = (IF r.side = "client" THEN "req" ELSE "resp")
    <3>1. PICK n \in DOMAIN flows, s \in Sides : IsOf(r, n, s, flows[n].sent[s])
      BY <2>3
    <3>2. PICK i \in DOMAIN flows[n].sent[s] : r.frame = flows[n].sent[s][i]
      BY <2>4, <3>1 DEF IsOf
    <3>3. r.flow = n /\ r.side = s
      BY <3>1 DEF IsOf
    <3>4. Genuine(flows[n], protocols[n])
      BY <2>1 DEF AllGenuine
    <3>5. ParseAuto(protocols[n], r.frame) = Seen(s)
      BY <3>2, <3>4 DEF Genuine, SideIsSound
    <3>6. Seen(s).errors = {} /\ Seen(s).direction = (IF s = "client" THEN "req" ELSE "resp")
      BY DEF Seen, AsRequest, AsResponse
    <3> QED BY <2>3, <3>3, <3>5, <3>6
  <2> QED BY <2>2, <2>3, <2>4
<1> QED BY <1>1, JoinedInvHolds, JoinedIsUnbrokenHolds, ReportedInvHolds, PTL

=============================================================================
