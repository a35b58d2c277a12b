--------------------------- MODULE SeqFilterProofs ---------------------------
(***************************************************************************)
(* What Filter returns, for sequences of any length: the elements that are *)
(* not deleted and no others, without repetition where there was none, and *)
(* how long the result is.  Each fact is proved by induction over the      *)
(* prefixes of the sequence.  The induction rests on WellOrdered, which is *)
(* a hypothesis of the lemmas here: the modules that use them prove it from *)
(* the library's theory of well-founded induction, and only at their end,  *)
(* so that the provers do not meet that theory in every proof.             *)
(***************************************************************************)
EXTENDS Integers, SeqFilter, Functions, TLAPS

\* Every nonempty set of naturals has a least element.
WellOrdered ==
  \A T \in SUBSET Nat : T # {} => \E n \in T : \A m \in T : n <= m

\* Induction up to k, for a set T of naturals.
LEMMA Induct ==
  ASSUME WellOrdered, NEW T, NEW k \in Nat, 0 \in T, \A n \in T : n < k => n + 1 \in T
  PROVE  0 .. k \subseteq T
<1> SUFFICES ASSUME ~(0 .. k \subseteq T) PROVE FALSE
  OBVIOUS
<1> DEFINE U == {n \in 0 .. k : n \notin T}
<1>1. U \subseteq Nat /\ U # {}
  OBVIOUS
<1>2. PICK n \in U : \A m \in U : n <= m
  BY Zenon, <1>1 DEF WellOrdered
<1>3. n \in Nat /\ n <= k /\ n \notin T /\ n # 0
  OBVIOUS
<1>4. n - 1 \in 0 .. k /\ n - 1 < n
  BY <1>3
<1>5. n - 1 \in T
  BY <1>2, <1>4
<1>6. n - 1 < k /\ (n - 1) + 1 = n
  BY <1>3
<1> QED BY Zenon, <1>3, <1>5, <1>6

\* g is the table of the filter's first m + 1 values.
Table(g, s, gone, m) ==
  /\ g = [n \in 0 .. m |-> g[n]]
  /\ g[0] = <<>>
  /\ \A n \in 1 .. m :
       g[n] = IF s[n] \in gone THEN g[n - 1] ELSE Append(g[n - 1], s[n])

\* There is such a table.
LEMMA TableExists ==
  ASSUME WellOrdered, NEW s, NEW gone, NEW k \in Nat
  PROVE  \E g : Table(g, s, gone, k)
<1> DEFINE T == {m \in Nat : \E g : Table(g, s, gone, m)}
<1>1. 0 \in T
  <2>1. Table([n \in 0 .. 0 |-> <<>>], s, gone, 0)
    BY DEF Table
  <2> QED BY Zenon, <2>1
<1>2. ASSUME NEW m \in T, m < k PROVE m + 1 \in T
  <2>0. m \in Nat
    OBVIOUS
  <2>1. PICK g : Table(g, s, gone, m)
    OBVIOUS
  <2> DEFINE v == IF s[m + 1] \in gone THEN g[m] ELSE Append(g[m], s[m + 1])
             h == [n \in 0 .. m + 1 |-> IF n = m + 1 THEN v ELSE g[n]]
  <2>2. h = [n \in 0 .. m + 1 |-> h[n]] /\ h[0] = <<>> /\ h[m + 1] = v
    BY <2>0, <2>1 DEF Table
  <2>3. \A n \in 0 .. m : h[n] = g[n]
    BY <2>0
  <2>4. ASSUME NEW n \in 1 .. m + 1
        PROVE  h[n] = IF s[n] \in gone THEN h[n - 1] ELSE Append(h[n - 1], s[n])
    <3> HIDE DEF h
    <3>1. CASE n = m + 1
      <4>1. n - 1 = m
        BY <3>1, <2>0
      <4>2. h[n - 1] = g[m]
        BY <4>1, <2>0, <2>3
      <4>3. h[n] = v
        BY Zenon, <3>1, <2>2
      <4> QED BY Zenon, <4>2, <4>3, <3>1
    <3>2. CASE n # m + 1
      <4>1. n \in 1 .. m /\ n \in 0 .. m /\ n - 1 \in 0 .. m
        BY <3>2, <2>0
      <4> QED BY Zenon, <4>1, <2>1, <2>3 DEF Table
    <3> QED BY Zenon, <3>1, <3>2
  <2> HIDE DEF h
  <2>5. Table(h, s, gone, m + 1)
    BY Zenon, <2>2, <2>4 DEF Table
  <2> QED BY <2>0, <2>5
<1> HIDE DEF T
<1>3. 0 .. k \subseteq T
  BY Zenon, <1>1, <1>2, Induct
<1>4. k \in T
  BY <1>3
<1> QED BY Zenon, <1>4 DEF T

\* Kept(s, gone) is the table for all of s: the recursive definition has a
\* solution.
LEMMA KeptDef ==
  ASSUME WellOrdered, NEW S, NEW s \in Seq(S), NEW gone
  PROVE  Table(Kept(s, gone), s, gone, Len(s))
<1> DEFINE F(g) == [n \in 0 .. Len(s) |->
           IF n = 0 THEN <<>>
           ELSE IF s[n] \in gone THEN g[n - 1] ELSE Append(g[n - 1], s[n])]
<1>0. Len(s) \in Nat
  OBVIOUS
<1>1. PICK g : Table(g, s, gone, Len(s))
  BY Zenon, <1>0, TableExists
<1>2. g = F(g)
  <2> SUFFICES ASSUME NEW n \in 0 .. Len(s)
               PROVE  g[n] = F(g)[n]
    BY Zenon, <1>1 DEF Table
  <2>1. CASE n = 0
    BY Zenon, <2>1, <1>1 DEF Table
  <2>2. CASE n # 0
    <3>1. n \in 1 .. Len(s)
      BY <2>2, <1>0
    <3> QED BY Zenon, <3>1, <1>1 DEF Table
  <2> QED BY Zenon, <2>1, <2>2
<1>3. Kept(s, gone) = CHOOSE h : h = F(h)
  BY Zenon DEF Kept
<1> HIDE DEF F
<1>4. Kept(s, gone) = F(Kept(s, gone))
  BY Zenon, <1>2, <1>3
<1> DEFINE K == Kept(s, gone)
<1> HIDE DEF K
<1>5. K = F(K)
  BY Zenon, <1>4 DEF K
<1> USE DEF F
<1>6. K = [n \in 0 .. Len(s) |-> K[n]] /\ K[0] = <<>>
  BY <1>5, <1>0
<1>7. \A n \in 1 .. Len(s) :
       K[n] = IF s[n] \in gone THEN K[n - 1] ELSE Append(K[n - 1], s[n])
  <2> TAKE n \in 1 .. Len(s)
  <2>1. n \in 0 .. Len(s) /\ n # 0
    BY <1>0
  <2>2. K[n] = F(K)[n]
    BY Zenon, <1>5
  <2> QED BY Zenon, <2>1, <2>2
<1> HIDE DEF F
<1>8. Table(K, s, gone, Len(s))
  BY Zenon, <1>6, <1>7 DEF Table
<1> QED BY Zenon, <1>8 DEF K

\* The recursion, one step at a time.
LEMMA KeptStep ==
  ASSUME WellOrdered, NEW S, NEW s \in Seq(S), NEW gone
  PROVE  /\ Kept(s, gone)[0] = <<>>
         /\ \A n \in 0 .. Len(s) : n < Len(s) =>
              Kept(s, gone)[n + 1] = IF s[n + 1] \in gone THEN Kept(s, gone)[n]
                                     ELSE Append(Kept(s, gone)[n], s[n + 1])
<1> DEFINE K == Kept(s, gone)
<1>1. Table(K, s, gone, Len(s))
  BY Zenon, KeptDef
<1> HIDE DEF K
<1>2. K[0] = <<>>
  BY Zenon, <1>1 DEF Table
<1>3. ASSUME NEW n \in 0 .. Len(s), n < Len(s)
      PROVE  K[n + 1] = IF s[n + 1] \in gone THEN K[n] ELSE Append(K[n], s[n + 1])
  <2>1. n + 1 \in 1 .. Len(s) /\ (n + 1) - 1 = n
    BY <1>3
  <2> QED BY Zenon, <1>1, <2>1 DEF Table
<1> QED BY Zenon, <1>2, <1>3 DEF K

-----------------------------------------------------------------------------
(* What is left of a prefix.                                               *)

\* The elements of s[1 .. n] that are kept, and where they stand.
Prefix(s, gone, n, k) ==
  /\ k \in Seq(Range(s) \ gone)
  /\ Len(k) <= n
  /\ \A i \in 1 .. Len(k) : \E j \in 1 .. n : k[i] = s[j]
  /\ \A j \in 1 .. n : s[j] \notin gone => \E i \in 1 .. Len(k) : k[i] = s[j]
  /\ IsInjective(s) => \A i, j \in 1 .. Len(k) : k[i] = k[j] => i = j

LEMMA PrefixDrops ==
  ASSUME NEW S, NEW s \in Seq(S), NEW gone, NEW n \in 0 .. Len(s), n < Len(s),
         NEW k, Prefix(s, gone, n, k), s[n + 1] \in gone
  PROVE  Prefix(s, gone, n + 1, k)
<1>0. n \in Nat /\ Len(k) \in Nat
  BY DEF Prefix
<1>1. \A j \in 1 .. n + 1 : j \in 1 .. n \/ j = n + 1
  BY <1>0
<1>2. 1 .. n \subseteq 1 .. n + 1
  BY <1>0
<1>3. Len(k) <= n + 1
  BY <1>0 DEF Prefix
<1>4. \A i \in 1 .. Len(k) : \E j \in 1 .. n + 1 : k[i] = s[j]
  BY Zenon, <1>2 DEF Prefix
<1>5. \A j \in 1 .. n + 1 : s[j] \notin gone => \E i \in 1 .. Len(k) : k[i] = s[j]
  BY Zenon, <1>1 DEF Prefix
<1> QED BY Zenon, <1>3, <1>4, <1>5 DEF Prefix

LEMMA PrefixKeeps ==
  ASSUME NEW S, NEW s \in Seq(S), NEW gone, NEW n \in 0 .. Len(s), n < Len(s),
         NEW k, Prefix(s, gone, n, k), s[n + 1] \notin gone
  PROVE  Prefix(s, gone, n + 1, Append(k, s[n + 1]))
<1> DEFINE a == Append(k, s[n + 1])
<1>0. n \in Nat /\ n + 1 \in 1 .. Len(s) /\ n + 1 \in DOMAIN s /\ s[n + 1] \in Range(s)
  BY DEF Range
<1>1. k \in Seq(Range(s) \ gone) /\ s[n + 1] \in Range(s) \ gone
  BY Zenon, <1>0 DEF Prefix
<1>2. /\ a \in Seq(Range(s) \ gone)
      /\ Len(k) \in Nat /\ Len(a) = Len(k) + 1
      /\ \A i \in 1 .. Len(k) : a[i] = k[i] /\ i \in 1 .. Len(a)
      /\ a[Len(k) + 1] = s[n + 1] /\ Len(k) + 1 \in 1 .. Len(a)
  BY <1>1
<1> HIDE DEF a
<1>3. Len(a) <= n + 1
  BY <1>2, <1>0 DEF Prefix
<1>4. \A i \in 1 .. Len(a) : i \in 1 .. Len(k) \/ i = Len(k) + 1
  BY <1>2
<1>5. \A j \in 1 .. n + 1 : j \in 1 .. n \/ j = n + 1
  BY <1>0
<1>6. 1 .. n \subseteq 1 .. n + 1 /\ n + 1 \in 1 .. n + 1
  BY <1>0
<1>7. \A i \in 1 .. Len(a) : \E j \in 1 .. n + 1 : a[i] = s[j]
  <2> TAKE i \in 1 .. Len(a)
  <2>1. CASE i \in 1 .. Len(k)
    BY <2>1, <1>2, <1>6 DEF Prefix
  <2>2. CASE i = Len(k) + 1
    BY Zenon, <2>2, <1>2, <1>6
  <2> QED BY Zenon, <2>1, <2>2, <1>4
<1>8. \A j \in 1 .. n + 1 : s[j] \notin gone => \E i \in 1 .. Len(a) : a[i] = s[j]
  <2> TAKE j \in 1 .. n + 1
  <2>1. CASE j \in 1 .. n
    <3>1. s[j] \notin gone => \E i \in 1 .. Len(k) : k[i] = s[j]
      BY Zenon, <2>1 DEF Prefix
    <3> QED BY Zenon, <3>1, <1>2
  <2>2. CASE j = n + 1
    BY Zenon, <2>2, <1>2
  <2> QED BY Zenon, <2>1, <2>2, <1>5
<1>9. IsInjective(s) => \A i, j \in 1 .. Len(a) : a[i] = a[j] => i = j
  <2> SUFFICES ASSUME IsInjective(s),
                      NEW i \in 1 .. Len(a), NEW j \in 1 .. Len(a), a[i] = a[j]
               PROVE  i = j
    OBVIOUS
  <2>1. ASSUME NEW m \in 1 .. Len(k) PROVE a[m] # s[n + 1]
    <3>1. PICK l \in 1 .. n : k[m] = s[l]
      BY Zenon DEF Prefix
    <3>2. l \in DOMAIN s /\ l # n + 1
      BY <1>0
    <3> QED BY Zenon, <3>1, <3>2, <1>0, <1>2 DEF IsInjective
  <2>2. CASE i \in 1 .. Len(k) /\ j \in 1 .. Len(k)
    <3>1. k[i] = k[j]
      BY Zenon, <2>2, <1>2
    <3> QED BY Zenon, <3>1, <2>2 DEF Prefix
  <2>3. CASE i = Len(k) + 1 /\ j = Len(k) + 1
    BY Zenon, <2>3
  <2> QED BY Zenon, <2>1, <2>2, <2>3, <1>2, <1>4
<1>10. Prefix(s, gone, n + 1, a)
  BY Zenon, <1>2, <1>3, <1>7, <1>8, <1>9 DEF Prefix
<1> QED BY Zenon, <1>10 DEF a

LEMMA KeptPrefix ==
  ASSUME WellOrdered, NEW S, NEW s \in Seq(S), NEW gone
  PROVE  \A n \in 0 .. Len(s) : Prefix(s, gone, n, Kept(s, gone)[n])
<1> DEFINE T == {n \in 0 .. Len(s) : Prefix(s, gone, n, Kept(s, gone)[n])}
<1>0. Len(s) \in Nat
  OBVIOUS
<1>1. 0 \in T
  <2>1. Prefix(s, gone, 0, <<>>)
    BY DEF Prefix
  <2> QED BY <1>0, <2>1, KeptStep
<1>2. ASSUME NEW n \in T, n < Len(s) PROVE n + 1 \in T
  <2>1. n + 1 \in 0 .. Len(s)
    BY <1>0, <1>2
  <2>2. Prefix(s, gone, n + 1, Kept(s, gone)[n + 1])
    <3>1. n \in 0 .. Len(s) /\ Prefix(s, gone, n, Kept(s, gone)[n])
      OBVIOUS
    <3>2. Kept(s, gone)[n + 1] = IF s[n + 1] \in gone THEN Kept(s, gone)[n]
                                 ELSE Append(Kept(s, gone)[n], s[n + 1])
      BY <1>2, <3>1, KeptStep
    <3> HIDE DEF T
    <3> QED BY Zenon, <1>2, <3>1, <3>2, PrefixDrops, PrefixKeeps
  <2> QED BY Zenon, <2>1, <2>2
<1> HIDE DEF T
<1>3. 0 .. Len(s) \subseteq T
  BY Zenon, <1>0, <1>1, <1>2, Induct
<1> QED BY Zenon, <1>3 DEF T

\* The filter of a sequence over S is one, of the elements that are not deleted.
LEMMA FilterType ==
  ASSUME WellOrdered, NEW S, NEW s \in Seq(S), NEW gone
  PROVE  /\ Filter(s, gone) \in Seq(S)
         /\ Len(Filter(s, gone)) <= Len(s)
         /\ Range(Filter(s, gone)) = Range(s) \ gone
         /\ IsInjective(s) => IsInjective(Filter(s, gone))
<1> DEFINE k == Filter(s, gone)
<1>0. Len(s) \in Nat /\ Range(s) \subseteq S /\ DOMAIN s = 1 .. Len(s)
  BY DEF Range
<1>1. Prefix(s, gone, Len(s), k)
  BY <1>0, KeptPrefix DEF Filter
<1> HIDE DEF k
<1>2. k \in Seq(Range(s) \ gone) /\ DOMAIN k = 1 .. Len(k) /\ Len(k) <= Len(s)
  BY <1>1 DEF Prefix
<1>3. k \in Seq(S)
  BY <1>0, <1>2
<1>4. Range(k) = Range(s) \ gone
  <2>1. Range(k) \subseteq Range(s) \ gone
    BY <1>2 DEF Range
  <2>2. Range(s) \ gone \subseteq Range(k)
    <3> SUFFICES ASSUME NEW e \in Range(s), e \notin gone PROVE e \in Range(k)
      OBVIOUS
    <3>1. PICK j \in 1 .. Len(s) : e = s[j]
      BY Zenon, <1>0 DEF Range
    <3>2. PICK i \in 1 .. Len(k) : k[i] = e
      BY Zenon, <3>1, <1>1 DEF Prefix
    <3> QED BY Zenon, <3>2, <1>2 DEF Range
  <2> QED BY Zenon, <2>1, <2>2
<1>5. IsInjective(s) => IsInjective(k)
  BY Zenon, <1>1, <1>2 DEF Prefix, IsInjective
<1> QED BY Zenon, <1>2, <1>3, <1>4, <1>5 DEF k

-----------------------------------------------------------------------------
(* Adding to a list.                                                       *)

\* A new element at the end of a list without repetition.
LEMMA AppendNew ==
  ASSUME NEW S, NEW s \in Seq(S), IsInjective(s), NEW e \in S, e \notin Range(s)
  PROVE  /\ Append(s, e) \in Seq(S)
         /\ IsInjective(Append(s, e))
         /\ Range(Append(s, e)) = Range(s) \cup {e}
<1> DEFINE r == Append(s, e)
<1>0. DOMAIN s = 1 .. Len(s) /\ Len(s) \in Nat
  OBVIOUS
<1>1. /\ r \in Seq(S) /\ Len(r) = Len(s) + 1 /\ DOMAIN r = 1 .. Len(r)
      /\ \A i \in 1 .. Len(s) : r[i] = s[i] /\ i \in DOMAIN r
      /\ r[Len(s) + 1] = e /\ Len(s) + 1 \in DOMAIN r
      /\ \A i \in DOMAIN r : i \in 1 .. Len(s) \/ i = Len(s) + 1
  BY <1>0
<1> HIDE DEF r
<1>2. \A i \in 1 .. Len(s) : s[i] \in Range(s) /\ s[i] # e
  BY Zenon, <1>0 DEF Range
<1>3. IsInjective(r)
  BY Zenon, <1>0, <1>1, <1>2 DEF IsInjective
<1>4. Range(r) = Range(s) \cup {e}
  <2>1. Range(r) \subseteq Range(s) \cup {e}
    BY Zenon, <1>1, <1>2 DEF Range
  <2>2. e \in Range(r)
    BY Zenon, <1>1 DEF Range
  <2>3. ASSUME NEW x \in Range(s) PROVE x \in Range(r)
    <3>1. PICK i \in 1 .. Len(s) : s[i] = x
      BY Zenon, <1>0 DEF Range
    <3> QED BY Zenon, <3>1, <1>1 DEF Range
  <2> QED BY Zenon, <2>1, <2>2, <2>3
<1> QED BY Zenon, <1>1, <1>3, <1>4 DEF r

\* A new element in front of a list without repetition.
LEMMA PrependNew ==
  ASSUME NEW S, NEW s \in Seq(S), IsInjective(s), NEW e \in S, e \notin Range(s)
  PROVE  /\ <<e>> \o s \in Seq(S)
         /\ IsInjective(<<e>> \o s)
         /\ Range(<<e>> \o s) = {e} \cup Range(s)
<1> DEFINE r == <<e>> \o s
<1>0. DOMAIN s = 1 .. Len(s) /\ Len(s) \in Nat /\ <<e>> \in Seq(S) /\ Len(<<e>>) = 1
  OBVIOUS
<1>1. /\ r \in Seq(S) /\ Len(r) = Len(s) + 1 /\ DOMAIN r = 1 .. Len(r)
      /\ r[1] = e /\ 1 \in DOMAIN r
      /\ \A i \in DOMAIN r : i # 1 => i - 1 \in 1 .. Len(s) /\ r[i] = s[i - 1]
      /\ \A i \in 1 .. Len(s) : i + 1 \in DOMAIN r /\ r[i + 1] = s[i]
  BY <1>0
<1> HIDE DEF r
<1>2. \A i \in 1 .. Len(s) : s[i] \in Range(s) /\ s[i] # e
  BY Zenon, <1>0 DEF Range
<1>3. IsInjective(r)
  <2> SUFFICES ASSUME NEW i \in DOMAIN r, NEW j \in DOMAIN r, r[i] = r[j] PROVE i = j
    BY Zenon DEF IsInjective
  <2>1. CASE i = 1 \/ j = 1
    BY <2>1, <1>1, <1>2
  <2>2. CASE i # 1 /\ j # 1
    <3>1. s[i - 1] = s[j - 1] /\ i - 1 \in DOMAIN s /\ j - 1 \in DOMAIN s
      BY Zenon, <2>2, <1>0, <1>1
    <3>2. i - 1 = j - 1
      BY Zenon, <3>1 DEF IsInjective
    <3> QED BY <3>2, <1>1
  <2> QED BY Zenon, <2>1, <2>2
<1>4. Range(r) = {e} \cup Range(s)
  <2>1. Range(r) \subseteq {e} \cup Range(s)
    BY <1>1, <1>2 DEF Range
  <2>2. e \in Range(r)
    BY Zenon, <1>1 DEF Range
  <2>3. ASSUME NEW x \in Range(s) PROVE x \in Range(r)
    <3>1. PICK i \in 1 .. Len(s) : s[i] = x
      BY Zenon, <1>0 DEF Range
    <3> QED BY Zenon, <3>1, <1>1 DEF Range
  <2> QED BY Zenon, <2>1, <2>2, <2>3
<1> QED BY Zenon, <1>1, <1>3, <1>4 DEF r

\* The first element of a sequence over a set.
LEMMA HeadType ==
  ASSUME NEW S, NEW s \in Seq(S), s # <<>>
  PROVE  Head(s) \in S
OBVIOUS

\* A list is its head and its tail.
LEMMA HeadAndTail ==
  ASSUME NEW S, NEW s \in Seq(S), s # <<>>
  PROVE  /\ Tail(s) \in Seq(S)
         /\ Len(s) = 1 => Tail(s) = <<>>
         /\ Range(s) = {Head(s)} \cup Range(Tail(s))
<1> DEFINE t == Tail(s)
<1>0. DOMAIN s = 1 .. Len(s) /\ Len(s) \in Nat /\ Len(s) # 0
  OBVIOUS
<1>1. /\ Head(s) = s[1] /\ DOMAIN t = 1 .. Len(s) - 1
      /\ \A i \in 1 .. Len(s) - 1 : t[i] = s[i + 1]
  BY <1>0
<1> HIDE DEF t
<1>2. \A i \in 1 .. Len(s) : i = 1 \/ (i - 1 \in 1 .. Len(s) - 1 /\ s[i] = t[i - 1])
  BY <1>0, <1>1
<1>3. \A i \in 1 .. Len(s) - 1 : i + 1 \in 1 .. Len(s)
  BY <1>0
<1>4. 1 \in 1 .. Len(s)
  BY <1>0
<1>5. Range(s) \subseteq {Head(s)} \cup Range(t)
  <2> SUFFICES ASSUME NEW i \in 1 .. Len(s) PROVE s[i] \in {Head(s)} \cup Range(t)
    BY Zenon, <1>0 DEF Range
  <2> QED BY Zenon, <1>1, <1>2 DEF Range
<1>6. Head(s) \in Range(s)
  BY Zenon, <1>0, <1>1, <1>4 DEF Range
<1>7. Range(t) \subseteq Range(s)
  BY <1>0, <1>1, <1>3 DEF Range
<1>8. Tail(s) \in Seq(S) /\ (Len(s) = 1 => Tail(s) = <<>>)
  BY <1>0
<1> QED BY Zenon, <1>5, <1>6, <1>7, <1>8 DEF t

-----------------------------------------------------------------------------
(* Counting.                                                               *)

\* A list without repetition is no longer than a list with all its elements.
LEMMA Pigeonhole ==
  ASSUME WellOrdered, NEW S, NEW a \in Seq(S), NEW b \in Seq(S), IsInjective(a),
         Range(a) \subseteq Range(b)
  PROVE  Len(a) <= Len(b)
<1> DEFINE Fits(c, k) == \A i \in 1 .. Len(c) : \E j \in 1 .. k : c[i] = b[j]
           T == {k \in 0 .. Len(b) :
                   \A c \in Seq(S) : IsInjective(c) /\ Fits(c, k) => Len(c) <= k}
<1>0. Len(b) \in Nat /\ DOMAIN a = 1 .. Len(a) /\ DOMAIN b = 1 .. Len(b)
  OBVIOUS
<1>1. 0 \in T
  <2> SUFFICES ASSUME NEW c \in Seq(S), Fits(c, 0) PROVE Len(c) <= 0
    BY <1>0
  <2>1. Len(c) \in Nat /\ 1 .. 0 = {}
    OBVIOUS
  <2>2. 1 .. Len(c) = {}
    BY Zenon, <2>1
  <2> QED BY <2>1, <2>2
<1>2. ASSUME NEW k \in T, k < Len(b) PROVE k + 1 \in T
  <2>0. k \in Nat /\ k + 1 \in 0 .. Len(b)
    BY <1>0, <1>2
  <2> SUFFICES ASSUME NEW c \in Seq(S), IsInjective(c), Fits(c, k + 1)
               PROVE  Len(c) <= k + 1
    BY Zenon, <2>0
  <2>1. /\ Len(c) \in Nat /\ DOMAIN c = 1 .. Len(c)
        /\ \A i \in 1 .. Len(c) : c[i] \in S
    OBVIOUS
  <2>2. \A d \in Seq(S) : IsInjective(d) /\ Fits(d, k) => Len(d) <= k
    OBVIOUS
  <2>3. \A i \in 1 .. Len(c) : c[i] # b[k + 1] => \E j \in 1 .. k : c[i] = b[j]
    <3>1. \A j \in 1 .. k + 1 : j \in 1 .. k \/ j = k + 1
      BY <2>0
    <3> QED BY Zenon, <3>1
  <2> HIDE DEF T
  <2>4. CASE \A i \in 1 .. Len(c) : c[i] # b[k + 1]
    <3>1. Len(c) <= k
      BY Zenon, <2>2, <2>3, <2>4
    <3> QED BY <3>1, <2>0, <2>1
  <2>5. ASSUME NEW m \in 1 .. Len(c), c[m] = b[k + 1] PROVE Len(c) <= k + 1
    <3> DEFINE l == Len(c) - 1
               at(i) == IF i < m THEN i ELSE i + 1
               d == [i \in 1 .. l |-> c[at(i)]]
    <3>1. l \in Nat /\ \A i \in 1 .. l : at(i) \in 1 .. Len(c) /\ at(i) # m
      BY <2>1
    <3>2. \A i, j \in 1 .. l : at(i) = at(j) => i = j
      BY <2>1
    <3> HIDE DEF at, l
    <3>3. d \in Seq(S) /\ Len(d) = l /\ DOMAIN d = 1 .. l
      BY <2>1, <3>1
    <3>4. \A i \in 1 .. l : d[i] = c[at(i)]
      OBVIOUS
    <3> HIDE DEF d
    <3>5. IsInjective(d)
      <4> SUFFICES ASSUME NEW i \in 1 .. l, NEW j \in 1 .. l, d[i] = d[j] PROVE i = j
        BY Zenon, <3>3 DEF IsInjective
      <4>1. c[at(i)] = c[at(j)]
        BY Zenon, <3>4
      <4>2. at(i) = at(j)
        BY Zenon, <4>1, <3>1, <2>1 DEF IsInjective
      <4> QED BY Zenon, <4>2, <3>2
    <3>6. \A i \in 1 .. l : c[at(i)] # b[k + 1]
      BY Zenon, <3>1, <2>1, <2>5 DEF IsInjective
    <3>7. Fits(d, k)
      <4> SUFFICES ASSUME NEW i \in 1 .. l PROVE \E j \in 1 .. k : d[i] = b[j]
        BY Zenon, <3>3
      <4>1. at(i) \in 1 .. Len(c) /\ c[at(i)] # b[k + 1] /\ d[i] = c[at(i)]
        BY Zenon, <3>1, <3>4, <3>6
      <4> QED BY Zenon, <4>1, <2>3
    <3>8. l <= k
      BY Zenon, <3>3, <3>5, <3>7, <2>2
    <3> QED BY <3>8, <2>0, <2>1 DEF l
  <2> QED BY Zenon, <2>4, <2>5
<1> HIDE DEF T
<1>3. 0 .. Len(b) \subseteq T
  BY Zenon, <1>0, <1>1, <1>2, Induct
<1>4. Len(b) \in T
  BY <1>0, <1>3
<1>5. Fits(a, Len(b))
  BY Zenon, <1>0 DEF Range
<1> QED BY Zenon, <1>4, <1>5 DEF T
=============================================================================
