----------------------------- MODULE StackLemmas -----------------------------
(* Sequences as stacks, the innermost element last, for stacks whose       *)
(* elements are records of several kinds; concatenations of sequences.     *)
EXTENDS Integers, Sequences, SequenceTheorems, WellFoundedInduction, TLAPS

IsSeq(s) == \E S : s \in Seq(S)

\* The domain of a stack
LEMMA SeqFacts ==
  ASSUME NEW s, IsSeq(s)
  PROVE  /\ Len(s) \in Nat /\ DOMAIN s = 1 .. Len(s)
         /\ s = << >> <=> Len(s) = 0
<1>1. PICK S : s \in Seq(S)
  BY DEF IsSeq
<1>2. QED
  BY <1>1, LenProperties, EmptySeq

\* A function on 1 .. n is a sequence of length n.
LEMMA FunSeq ==
  ASSUME NEW n \in Nat, NEW s, s = [j \in 1 .. n |-> s[j]]
  PROVE  IsSeq(s) /\ Len(s) = n
<1>1. s \in [1 .. n -> {s[j] : j \in 1 .. n}]
  OBVIOUS
<1>2. s \in Seq({s[j] : j \in 1 .. n})
  BY <1>1, SeqDef
<1>3. Len(s) \in Nat /\ 1 .. Len(s) = 1 .. n
  BY <1>1, <1>2, LenProperties
<1>4. \A k \in Nat : (k \in 1 .. Len(s)) <=> (k \in 1 .. n)
  BY <1>3
<1>5. Len(s) = n
  BY <1>3, <1>4
<1>6. QED
  BY <1>2, <1>5 DEF IsSeq

\* Another innermost frame
LEMMA PutTop ==
  ASSUME NEW s, IsSeq(s), s # << >>, NEW f, NEW r, r = [s EXCEPT ![Len(s)] = f]
  PROVE  /\ IsSeq(r) /\ Len(r) = Len(s) /\ r[Len(s)] = f
         /\ \A k \in 1 .. Len(s) : k < Len(s) => r[k] = s[k]
<1>1. Len(s) \in Nat /\ DOMAIN s = 1 .. Len(s) /\ Len(s) > 0
  BY SeqFacts
<1>2. r = [j \in 1 .. Len(s) |-> r[j]]
  <2>1. PICK S : s \in Seq(S)
    BY DEF IsSeq
  <2>2. s = [j \in 1 .. Len(s) |-> s[j]]
    BY <1>1, <2>1
  <2>3. QED
    BY <1>1, <2>2
<1>3. IsSeq(r) /\ Len(r) = Len(s)
  BY <1>1, <1>2, FunSeq
<1>4. QED
  BY <1>1, <1>3

\* One more frame
LEMMA Push ==
  ASSUME NEW s, IsSeq(s), NEW f, NEW r, r = Append(s, f)
  PROVE  /\ IsSeq(r) /\ Len(r) = Len(s) + 1 /\ r[Len(s) + 1] = f
         /\ \A k \in 1 .. Len(s) : r[k] = s[k]
<1>1. PICK S : s \in Seq(S)
  BY DEF IsSeq
<1>2. s \in Seq(S \cup {f})
  BY <1>1
<1>3. r \in Seq(S \cup {f}) /\ Len(r) = Len(s) + 1 /\ r[Len(s) + 1] = f
      /\ \A k \in 1 .. Len(s) : r[k] = s[k]
  BY <1>2, AppendProperties
<1>4. QED
  BY <1>3 DEF IsSeq

\* One frame less
LEMMA Pop ==
  ASSUME NEW s, IsSeq(s), s # << >>, NEW r, r = SubSeq(s, 1, Len(s) - 1)
  PROVE  /\ IsSeq(r) /\ Len(r) = Len(s) - 1
         /\ \A k \in 1 .. Len(r) : r[k] = s[k]
<1>1. PICK S : s \in Seq(S)
  BY DEF IsSeq
<1>2. Len(s) \in Nat /\ Len(s) > 0
  BY SeqFacts
<1>3. PICK n \in Nat : n = Len(s)
  BY <1>2
<1>4. n > 0 /\ n - 1 \in Int /\ \A i \in 1 .. n - 1 : s[i] \in S
  BY <1>1, <1>2, <1>3, ElementOfSeq
<1>5. /\ SubSeq(s, 1, n - 1) \in Seq(S)
      /\ Len(SubSeq(s, 1, n - 1)) = IF 1 <= n - 1 THEN n - 1 - 1 + 1 ELSE 0
      /\ \A k \in 1 .. n - 1 - 1 + 1 : SubSeq(s, 1, n - 1)[k] = s[1 + k - 1]
  BY <1>4, SubSeqProperties
<1>6. PICK x : x = Len(r)
  OBVIOUS
<1>7. r = SubSeq(s, 1, n - 1)
  BY <1>3
<1>8. x = IF 1 <= n - 1 THEN n - 1 - 1 + 1 ELSE 0
  BY <1>5, <1>6, <1>7
<1>9. x = n - 1
  BY <1>4, <1>8
<1>10. \A k \in 1 .. x : r[k] = s[k]
  BY <1>4, <1>5, <1>7, <1>9
<1>11. IsSeq(r)
  BY <1>5, <1>7 DEF IsSeq
<1>12. QED
  BY <1>3, <1>6, <1>9, <1>10, <1>11

\* The elements of a concatenation
LEMMA CatFacts ==
  ASSUME NEW s, NEW r, IsSeq(s), IsSeq(r), NEW k \in DOMAIN (s \o r)
  PROVE  \/ \E i \in DOMAIN s : (s \o r)[k] = s[i]
         \/ \E i \in DOMAIN r : (s \o r)[k] = r[i]
<1>1. PICK S : s \in Seq(S)
  BY DEF IsSeq
<1>2. PICK R : r \in Seq(R)
  BY DEF IsSeq
<1>3. s \in Seq(S \cup R) /\ r \in Seq(S \cup R)
  BY <1>1, <1>2
<1>4. /\ Len(s) \in Nat /\ Len(r) \in Nat /\ DOMAIN s = 1 .. Len(s)
      /\ DOMAIN r = 1 .. Len(r) /\ DOMAIN (s \o r) = 1 .. Len(s) + Len(r)
  BY <1>3, ConcatProperties, LenProperties
<1>5. CASE k <= Len(s)
  BY <1>3, <1>4, <1>5, ConcatProperties
<1>6. CASE k > Len(s)
  <2>1. k - Len(s) \in DOMAIN r /\ (s \o r)[k] = r[k - Len(s)]
    BY <1>3, <1>4, <1>6, ConcatProperties
  <2>2. QED
    BY <2>1
<1>7. QED
  BY <1>4, <1>5, <1>6

-----------------------------------------------------------------------------
(* Natural numbers.                                                        *)

\* A set of natural numbers has a least element.
LEMMA LeastNatural ==
  ASSUME NEW T \in SUBSET Nat, T # {}
  PROVE  \E n \in T : \A m \in T : n <= m
<1> DEFINE R == OpToRel(<, Nat)
<1>1. IsWellFoundedOn(R, Nat)
  BY NatLessThanWellFounded
<1>2. \A x, y \in Nat : x < y => <<x, y>> \in R
  BY DEF OpToRel
<1> HIDE DEF R
<1>3. PICK n \in T : \A m \in T : ~ (<<m, n>> \in R)
  BY <1>1, WFMin
<1>4. \A m \in T : ~ (m < n)
  BY <1>2, <1>3
<1>5. QED
  BY <1>3, <1>4

\* Induction over 0 .. n, for a set of numbers
LEMMA Induct ==
  ASSUME NEW n \in Nat, NEW T, 0 \in T, \A k \in 1 .. n : k - 1 \in T => k \in T
  PROVE  \A k \in 0 .. n : k \in T
<1>1. PICK W : W = {k \in 0 .. n : k \notin T}
  OBVIOUS
<1>2. SUFFICES ASSUME W # {} PROVE FALSE
  BY <1>1
<1>3. W \in SUBSET Nat
  BY <1>1
<1>4. PICK k \in W : \A m \in W : k <= m
  BY <1>2, <1>3, LeastNatural
<1>5. k \in 0 .. n /\ k \notin T /\ k # 0
  BY <1>1
<1>6. k \in 1 .. n /\ k - 1 \in 0 .. n /\ ~ (k <= k - 1)
  BY <1>5
<1>7. k - 1 \in T
  BY <1>1, <1>4, <1>6
<1>8. QED
  BY <1>5, <1>6, <1>7

-----------------------------------------------------------------------------
(* Concatenation.                                                          *)

\* Where the elements of a concatenation are
LEMMA Cat ==
  ASSUME NEW s, NEW r, IsSeq(s), IsSeq(r), NEW t, t = s \o r
  PROVE  /\ IsSeq(t) /\ Len(t) = Len(s) + Len(r)
         /\ \A k \in 1 .. Len(s) : t[k] = s[k]
         /\ \A k \in 1 .. Len(r) : t[Len(s) + k] = r[k]
<1>1. PICK S : s \in Seq(S)
  BY DEF IsSeq
<1>2. PICK R : r \in Seq(R)
  BY DEF IsSeq
<1>3. s \in Seq(S \cup R) /\ r \in Seq(S \cup R)
  BY <1>1, <1>2
<1>4. PICK l, n : l = Len(s) /\ n = Len(r)
  OBVIOUS
<1>5. l \in Nat /\ n \in Nat
  BY <1>3, <1>4, LenProperties
<1>6. /\ t \in Seq(S \cup R) /\ Len(t) = l + n
      /\ \A k \in 1 .. l + n : t[k] = IF k <= l THEN s[k] ELSE r[k - l]
  BY <1>3, <1>4, ConcatProperties
<1>7. \A k \in 1 .. l : t[k] = s[k]
  BY <1>5, <1>6
<1>8. ASSUME NEW k \in 1 .. n PROVE t[l + k] = r[k]
  <2>1. PICK j : j = l + k
    OBVIOUS
  <2>2. j \in 1 .. l + n /\ ~ (j <= l) /\ j - l = k
    BY <1>5, <2>1
  <2>3. t[j] = r[j - l]
    BY <1>6, <2>2
  <2>4. QED
    BY <2>1, <2>2, <2>3
<1>9. IsSeq(t)
  BY <1>6 DEF IsSeq
<1>10. QED
  BY <1>4, <1>6, <1>7, <1>8, <1>9

\* Sequences with the same elements are the same.
LEMMA Same ==
  ASSUME NEW s, NEW r, IsSeq(s), IsSeq(r), Len(s) = Len(r),
         \A k \in 1 .. Len(s) : s[k] = r[k]
  PROVE  s = r
<1>1. PICK S : s \in Seq(S)
  BY DEF IsSeq
<1>2. PICK R : r \in Seq(R)
  BY DEF IsSeq
<1>3. s \in Seq(S \cup R) /\ r \in Seq(S \cup R)
  BY <1>1, <1>2
<1>4. QED
  BY <1>3, SeqEqual

\* The empty sequence and a concatenation with it
LEMMA Empty ==
  /\ IsSeq(<< >>) /\ Len(<< >>) = 0
  /\ \A s : IsSeq(s) => << >> \o s = s /\ s \o << >> = s
<1>1. IsSeq(<< >>) /\ Len(<< >>) = 0
  BY EmptySeq DEF IsSeq
<1>2. ASSUME NEW s, IsSeq(s) PROVE << >> \o s = s /\ s \o << >> = s
  <2>1. PICK S : s \in Seq(S)
    BY <1>2 DEF IsSeq
  <2>2. QED
    BY <2>1, ConcatEmptySeq
<1>3. QED
  BY <1>1, <1>2

\* The concatenations of the first k groups, k from 0 to n
Joins(gs, n, f) == f = [k \in 0 .. n |-> IF k = 0 THEN << >> ELSE f[k - 1] \o gs[k]]

Joined(gs) == CHOOSE f : Joins(gs, Len(gs), f)

LEMMA JoinsExist ==
  ASSUME NEW gs, NEW n \in Nat
  PROVE  \E f : Joins(gs, n, f)
<1>1. PICK T : T = {m \in 0 .. n : \E f : Joins(gs, m, f)}
  OBVIOUS
<1>2. 0 \in T
  <2>1. PICK f : f = [k \in 0 .. 0 |-> << >>]
    OBVIOUS
  <2>2. \A k \in 0 .. 0 : k = 0
    OBVIOUS
  <2>3. f = [k \in 0 .. 0 |-> IF k = 0 THEN << >> ELSE f[k - 1] \o gs[k]]
    BY <2>1, <2>2
  <2>4. QED
    BY <1>1, <2>3 DEF Joins
<1>3. ASSUME NEW m \in 1 .. n, m - 1 \in T PROVE m \in T
  <2>1. PICK i : i = m - 1
    OBVIOUS
  <2>2. i \in 0 .. n /\ m = i + 1 /\ i \in Nat
    BY <2>1
  <2>3. PICK f : Joins(gs, i, f)
    BY <1>1, <1>3, <2>1
  <2>4. PICK h : h = [k \in 0 .. m |-> IF k <= i THEN f[k] ELSE f[i] \o gs[m]]
    OBVIOUS
  <2>5. ASSUME NEW k \in 0 .. m PROVE h[k] = IF k = 0 THEN << >> ELSE h[k - 1] \o gs[k]
    <3>1. CASE k <= i
      <4>1. k \in 0 .. i /\ h[k] = f[k]
        BY <2>2, <2>4, <3>1
      <4>2. f[k] = IF k = 0 THEN << >> ELSE f[k - 1] \o gs[k]
        BY <2>3, <4>1 DEF Joins
      <4>3. k # 0 => h[k - 1] = f[k - 1]
        BY <2>2, <2>4, <4>1
      <4>4. QED
        BY <4>1, <4>2, <4>3
    <3>2. CASE ~ (k <= i)
      <4>1. k = m /\ k # 0 /\ k - 1 = i /\ i \in 0 .. m
        BY <2>2, <3>2
      <4>2. h[k] = f[i] \o gs[m] /\ h[i] = f[i]
        BY <2>2, <2>4, <3>2, <4>1
      <4>3. QED
        BY <4>1, <4>2
    <3>3. QED
      BY <3>1, <3>2
  <2>6. h = [k \in 0 .. m |-> IF k = 0 THEN << >> ELSE h[k - 1] \o gs[k]]
    BY <2>4, <2>5
  <2>7. QED
    BY <1>1, <2>6 DEF Joins
<1>4. \A m \in 0 .. n : m \in T
  BY <1>2, <1>3, Induct
<1>5. n \in 0 .. n
  OBVIOUS
<1>6. QED
  BY <1>1, <1>4, <1>5

\* Concatenations of groups, one group at a time
LEMMA JoinedStep ==
  ASSUME NEW gs, Len(gs) \in Nat
  PROVE  /\ Joined(gs)[0] = << >>
         /\ \A k \in 1 .. Len(gs) : Joined(gs)[k] = Joined(gs)[k - 1] \o gs[k]
<1>1. PICK J : J = Joined(gs)
  OBVIOUS
<1>2. Joins(gs, Len(gs), J)
  BY <1>1, JoinsExist DEF Joined
<1>3. PICK n \in Nat : n = Len(gs)
  OBVIOUS
<1>4. J = [k \in 0 .. n |-> IF k = 0 THEN << >> ELSE J[k - 1] \o gs[k]]
  BY <1>2, <1>3 DEF Joins
<1>5. \A k \in 0 .. n : J[k] = IF k = 0 THEN << >> ELSE J[k - 1] \o gs[k]
  BY <1>4
<1>6. 0 \in 0 .. n /\ \A k \in 1 .. n : k \in 0 .. n /\ k # 0
  OBVIOUS
<1>7. QED
  BY <1>1, <1>3, <1>5, <1>6

\* n groups, each a sequence
Groups(gs, n) == n = Len(gs) /\ \A k \in 1 .. n : IsSeq(gs[k])

\* Their lengths
LEMMA JoinedLen ==
  ASSUME NEW gs, NEW n \in Nat, Groups(gs, n), NEW J, J = Joined(gs)
  PROVE  /\ \A k \in 0 .. n : IsSeq(J[k]) /\ Len(J[k]) \in Nat
         /\ Len(J[0]) = 0
         /\ \A k \in 1 .. n : Len(J[k]) = Len(J[k - 1]) + Len(gs[k])
<1>10. n = Len(gs) /\ \A k \in 1 .. n : IsSeq(gs[k])
  BY DEF Groups
<1>1. J[0] = << >> /\ \A k \in 1 .. n : J[k] = J[k - 1] \o gs[k]
  BY <1>10, JoinedStep
<1>2. PICK T : T = {k \in 0 .. n : IsSeq(J[k])}
  OBVIOUS
<1>3. 0 \in T
  BY <1>1, <1>2, Empty
<1>4. ASSUME NEW k \in 1 .. n, k - 1 \in T PROVE k \in T
  <2>1. PICK a, b, c : a = J[k - 1] /\ b = gs[k] /\ c = J[k]
    OBVIOUS
  <2>2. IsSeq(a) /\ IsSeq(b) /\ c = a \o b
    BY <1>1, <1>2, <1>4, <1>10, <2>1
  <2>3. IsSeq(c)
    BY <2>2, Cat
  <2>4. QED
    BY <1>2, <2>1, <2>3
<1>5. \A k \in 0 .. n : k \in T
  BY <1>3, <1>4, Induct
<1>6. ASSUME NEW k \in 0 .. n PROVE IsSeq(J[k]) /\ Len(J[k]) \in Nat
  <2>1. IsSeq(J[k])
    BY <1>2, <1>5
  <2>2. QED
    BY <2>1, SeqFacts
<1>7. Len(J[0]) = 0
  BY <1>1, Empty
<1>8. ASSUME NEW k \in 1 .. n PROVE Len(J[k]) = Len(J[k - 1]) + Len(gs[k])
  <2>1. PICK a, b, c : a = J[k - 1] /\ b = gs[k] /\ c = J[k]
    OBVIOUS
  <2>2. k - 1 \in 0 .. n
    OBVIOUS
  <2>3. IsSeq(a) /\ IsSeq(b) /\ c = a \o b
    BY <1>1, <1>6, <1>10, <2>1, <2>2
  <2>4. Len(c) = Len(a) + Len(b)
    BY <2>3, Cat
  <2>5. QED
    BY <2>1, <2>4
<1>9. QED
  BY <1>6, <1>7, <1>8

\* What a number of groups makes does not depend on those behind them.
LEMMA JoinedPrefix ==
  ASSUME NEW gs, NEW hs, Len(gs) \in Nat, Len(hs) \in Nat, NEW n \in Nat,
         n <= Len(gs), n <= Len(hs), \A k \in 1 .. n : gs[k] = hs[k]
  PROVE  \A k \in 0 .. n : Joined(gs)[k] = Joined(hs)[k]
<1>1. PICK G, H : G = Joined(gs) /\ H = Joined(hs)
  OBVIOUS
<1>2. G[0] = << >> /\ H[0] = << >>
  BY <1>1, JoinedStep
<1>3. \A k \in 1 .. n : k \in 1 .. Len(gs) /\ k \in 1 .. Len(hs)
  OBVIOUS
<1>4. \A k \in 1 .. n : G[k] = G[k - 1] \o gs[k]
  BY <1>1, <1>3, JoinedStep
<1>5. \A k \in 1 .. n : H[k] = H[k - 1] \o hs[k]
  BY <1>1, <1>3, JoinedStep
<1>6. PICK T : T = {k \in 0 .. n : G[k] = H[k]}
  OBVIOUS
<1>7. 0 \in T
  BY <1>2, <1>6
<1>8. ASSUME NEW k \in 1 .. n, k - 1 \in T PROVE k \in T
  <2>1. G[k - 1] = H[k - 1]
    BY <1>6, <1>8
  <2>2. gs[k] = hs[k]
    OBVIOUS
  <2>3. G[k] = G[k - 1] \o gs[k]
    BY <1>4
  <2>4. H[k] = H[k - 1] \o hs[k]
    BY <1>5
  <2>5. G[k] = H[k]
    BY <2>1, <2>2, <2>3, <2>4
  <2>6. QED
    BY <1>6, <2>5
<1>9. \A k \in 0 .. n : k \in T
  BY <1>7, <1>8, Induct
<1>10. QED
  BY <1>1, <1>6, <1>9

\* The words of a group lie behind those of the groups before it.
Lies(gs, J, n, p, x, y) ==
  y = Len(J[p - 1]) + x => \A m \in p .. n : y \in 1 .. Len(J[m]) /\ J[m][y] = gs[p][x]

LEMMA JoinedAt ==
  ASSUME NEW gs, NEW n \in Nat, Groups(gs, n), NEW J, J = Joined(gs)
  PROVE  \A p \in 1 .. n : \A x \in 1 .. Len(gs[p]) : \A y : Lies(gs, J, n, p, x, y)
<1> SUFFICES ASSUME NEW p \in 1 .. n, NEW x \in 1 .. Len(gs[p]), NEW y, y = Len(J[p - 1]) + x
    PROVE  \A m \in p .. n : y \in 1 .. Len(J[m]) /\ J[m][y] = gs[p][x]
  BY DEF Lies
<1>13. n = Len(gs) /\ \A k \in 1 .. n : IsSeq(gs[k])
  BY DEF Groups
<1>1. J[0] = << >> /\ \A k \in 1 .. n : J[k] = J[k - 1] \o gs[k]
  BY <1>13, JoinedStep
<1>2. /\ \A k \in 0 .. n : IsSeq(J[k]) /\ Len(J[k]) \in Nat
      /\ \A k \in 1 .. n : Len(J[k]) = Len(J[k - 1]) + Len(gs[k])
  BY JoinedLen
<1>4. p - 1 \in 0 .. n
  OBVIOUS
<1>5. IsSeq(gs[p]) /\ Len(gs[p]) \in Nat
  BY <1>13, SeqFacts
<1>6. y \in Nat /\ y >= 1
  BY <1>2, <1>4, <1>5
<1>7. PICK T : T = {m \in 0 .. n : m >= p => y <= Len(J[m]) /\ J[m][y] = gs[p][x]}
  OBVIOUS
<1>8. 0 \in T
  BY <1>7
<1>9. ASSUME NEW m \in 1 .. n, m - 1 \in T PROVE m \in T
  <2>1. PICK a, b, c : a = J[m - 1] /\ b = gs[m] /\ c = J[m]
    OBVIOUS
  <2>2. m - 1 \in 0 .. n
    OBVIOUS
  <2>3. IsSeq(a) /\ IsSeq(b) /\ c = a \o b
    BY <1>1, <1>2, <1>13, <2>1, <2>2
  <2>4. Len(c) = Len(a) + Len(b)
    BY <2>3, Cat
  <2>5. \A k \in 1 .. Len(a) : c[k] = a[k]
    BY <2>3, Cat
  <2>6. \A k \in 1 .. Len(b) : c[Len(a) + k] = b[k]
    BY <2>3, Cat
  <2>7. Len(a) \in Nat /\ Len(b) \in Nat
    BY <2>3, SeqFacts
  <2>8. CASE m = p
    <3>1. y = Len(a) + x /\ c[Len(a) + x] = gs[p][x] /\ x \in 1 .. Len(b)
      BY <2>1, <2>6, <2>8
    <3>2. y <= Len(c)
      BY <2>4, <2>7, <3>1
    <3>3. QED
      BY <1>7, <2>1, <3>1, <3>2
  <2>9. CASE m > p
    <3>1. y <= Len(a) /\ a[y] = gs[p][x]
      BY <1>7, <1>9, <2>1, <2>9
    <3>2. c[y] = a[y] /\ y <= Len(c)
      BY <1>6, <2>4, <2>5, <2>7, <3>1
    <3>3. QED
      BY <1>7, <2>1, <3>1, <3>2
  <2>10. CASE m < p
    BY <1>7, <2>10
  <2>11. QED
    BY <2>8, <2>9, <2>10
<1>10. \A m \in 0 .. n : m \in T
  BY <1>8, <1>9, Induct
<1>11. ASSUME NEW m \in p .. n PROVE y \in 1 .. Len(J[m]) /\ J[m][y] = gs[p][x]
  <2>1. m \in 0 .. n /\ m >= p
    OBVIOUS
  <2>2. y <= Len(J[m]) /\ J[m][y] = gs[p][x]
    BY <1>7, <1>10, <2>1
  <2>3. Len(J[m]) \in Nat
    BY <1>2, <2>1
  <2>4. QED
    BY <1>6, <2>2, <2>3
<1>12. QED
  BY <1>11
=============================================================================
