------------------------- MODULE CommandReportsProofs -------------------------
(***************************************************************************)
(* Proofs about CommandReports, for any tasks, sizes of the history and    *)
(* number of faults: the end of a command is kept until the server has     *)
(* seen it, and the server never sees it undone.  The first part is about  *)
(* sequences, and about what is done for each task in turn.                *)
(***************************************************************************)
EXTENDS CommandReports, SequenceTheorems, WellFoundedInduction, TLAPS

-----------------------------------------------------------------------------
(* Induction over sets of numbers, and functions that are iterated *)

LEMMA SetInduction ==
  ASSUME NEW A, 0 \in A, \A i \in Nat : i \in A => i + 1 \in A
  PROVE  Nat \subseteq A
<1> DEFINE Out == Nat \ A
<1>1. SUFFICES ASSUME Out # {} PROVE FALSE
  OBVIOUS
<1>2. PICK x \in Out : \A y \in Out : ~ (<<y, x>> \in OpToRel(<, Nat))
  BY <1>1, WFMin, NatLessThanWellFounded, Zenon
<1>3. x # 0 /\ x \in Nat /\ x \notin A
  BY Zenon
<1>4. x - 1 \in Out
  <2>1. x - 1 \in Nat /\ (x - 1) + 1 = x
    BY <1>3
  <2>2. x - 1 \notin A
    BY <1>3, <2>1
  <2>3. QED
    BY <2>1, <2>2
<1>5. <<x - 1, x>> \in OpToRel(<, Nat)
  BY <1>3, <1>4 DEF OpToRel
<1>6. QED
  BY <1>2, <1>4, <1>5, Zenon

\* The states g goes through from base, step[k] being its k-th step.
IsPath(g, base, step, n) == g[0] = base /\ \A k \in 1..n : g[k] = step[k][g[k - 1]]

LEMMA Iteration ==
  ASSUME NEW S, NEW n \in Nat, NEW base \in S, NEW step \in [1..n -> [S -> S]]
  PROVE  \E g \in [0..n -> S] :
           IsPath(g, base, step, n)
<1> DEFINE Is(g, m) == IsPath(g, base, step, m)
           A == {m \in Nat : m <= n => \E g \in [0..m -> S] : Is(g, m)}
<1>1. 0 \in A
  <2>1. [k \in 0..0 |-> base] \in [0..0 -> S] /\ Is([k \in 0..0 |-> base], 0)
    BY DEF IsPath
  <2>2. QED
    BY <2>1
<1>2. ASSUME NEW m \in Nat, m \in A PROVE m + 1 \in A
  <2>1. SUFFICES ASSUME m + 1 <= n PROVE \E g \in [0..m + 1 -> S] : Is(g, m + 1)
    OBVIOUS
  <2>2. PICK g \in [0..m -> S] : Is(g, m)
    BY <1>2, <2>1
  <2> DEFINE h == [k \in 0..m + 1 |-> IF k = m + 1 THEN step[m + 1][g[m]] ELSE g[k]]
  <2>3. m + 1 \in 1..n /\ m \in 0..m
    BY <2>1
  <2>3a. step[m + 1][g[m]] \in S
    BY <2>2, <2>3
  <2>4. h \in [0..m + 1 -> S]
    BY <2>2, <2>3a
  <2>5. Is(h, m + 1)
    BY <2>2, <2>3 DEF IsPath
  <2>6. QED
    BY <2>4, <2>5
<1>3. n \in A
  BY <1>1, <1>2, SetInduction
<1>4. QED
  BY <1>3

\* What holds at first and is handed on from place to place holds at the last.
LEMMA Follows ==
  ASSUME NEW n \in Nat, NEW P, NEW after, after[0] \in P[0],
         \A k \in 1..n : after[k - 1] \in P[k - 1] => after[k] \in P[k]
  PROVE  after[n] \in P[n]
<1> DEFINE A == {k \in Nat : k <= n => after[k] \in P[k]}
<1>1. 0 \in A
  OBVIOUS
<1>2. ASSUME NEW k \in Nat, k \in A PROVE k + 1 \in A
  <2>1. SUFFICES ASSUME k + 1 <= n PROVE after[k + 1] \in P[k + 1]
    OBVIOUS
  <2>2. k + 1 \in 1..n /\ (k + 1) - 1 = k /\ after[k] \in P[k]
    BY <1>2, <2>1
  <2>3. QED
    BY <2>2
<1>3. Nat \subseteq A
  <2> HIDE DEF A
  <2>1. QED
    BY <1>1, <1>2, SetInduction
<1>4. QED
  BY <1>3

-----------------------------------------------------------------------------
(* Sequences *)

LEMMA RangeOf ==
  ASSUME NEW S, NEW s \in Seq(S)
  PROVE  /\ Range(s) \subseteq S /\ \A i \in 1..Len(s) : s[i] \in Range(s)
         /\ \A x \in Range(s) : \E i \in 1..Len(s) : s[i] = x
         /\ DOMAIN s = 1..Len(s) /\ Len(s) \in Nat
         /\ \A x : Contains(s, x) <=> x \in Range(s)
<1>1. DOMAIN s = 1..Len(s) /\ Len(s) \in Nat /\ s \in [1..Len(s) -> S]
  BY LenProperties
<1>2. QED
  BY <1>1 DEF Range, Contains

LEMMA EmptyRange == Range(<<>>) = {} /\ \A S : <<>> \in Seq(S)
  BY DEF Range

LEMMA AppendRange ==
  ASSUME NEW S, NEW s \in Seq(S), NEW x \in S
  PROVE  /\ Append(s, x) \in Seq(S) /\ Len(Append(s, x)) = Len(s) + 1
         /\ \A e : e \in Range(Append(s, x)) <=> e \in Range(s) \/ e = x
<1>1. /\ Append(s, x) \in Seq(S) /\ Len(Append(s, x)) = Len(s) + 1 /\ Len(s) \in Nat
      /\ Append(s, x)[Len(s) + 1] = x
      /\ \A i \in 1..Len(s) : Append(s, x)[i] = s[i]
  BY AppendProperties, LenProperties
<1>2. DOMAIN s = 1..Len(s) /\ DOMAIN Append(s, x) = 1..Len(s) + 1
  BY <1>1, LenProperties
<1>3. QED
  BY <1>1, <1>2 DEF Range

LEMMA ConcatRange ==
  ASSUME NEW S, NEW s \in Seq(S), NEW t \in Seq(S)
  PROVE  /\ s \o t \in Seq(S) /\ Len(s \o t) = Len(s) + Len(t)
         /\ \A e : e \in Range(s \o t) <=> e \in Range(s) \/ e \in Range(t)
<1> DEFINE m == Len(s)
           n == Len(t)
           c == s \o t
<1>1. /\ c \in Seq(S) /\ Len(c) = m + n /\ m \in Nat /\ n \in Nat
      /\ \A i \in 1..m + n : c[i] = IF i <= m THEN s[i] ELSE t[i - m]
  BY ConcatProperties, LenProperties
<1>2. DOMAIN s = 1..m /\ DOMAIN t = 1..n /\ DOMAIN c = 1..m + n
  BY <1>1, LenProperties
<1> HIDE DEF m, n, c
<1>3. ASSUME NEW e, e \in Range(c) PROVE e \in Range(s) \/ e \in Range(t)
  <2>1. PICK i \in 1..m + n : c[i] = e
    BY <1>2, <1>3 DEF Range
  <2>2. CASE i <= m
    BY <1>1, <1>2, <2>1, <2>2 DEF Range
  <2>3. CASE ~ (i <= m)
    <3>1. i - m \in 1..n /\ t[i - m] = e
      BY <1>1, <2>1, <2>3
    <3>2. QED
      BY <1>2, <3>1 DEF Range
  <2>4. QED
    BY <2>2, <2>3
<1>4. ASSUME NEW e, e \in Range(s) PROVE e \in Range(c)
  <2>1. PICK i \in 1..m : s[i] = e
    BY <1>2, <1>4 DEF Range
  <2>2. i \in 1..m + n /\ c[i] = e
    BY <1>1, <2>1
  <2>3. QED
    BY <1>2, <2>2 DEF Range
<1>5. ASSUME NEW e, e \in Range(t) PROVE e \in Range(c)
  <2>1. PICK i \in 1..n : t[i] = e
    BY <1>2, <1>5 DEF Range
  <2>2. i + m \in 1..m + n /\ ~ (i + m <= m) /\ (i + m) - m = i
    BY <1>1, <2>1
  <2>3. c[i + m] = e
    BY <1>1, <2>1, <2>2
  <2>4. QED
    BY <1>2, <2>2, <2>3 DEF Range
<1>6. QED
  BY <1>1, <1>3, <1>4, <1>5 DEF m, n, c

LEMMA SubRange ==
  ASSUME NEW S, NEW s \in Seq(S), NEW a \in Nat \ {0}, NEW b \in 0..Len(s), a <= b + 1
  PROVE  /\ SubSeq(s, a, b) \in Seq(S) /\ Len(SubSeq(s, a, b)) = (b - a) + 1
         /\ \A e : e \in Range(SubSeq(s, a, b)) <=> \E i \in a..b : s[i] = e
<1> DEFINE g == SubSeq(s, a, b)
           l == (b - a) + 1
<1>1. Len(s) \in Nat /\ s \in [1..Len(s) -> S] /\ b \in Nat /\ b <= Len(s) /\ l \in Nat
  BY LenProperties
<1>2. g = [i \in 1..l |-> s[i + a - 1]]
  BY <1>1
<1>3. \A i \in 1..l : i + a - 1 \in 1..Len(s)
  BY <1>1
<1>4. g \in [1..l -> S]
  BY <1>1, <1>2, <1>3
<1>5. g \in Seq(S) /\ Len(g) = l /\ DOMAIN g = 1..l
  BY <1>1, <1>4
<1> HIDE DEF g
<1>6. ASSUME NEW e, e \in Range(g) PROVE \E i \in a..b : s[i] = e
  <2>1. PICK i \in 1..l : g[i] = e
    BY <1>5, <1>6 DEF Range
  <2>2. i + a - 1 \in a..b /\ s[i + a - 1] = e
    BY <1>1, <1>2, <2>1
  <2>3. QED
    BY <2>2
<1>7. ASSUME NEW e, NEW i \in a..b, s[i] = e PROVE e \in Range(g)
  <2>1. (i - a) + 1 \in 1..l /\ ((i - a) + 1) + a - 1 = i
    BY <1>1
  <2>2. g[(i - a) + 1] = e
    BY <1>2, <1>7, <2>1
  <2>3. QED
    BY <1>5, <2>1, <2>2 DEF Range
<1>8. QED
  BY <1>5, <1>6, <1>7 DEF g

\* At most one place of s has t.
Once(s, t) == \A i, j \in DOMAIN s : s[i] = t /\ s[j] = t => i = j

LEMMA AppendOnce ==
  ASSUME NEW S, NEW s \in Seq(S), NEW x \in S, NEW t, Once(s, t), x = t => t \notin Range(s)
  PROVE  Once(Append(s, x), t)
<1>1. /\ Append(s, x) \in Seq(S) /\ Len(Append(s, x)) = Len(s) + 1 /\ Len(s) \in Nat
      /\ Append(s, x)[Len(s) + 1] = x
      /\ \A i \in 1..Len(s) : Append(s, x)[i] = s[i]
  BY AppendProperties, LenProperties
<1>2. DOMAIN s = 1..Len(s) /\ DOMAIN Append(s, x) = 1..Len(s) + 1
  BY <1>1, LenProperties
<1>3. \A i \in 1..Len(s) : s[i] \in Range(s)
  BY RangeOf
<1> DEFINE a == Append(s, x)
           n == Len(s)
<1>4. SUFFICES ASSUME NEW i \in 1..n + 1, NEW j \in 1..n + 1, a[i] = t, a[j] = t PROVE i = j
  BY <1>2 DEF Once
<1>5. \A k \in 1..n + 1 : k \in 1..n \/ k = n + 1
  BY <1>1
<1>6. CASE i \in 1..n /\ j \in 1..n
  BY <1>1, <1>2, <1>4, <1>6 DEF Once
<1>7. CASE i = n + 1 \/ j = n + 1
  BY <1>1, <1>3, <1>4, <1>5, <1>7
<1>8. QED
  BY <1>5, <1>6, <1>7

LEMMA ConcatOnce ==
  ASSUME NEW S, NEW s \in Seq(S), NEW u \in Seq(S), NEW t, Once(s, t), Once(u, t),
         ~ (t \in Range(s) /\ t \in Range(u))
  PROVE  Once(s \o u, t)
<1> DEFINE m == Len(s)
           n == Len(u)
           c == s \o u
<1>1. /\ c \in Seq(S) /\ Len(c) = m + n /\ m \in Nat /\ n \in Nat
      /\ \A i \in 1..m + n : c[i] = IF i <= m THEN s[i] ELSE u[i - m]
  BY ConcatProperties, LenProperties
<1>2. DOMAIN s = 1..m /\ DOMAIN u = 1..n /\ DOMAIN c = 1..m + n
  BY <1>1, LenProperties
<1>3. (\A i \in 1..m : s[i] \in Range(s)) /\ (\A i \in 1..n : u[i] \in Range(u))
  BY RangeOf
<1> HIDE DEF m, n, c
<1>4. SUFFICES ASSUME NEW i \in 1..m + n, NEW j \in 1..m + n, c[i] = t, c[j] = t PROVE i = j
  BY <1>2 DEF Once, c
<1>5. \A k \in 1..m + n : IF k <= m THEN k \in 1..m /\ c[k] = s[k]
                           ELSE k - m \in 1..n /\ c[k] = u[k - m]
  BY <1>1
<1>6. CASE i <= m /\ j <= m
  <2>1. i \in 1..m /\ j \in 1..m /\ s[i] = t /\ s[j] = t
    BY <1>4, <1>5, <1>6
  <2>2. QED
    BY <1>2, <2>1 DEF Once
<1>7. CASE ~ (i <= m) /\ ~ (j <= m)
  <2>1. i - m \in 1..n /\ j - m \in 1..n /\ u[i - m] = t /\ u[j - m] = t
    BY <1>4, <1>5, <1>7
  <2>2. i - m = j - m
    BY <1>2, <2>1 DEF Once
  <2>3. QED
    BY <1>1, <2>2
<1>8. CASE ~ (i <= m <=> j <= m)
  BY <1>3, <1>4, <1>5, <1>8
<1>9. QED
  BY <1>6, <1>7, <1>8

LEMMA SubOnce ==
  ASSUME NEW S, NEW s \in Seq(S), NEW a \in Nat \ {0}, NEW b \in 0..Len(s), a <= b + 1,
         NEW t, Once(s, t)
  PROVE  Once(SubSeq(s, a, b), t)
<1> DEFINE l == (b - a) + 1
<1>1. Len(s) \in Nat /\ DOMAIN s = 1..Len(s) /\ b \in Nat /\ b <= Len(s) /\ l \in Nat
  BY LenProperties
<1>2. SubSeq(s, a, b) = [i \in 1..l |-> s[i + a - 1]]
  BY <1>1
<1>3. \A i \in 1..l : i + a - 1 \in DOMAIN s
  BY <1>1
<1>4. SUFFICES ASSUME NEW i \in 1..l, NEW j \in 1..l, s[i + a - 1] = t, s[j + a - 1] = t
               PROVE  i = j
  BY <1>2 DEF Once
<1>5. i + a - 1 = j + a - 1
  BY <1>3, <1>4 DEF Once
<1>6. QED
  BY <1>1, <1>5

LEMMA HasLeast ==
  ASSUME NEW I, I \subseteq Nat, I # {}
  PROVE  Min(I) \in I
<1>1. PICK x \in I : \A y \in I : ~ (<<y, x>> \in OpToRel(<, Nat))
  BY WFMin, NatLessThanWellFounded, Zenon
<1>2. ASSUME NEW y \in I, y < x PROVE FALSE
  <2>1. y \in Nat /\ x \in Nat
    OBVIOUS
  <2>2. <<y, x>> \in OpToRel(<, Nat)
    BY <1>2, <2>1 DEF OpToRel
  <2>3. QED
    BY <1>1, <2>2, Zenon
<1>3. x \in I /\ \A y \in I : x <= y
  BY <1>2
<1>4. QED
  BY <1>3 DEF Min

\* RemoveFirst takes out one place of t, if there is one.
LEMMA RemoveRange ==
  ASSUME NEW S, NEW s \in Seq(S), NEW t
  PROVE  /\ RemoveFirst(s, t) \in Seq(S) /\ Len(RemoveFirst(s, t)) <= Len(s)
         /\ \A e : e \in Range(RemoveFirst(s, t)) => e \in Range(s)
         /\ \A e : e \in Range(s) => e \in Range(RemoveFirst(s, t)) \/ e = t
         /\ \A e : Once(s, e) => Once(RemoveFirst(s, t), e)
         /\ Once(s, t) => t \notin Range(RemoveFirst(s, t))
<1> DEFINE n == Len(s)
           I == {i \in 1..n : s[i] = t}
           m == Min(I)
           a == SubSeq(s, 1, m - 1)
           b == SubSeq(s, m + 1, n)
<1>1. n \in Nat /\ DOMAIN s = 1..n
  BY LenProperties
<1>2. CASE I = {}
  <2>1. ~ \E i \in 1..Len(s) : s[i] = t
    BY <1>2
  <2>2. RemoveFirst(s, t) = s
    BY <2>1 DEF RemoveFirst
  <2>3. t \notin Range(s)
    BY <1>1, <2>1 DEF Range
  <2>4. QED
    BY <1>1, <2>2, <2>3
<1>3. CASE I # {}
  <2>1. m \in 1..n /\ s[m] = t
    <3>1. I \subseteq Nat
      BY <1>1
    <3>2. m \in I
      <4> HIDE DEF I
      <4>1. QED
        BY <1>3, <3>1, HasLeast
    <3>3. QED
      BY <3>2
  <2>2. RemoveFirst(s, t) = a \o b
    <3>1. \E i \in 1..Len(s) : s[i] = t
      BY <1>3
    <3>2. SelectInSeq(s, LAMBDA v : v = t) = m
      BY <1>3 DEF SelectInSeq
    <3>3. QED
      BY <3>1, <3>2 DEF RemoveFirst, RemoveAt
  <2> HIDE DEF m
  <2>3. /\ a \in Seq(S) /\ Len(a) = m - 1
        /\ \A e : e \in Range(a) <=> \E i \in 1..m - 1 : s[i] = e
    <3>1. m - 1 \in 0..Len(s) /\ 1 \in Nat \ {0} /\ 1 <= (m - 1) + 1
      BY <1>1, <2>1
    <3>2. Len(a) = ((m - 1) - 1) + 1
      BY <3>1, SubRange
    <3>3. QED
      BY <1>1, <2>1, <3>1, <3>2, SubRange
  <2>4. /\ b \in Seq(S) /\ Len(b) = n - m
        /\ \A e : e \in Range(b) <=> \E i \in m + 1..n : s[i] = e
    <3>1. n \in 0..Len(s) /\ m + 1 \in Nat \ {0} /\ m + 1 <= n + 1
      BY <1>1, <2>1
    <3>2. b \in Seq(S) /\ Len(b) = (n - (m + 1)) + 1
      BY <3>1, SubRange
    <3>3. \A e : e \in Range(b) <=> \E i \in m + 1..n : s[i] = e
      BY <3>1, SubRange
    <3> HIDE DEF b
    <3>4. Len(b) = n - m
      BY <1>1, <2>1, <3>2
    <3>5. QED
      BY <3>2, <3>3, <3>4
  <2> HIDE DEF a, b
  <2>5. /\ RemoveFirst(s, t) \in Seq(S) /\ Len(RemoveFirst(s, t)) = Len(a) + Len(b)
        /\ \A e : e \in Range(RemoveFirst(s, t)) <=> e \in Range(a) \/ e \in Range(b)
    BY <2>2, <2>3, <2>4, ConcatRange
  <2>6. Len(RemoveFirst(s, t)) <= Len(s)
    BY <1>1, <2>1, <2>3, <2>4, <2>5
  <2>7. ASSUME NEW e, e \in Range(RemoveFirst(s, t)) PROVE e \in Range(s)
    <3>1. (\E i \in 1..m - 1 : s[i] = e) \/ (\E i \in m + 1..n : s[i] = e)
      BY <2>3, <2>4, <2>5, <2>7
    <3>2. PICK i \in 1..n : s[i] = e
      BY <1>1, <2>1, <3>1
    <3>3. QED
      BY <1>1, <3>2 DEF Range
  <2>8. ASSUME NEW e, e \in Range(s), e # t PROVE e \in Range(RemoveFirst(s, t))
    <3>1. PICK i \in 1..n : s[i] = e
      BY <1>1, <2>8 DEF Range
    <3>2. i \in 1..m - 1 \/ i \in m + 1..n
      BY <1>1, <2>1, <2>8, <3>1
    <3>3. QED
      BY <2>3, <2>4, <2>5, <3>1, <3>2
  <2>9. ASSUME NEW e, Once(s, e) PROVE Once(RemoveFirst(s, t), e)
    <3>1. Once(a, e)
      <4>1. m - 1 \in 0..Len(s) /\ 1 \in Nat \ {0} /\ 1 <= (m - 1) + 1
        BY <1>1, <2>1
      <4>2. QED
        BY <2>9, <4>1, SubOnce DEF a
    <3>2. Once(b, e)
      <4>1. n \in 0..Len(s) /\ m + 1 \in Nat \ {0} /\ m + 1 <= n + 1
        BY <1>1, <2>1
      <4>2. QED
        BY <2>9, <4>1, SubOnce DEF b
    <3>3. ~ (e \in Range(a) /\ e \in Range(b))
      <4>1. SUFFICES ASSUME NEW i \in 1..m - 1, NEW j \in m + 1..n, s[i] = e, s[j] = e
                     PROVE  FALSE
        BY <2>3, <2>4
      <4>2. i \in DOMAIN s /\ j \in DOMAIN s /\ i # j
        BY <1>1, <2>1
      <4>3. QED
        BY <2>9, <4>1, <4>2 DEF Once
    <3>4. QED
      BY <2>2, <2>3, <2>4, <3>1, <3>2, <3>3, ConcatOnce
  <2>10. ASSUME Once(s, t) PROVE t \notin Range(RemoveFirst(s, t))
    <3>1. SUFFICES ASSUME t \in Range(RemoveFirst(s, t)) PROVE FALSE
      OBVIOUS
    <3>2. (\E i \in 1..m - 1 : s[i] = t) \/ (\E i \in m + 1..n : s[i] = t)
      BY <2>3, <2>4, <2>5, <3>1
    <3>3. PICK i \in 1..n : s[i] = t /\ i # m
      BY <1>1, <2>1, <3>2
    <3>4. QED
      BY <1>1, <2>1, <2>10, <3>3 DEF Once
  <2>11. QED
    BY <2>5, <2>6, <2>7, <2>8, <2>9, <2>10
<1>4. QED
  BY <1>2, <1>3

-----------------------------------------------------------------------------
(* What is done for each task of a list in turn *)

\* Kept(s, T): the elements of s that are in T, and no other.
LEMMA KeptIs ==
  ASSUME NEW S, NEW s \in Seq(S), NEW T
  PROVE  /\ Kept(s, T) \in Seq(S)
         /\ \A e : e \in Range(Kept(s, T)) <=> e \in Range(s) /\ e \in T
         /\ \A e : Once(s, e) => Once(Kept(s, T), e)
<1> DEFINE n == Len(s)
           Step(k, q) == IF s[k] \in T THEN Append(q, s[k]) ELSE q
           step == [k \in 1..n |-> [q \in Seq(S) |-> Step(k, q)]]
           Path(g) == g = [k \in 0..n |-> IF k = 0 THEN <<>>
                             ELSE IF s[k] \in T THEN Append(g[k - 1], s[k]) ELSE g[k - 1]]
           after == CHOOSE g : Path(g)
           P == [k \in 0..n |->
                  {q \in Seq(S) :
                     /\ \A e : e \in Range(q) <=> e \in T /\ \E i \in 1..k : s[i] = e
                     /\ \A e : Once(s, e) => Once(q, e)}]
<1>1. n \in Nat /\ DOMAIN s = 1..n /\ <<>> \in Seq(S)
  BY LenProperties, EmptyRange
<1>2. ASSUME NEW k \in 1..n, NEW q \in Seq(S) PROVE s[k] \in S /\ Step(k, q) \in Seq(S)
  <2>1. s[k] \in S
    BY <1>1
  <2>2. QED
    BY <2>1, AppendRange
<1>3. \E g : Path(g)
  <2>1. step \in [1..n -> [Seq(S) -> Seq(S)]]
    BY <1>2
  <2>2. \A k \in 1..n : \A q \in Seq(S) : step[k][q] = Step(k, q)
    OBVIOUS
  <2> HIDE DEF step, n
  <2>3. PICK g \in [0..n -> Seq(S)] : IsPath(g, <<>>, step, n)
    BY <1>1, <2>1, Iteration
  <2>4. ASSUME NEW k \in 1..n PROVE g[k] = Step(k, g[k - 1])
    <3>1. k - 1 \in 0..n
      BY <1>1
    <3>2. g[k - 1] \in Seq(S)
      BY <2>3, <3>1
    <3>3. QED
      BY <2>2, <2>3, <3>2 DEF IsPath
  <2>5. ASSUME NEW k \in 0..n
        PROVE  g[k] = IF k = 0 THEN <<>>
                      ELSE IF s[k] \in T THEN Append(g[k - 1], s[k]) ELSE g[k - 1]
    <3>1. g[0] = <<>> /\ (k = 0 \/ k \in 1..n)
      BY <1>1, <2>3 DEF IsPath
    <3>2. QED
      BY <2>4, <3>1
  <2>6. Path(g)
    BY <2>3, <2>5
  <2>7. QED
    BY <2>6
<1>4. Path(after)
  BY <1>3, Zenon
<1>5. Kept(s, T) = after[n]
  BY DEF Kept
<1> HIDE DEF after
<1>6. after[0] \in P[0]
  <2>1. after[0] = <<>>
    BY <1>1, <1>4
  <2>2. <<>> \in P[0]
    BY <1>1, EmptyRange DEF Once
  <2>3. QED
    BY <2>1, <2>2
<1>7. ASSUME NEW k \in 1..n, after[k - 1] \in P[k - 1] PROVE after[k] \in P[k]
  <2>1. k - 1 \in 0..n /\ k \in 0..n /\ k # 0 /\ s[k] \in S
    BY <1>1
  <2>2. /\ after[k - 1] \in Seq(S)
        /\ \A e : e \in Range(after[k - 1]) <=> e \in T /\ \E i \in 1..k - 1 : s[i] = e
        /\ \A e : Once(s, e) => Once(after[k - 1], e)
    BY <1>7, <2>1
  <2>3. \A e : (\E i \in 1..k : s[i] = e) <=> (\E i \in 1..k - 1 : s[i] = e) \/ s[k] = e
    BY <1>1, <2>1
  <2>4. after[k] = Step(k, after[k - 1])
    BY <1>4, <2>1
  <2>5. /\ after[k] \in Seq(S)
        /\ \A e : e \in Range(after[k]) <=> e \in T /\ \E i \in 1..k : s[i] = e
    <3>1. CASE s[k] \in T
      <4>1. after[k] = Append(after[k - 1], s[k])
        BY <2>4, <3>1
      <4>2. /\ after[k] \in Seq(S)
            /\ \A e : e \in Range(after[k]) <=> e \in Range(after[k - 1]) \/ e = s[k]
        BY <2>1, <2>2, <4>1, AppendRange
      <4>3. QED
        BY <2>2, <2>3, <3>1, <4>2
    <3>2. CASE s[k] \notin T
      <4>1. after[k] = after[k - 1]
        BY <2>4, <3>2
      <4>2. QED
        BY <2>2, <2>3, <3>2, <4>1
    <3>3. QED
      BY <3>1, <3>2
  <2>6. ASSUME NEW e, Once(s, e) PROVE Once(after[k], e)
    <3>1. CASE s[k] \in T
      <4>1. s[k] = e => e \notin Range(after[k - 1])
        <5>1. SUFFICES ASSUME s[k] = e, NEW i \in 1..k - 1, s[i] = e PROVE FALSE
          BY <2>2
        <5>2. i \in DOMAIN s /\ k \in DOMAIN s /\ i # k
          BY <1>1
        <5>3. QED
          BY <2>6, <5>1, <5>2 DEF Once
      <4>2. Once(Append(after[k - 1], s[k]), e)
        BY <2>1, <2>2, <2>6, <4>1, AppendOnce
      <4>3. QED
        BY <2>4, <3>1, <4>2
    <3>2. CASE s[k] \notin T
      BY <2>2, <2>4, <2>6, <3>2
    <3>3. QED
      BY <3>1, <3>2
  <2>7. QED
    BY <2>1, <2>5, <2>6
<1>8. after[n] \in P[n]
  <2> HIDE DEF P, n
  <2>1. QED
    BY <1>1, <1>6, <1>7, Follows
<1>9. n \in 0..n
  BY <1>1
<1>10. QED
  BY <1>1, <1>5, <1>8, <1>9 DEF Range

\* The server has seen, of each task, the status of a report of the message.
LEMMA LearnedIs ==
  ASSUME seen \in [Tasks -> Status], NEW chunk \in Seq(Report)
  PROVE  /\ Learned(chunk) \in [Tasks -> Status]
         /\ \A t \in Tasks :
              \/ /\ \A r \in Range(chunk) : r.task # t
                 /\ Learned(chunk)[t] = seen[t]
              \/ \E r \in Range(chunk) : r.task = t /\ Learned(chunk)[t] = r.status
<1> DEFINE n == Len(chunk)
           S == [Tasks -> Status]
           Base == seen
           Step(k, f) == [f EXCEPT ![chunk[k].task] = chunk[k].status]
           step == [k \in 1..n |-> [f \in S |-> Step(k, f)]]
           Path(g) == g = [k \in 0..n |-> IF k = 0 THEN Base ELSE Step(k, g[k - 1])]
           after == CHOOSE g : Path(g)
           P == [k \in 0..n |->
                  {f \in S : \A t \in Tasks :
                     \/ /\ \A i \in 1..k : chunk[i].task # t
                        /\ f[t] = seen[t]
                     \/ \E i \in 1..k : chunk[i].task = t /\ f[t] = chunk[i].status}]
<1>1. n \in Nat /\ DOMAIN chunk = 1..n /\ Base \in S
  BY LenProperties
<1>2. ASSUME NEW k \in 1..n, NEW f \in S
      PROVE  /\ chunk[k].task \in Tasks /\ chunk[k].status \in Status /\ Step(k, f) \in S
             /\ \A t \in Tasks : Step(k, f)[t] = IF t = chunk[k].task THEN chunk[k].status
                                                                   ELSE f[t]
  <2>1. chunk[k] \in Report
    BY <1>1
  <2>2. chunk[k].task \in Tasks /\ chunk[k].status \in Status
    BY <2>1 DEF Report
  <2>3. QED
    BY <2>2
<1>3. \E g : Path(g)
  <2>1. step \in [1..n -> [S -> S]]
    BY <1>2
  <2>2. \A k \in 1..n : \A f \in S : step[k][f] = Step(k, f)
    OBVIOUS
  <2> HIDE DEF step, n, S, Base, Step
  <2>3. PICK g \in [0..n -> S] : IsPath(g, Base, step, n)
    BY <1>1, <2>1, Iteration
  <2>4. ASSUME NEW k \in 1..n PROVE g[k] = Step(k, g[k - 1])
    <3>1. k - 1 \in 0..n
      BY <1>1
    <3>2. g[k - 1] \in S
      BY <2>3, <3>1
    <3>3. QED
      BY <2>2, <2>3, <3>2 DEF IsPath
  <2>5. ASSUME NEW k \in 0..n
        PROVE  g[k] = IF k = 0 THEN Base ELSE Step(k, g[k - 1])
    <3>1. g[0] = Base /\ (k = 0 \/ k \in 1..n)
      BY <1>1, <2>3 DEF IsPath
    <3>2. QED
      BY <2>4, <3>1
  <2>6. Path(g)
    BY <2>3, <2>5
  <2>7. QED
    BY <2>6
<1>4. Path(after)
  BY <1>3, Zenon
<1>5. Learned(chunk) = after[n]
  BY DEF Learned
<1> HIDE DEF after, S, Base
<1>6. after[0] = Base /\ \A k \in 1..n : after[k] = Step(k, after[k - 1])
  <2> HIDE DEF n, Step
  <2>1. 0 \in 0..n /\ \A k \in 1..n : k \in 0..n /\ k # 0
    BY <1>1
  <2>2. QED
    BY <1>4, <2>1
<1>7. after[0] \in P[0]
  BY <1>1, <1>6 DEF Base
<1>8. ASSUME NEW k \in 1..n, after[k - 1] \in P[k - 1] PROVE after[k] \in P[k]
  <2>1. k - 1 \in 0..n /\ k \in 0..n /\ k \in 1..k
    BY <1>1
  <2>2. /\ after[k - 1] \in S
        /\ \A t \in Tasks :
             \/ /\ \A i \in 1..k - 1 : chunk[i].task # t
                /\ after[k - 1][t] = seen[t]
             \/ \E i \in 1..k - 1 : chunk[i].task = t /\ after[k - 1][t] = chunk[i].status
    BY <1>8, <2>1
  <2>3. /\ after[k] \in S
        /\ \A t \in Tasks : after[k][t] = IF t = chunk[k].task THEN chunk[k].status
                                                               ELSE after[k - 1][t]
    <3> HIDE DEF Step, S
    <3>1. after[k] = Step(k, after[k - 1])
      BY <1>6
    <3>2. QED
      BY <1>2, <2>2, <3>1
  <2>4. \A i : i \in 1..k <=> i \in 1..k - 1 \/ i = k
    BY <1>1, <2>1
  <2>5. ASSUME NEW t \in Tasks
        PROVE  \/ /\ \A i \in 1..k : chunk[i].task # t
                  /\ after[k][t] = seen[t]
               \/ \E i \in 1..k : chunk[i].task = t /\ after[k][t] = chunk[i].status
    <3>1. CASE t = chunk[k].task
      BY <2>1, <2>3, <3>1
    <3>2. CASE t # chunk[k].task
      BY <2>2, <2>3, <2>4, <3>2
    <3>3. QED
      BY <3>1, <3>2
  <2>6. QED
    BY <2>1, <2>3, <2>5
<1>9. after[n] \in P[n]
  <2> HIDE DEF P, n, Step
  <2>1. QED
    BY <1>1, <1>7, <1>8, Follows
<1>10. n \in 0..n
  BY <1>1
<1>11. QED
  BY <1>1, <1>5, <1>9, <1>10 DEF Range, S

-----------------------------------------------------------------------------
(* The inductive invariant *)

ThreadType == [at : {"none", "idle", "report", "send"}, reports : Seq(Report)]

\* Only a thread that sends has reports.
ThreadInv ==
  /\ \A p \in Senders : thread[p].at # "send" => thread[p].reports = <<>>
  /\ thread["reporter"].at # "none"

\* A command that is not over is in one place only: the queue, or the hands of one
\* thread; and it is queued only when it does not count as acknowledged.  So
\* nothing is left of it in the history when it ends.
TaskList(reports) == [i \in DOMAIN reports |-> reports[i].task]
Held(p, t) == t \in Range(TaskList(thread[p].reports))
Single(t) ==
  /\ Once(send_queue, t) /\ Once(acknowledged_commands, t)
  /\ t \in Range(send_queue) => t \notin Range(acknowledged_commands)
  /\ \A p \in Senders :
       /\ Once(TaskList(thread[p].reports), t)
       /\ Held(p, t) => t \notin Range(send_queue) /\ \A q \in Senders : Held(q, t) => q = p
Absent(t) ==
  /\ t \notin Range(send_queue) /\ t \notin Range(acknowledged_commands)
  /\ \A p \in Senders : ~ Held(p, t)
SingleInv == \A t \in Tasks :
  /\ current_state[t] # "final" => Single(t)
  /\ current_state[t] = "none" => Absent(t)

\* Only what the executor has told is reported, and seen.
Told(reports) == \A r \in Range(reports) : r.status = "final" => current_state[r.task] = "final"
SeenInv ==
  /\ \A t \in Tasks : seen[t] = "final" => current_state[t] = "final"
  /\ \A p \in Senders : Told(thread[p].reports)
  /\ \A i \in DOMAIN inflight : Told(inflight[i])

\* No report in the reporter's hands, or on its way to the server, undoes one
\* before it, or what the server has seen.
After(a, b) ==
  \A r \in Range(a), q \in Range(b) :
     r.task = q.task /\ r.status = "final" => q.status = "final"
Later(a) == \A q \in Range(a) : seen[q.task] = "final" => q.status = "final"
OrderInv ==
  ~Stopping =>
    /\ After(thread["reporter"].reports, thread["reporter"].reports)
    /\ Later(thread["reporter"].reports)
    /\ \A i \in DOMAIN inflight :
         /\ After(inflight[i], thread["reporter"].reports)
         /\ Later(inflight[i])
         /\ \A j \in DOMAIN inflight : i <= j => After(inflight[i], inflight[j])

Inv == TypeOK /\ ThreadInv /\ SingleInv /\ FinalKept /\ SeenInv /\ OrderInv

LEMMA Typed ==
  ASSUME TypeOK
  PROVE  /\ thread \in [Senders -> ThreadType] /\ inflight \in Seq(Seq(Report))
         /\ DOMAIN inflight = 1..Len(inflight) /\ Len(inflight) \in Nat
         /\ \A i \in DOMAIN inflight : inflight[i] \in Seq(Report)
         /\ \A p \in Senders : thread[p] \in ThreadType /\ thread[p].reports \in Seq(Report)
         /\ send_queue \in Seq(Tasks) /\ acknowledged_commands \in Seq(Tasks)
         /\ current_state \in [Tasks -> Status]
<1>1. thread \in [Senders -> ThreadType] /\ inflight \in Seq(Seq(Report))
  BY DEF TypeOK, ThreadType
<1>2. \A p \in Senders : thread[p] \in ThreadType
  BY <1>1
<1>3. \A p \in Senders : thread[p].reports \in Seq(Report)
  BY <1>2 DEF ThreadType
<1>4. QED
  BY <1>1, <1>2, <1>3, LenProperties DEF TypeOK

LEMMA EndsIs ==
  ASSUME NEW reports
  PROVE  /\ \A t : t \in Ends(reports) <=>
                     \E r \in Range(reports) : r.task = t /\ r.status = "final"
         /\ reports \in Seq(Report) => Ends(reports) \subseteq Tasks
<1>1. \A t : t \in Ends(reports) <=> \E r \in Range(reports) : r.task = t /\ r.status = "final"
  BY DEF Ends
<1>2. ASSUME reports \in Seq(Report), NEW r \in Range(reports) PROVE r.task \in Tasks
  <2>1. r \in Report
    BY <1>2, RangeOf
  <2>2. QED
    BY <2>1 DEF Report
<1>3. QED
  BY <1>1, <1>2

LEMMA TaskListIs ==
  ASSUME NEW reports \in Seq(Report)
  PROVE  /\ TaskList(reports) \in Seq(Tasks) /\ DOMAIN TaskList(reports) = DOMAIN reports
         /\ \A i \in DOMAIN reports : TaskList(reports)[i] = reports[i].task
         /\ \A t : t \in Range(TaskList(reports)) <=> \E r \in Range(reports) : r.task = t
         /\ \A r \in Range(reports) : r.task \in Tasks /\ r.status \in Status
<1>1. DOMAIN reports = 1..Len(reports) /\ Len(reports) \in Nat
      /\ \A i \in DOMAIN reports : reports[i] \in Report
  BY LenProperties
<1>2. \A i \in DOMAIN reports : reports[i].task \in Tasks /\ reports[i].status \in Status
  BY <1>1 DEF Report
<1>3. TaskList(reports) \in [1..Len(reports) -> Tasks]
  BY <1>1, <1>2 DEF TaskList
<1>4. TaskList(reports) \in Seq(Tasks) /\ DOMAIN TaskList(reports) = DOMAIN reports
  BY <1>1, <1>3
<1>5. \A i \in DOMAIN reports : TaskList(reports)[i] = reports[i].task
  BY DEF TaskList
<1>6. QED
  BY <1>2, <1>4, <1>5 DEF Range

LEMMA NoTasks == Range(TaskList(<<>>)) = {} /\ \A t : Once(TaskList(<<>>), t)
BY EmptyRange DEF TaskList, Range, Once

\* What is sent first, and what is left.
IsSplit(reports, chunk, rest) ==
  /\ chunk \in Seq(Report) /\ rest \in Seq(Report)
  /\ \A r : r \in Range(reports) <=> r \in Range(chunk) \/ r \in Range(rest)
  /\ \A t : Once(TaskList(reports), t) =>
       /\ Once(TaskList(chunk), t) /\ Once(TaskList(rest), t)
       /\ ~ (t \in Range(TaskList(chunk)) /\ t \in Range(TaskList(rest)))

LEMMA Parts ==
  ASSUME NEW reports \in Seq(Report), NEW n \in 1..Len(reports), NEW chunk, NEW rest,
         chunk = SubSeq(reports, 1, n), rest = SubSeq(reports, n + 1, Len(reports))
  PROVE  IsSplit(reports, chunk, rest)
<1> DEFINE l == Len(reports)
<1>1. /\ l \in Nat /\ DOMAIN reports = 1..l /\ n \in Nat /\ n <= l
  BY LenProperties
<1>2. /\ n \in 0..Len(reports) /\ 1 \in Nat \ {0} /\ 1 <= n + 1
      /\ l \in 0..Len(reports) /\ n + 1 \in Nat \ {0} /\ n + 1 <= l + 1
  BY <1>1
<1>3. chunk \in Seq(Report) /\ rest \in Seq(Report)
  BY <1>2, SubRange
<1>4. /\ \A e : e \in Range(chunk) <=> \E i \in 1..n : reports[i] = e
      /\ \A e : e \in Range(rest) <=> \E i \in n + 1..l : reports[i] = e
  BY <1>2, SubRange
<1>5. DOMAIN chunk = 1..n /\ \A i \in 1..n : chunk[i] = reports[i]
  BY <1>1
<1>6. DOMAIN rest = 1..l - n /\ \A i \in 1..l - n : rest[i] = reports[i + n]
  BY <1>1
<1> HIDE DEF l
<1>7. \A r : r \in Range(reports) <=> r \in Range(chunk) \/ r \in Range(rest)
  <2>1. \A i : i \in 1..l <=> i \in 1..n \/ i \in n + 1..l
    BY <1>1
  <2>2. QED
    BY <1>1, <1>4, <2>1 DEF Range
<1> DEFINE c == TaskList(chunk)
           e == TaskList(rest)
<1>7a. /\ DOMAIN c = 1..n /\ \A i \in 1..n : c[i] = reports[i].task
       /\ \A t : t \in Range(c) <=> \E i \in 1..n : reports[i].task = t
  <2>1. DOMAIN c = DOMAIN chunk /\ \A i \in DOMAIN chunk : c[i] = chunk[i].task
    BY <1>3, TaskListIs
  <2> HIDE DEF c
  <2>2. DOMAIN c = 1..n /\ \A i \in 1..n : c[i] = reports[i].task
    BY <1>5, <2>1
  <2>3. QED
    BY <2>2 DEF Range
<1>7b. /\ DOMAIN e = 1..l - n /\ \A i \in 1..l - n : e[i] = reports[i + n].task
       /\ \A t : t \in Range(e) <=> \E i \in 1..l - n : reports[i + n].task = t
  <2>1. DOMAIN e = DOMAIN rest /\ \A i \in DOMAIN rest : e[i] = rest[i].task
    BY <1>3, TaskListIs
  <2> HIDE DEF e
  <2>2. DOMAIN e = 1..l - n /\ \A i \in 1..l - n : e[i] = reports[i + n].task
    BY <1>6, <2>1
  <2>3. QED
    BY <2>2 DEF Range
<1> HIDE DEF c, e
<1>8. ASSUME NEW t, Once(TaskList(reports), t)
      PROVE  /\ Once(TaskList(chunk), t) /\ Once(TaskList(rest), t)
             /\ ~ (t \in Range(TaskList(chunk)) /\ t \in Range(TaskList(rest)))
  <2>1. \A i, j \in 1..l : reports[i].task = t /\ reports[j].task = t => i = j
    BY <1>1, <1>8, TaskListIs DEF Once
  <2>2. Once(c, t)
    <3>1. \A i \in 1..n : i \in 1..l
      BY <1>1
    <3>2. QED
      BY <1>7a, <2>1, <3>1 DEF Once
  <2>3. \A i \in 1..l - n : i + n \in 1..l /\ i + n \notin 1..n
    BY <1>1
  <2>4. Once(e, t)
    <3>1. SUFFICES ASSUME NEW i \in 1..l - n, NEW j \in 1..l - n,
                          reports[i + n].task = t, reports[j + n].task = t
                   PROVE  i = j
      BY <1>7b DEF Once
    <3>2. i + n = j + n
      BY <2>1, <2>3, <3>1
    <3>3. QED
      BY <1>1, <3>2
  <2>5. ASSUME t \in Range(c), t \in Range(e) PROVE FALSE
    <3>1. PICK i \in 1..n : reports[i].task = t
      BY <1>7a, <2>5
    <3>2. PICK j \in 1..l - n : reports[j + n].task = t
      BY <1>7b, <2>5
    <3>3. i \in 1..l /\ i # j + n
      BY <1>1, <2>3
    <3>4. QED
      BY <2>1, <2>3, <3>1, <3>2, <3>3
  <2>6. QED
    BY <2>2, <2>4, <2>5 DEF c, e
<1>9. QED
  BY <1>3, <1>7, <1>8 DEF IsSplit

\* The queue after the tasks of a chunk have been put back.
IsQueued(queue, chunk) ==
  /\ queue \in Seq(Tasks)
  /\ \A t : t \in Range(queue) <=>
       \/ t \in Range(send_queue)
       \/ /\ t \in Range(TaskList(chunk)) /\ current_state[t] # "none"
          /\ t \notin Range(acknowledged_commands)
  /\ \A t : /\ Once(send_queue, t) /\ Once(TaskList(chunk), t)
            /\ ~ (t \in Range(send_queue) /\ t \in Range(TaskList(chunk)))
            => Once(queue, t)

LEMMA QueueAllIs ==
  ASSUME TypeOK, NEW chunk \in Seq(Report)
  PROVE  IsQueued(QueueAll(send_queue, chunk), chunk)
<1> DEFINE T == {t \in Tasks : current_state[t] # "none"} \ Range(acknowledged_commands)
           more == Kept(TaskList(chunk), T)
           queue == QueueAll(send_queue, chunk)
<1>1. queue = send_queue \o more
  BY DEF QueueAll, TaskList
<1>2. send_queue \in Seq(Tasks) /\ TaskList(chunk) \in Seq(Tasks)
  BY Typed, TaskListIs
<1>3. Range(TaskList(chunk)) \subseteq Tasks
  BY <1>2, RangeOf
<1> HIDE DEF T
<1>4. /\ more \in Seq(Tasks)
      /\ \A e : e \in Range(more) <=> e \in Range(TaskList(chunk)) /\ e \in T
      /\ \A e : Once(TaskList(chunk), e) => Once(more, e)
  BY <1>2, KeptIs
<1> HIDE DEF more, queue
<1>5. /\ queue \in Seq(Tasks)
      /\ \A e : e \in Range(queue) <=> e \in Range(send_queue) \/ e \in Range(more)
  BY <1>1, <1>2, <1>4, ConcatRange
<1>6. ASSUME NEW t, Once(send_queue, t), Once(TaskList(chunk), t),
             ~ (t \in Range(send_queue) /\ t \in Range(TaskList(chunk)))
      PROVE  Once(queue, t)
  BY <1>1, <1>2, <1>4, <1>6, ConcatOnce
<1>7. \A t : t \in Range(TaskList(chunk)) =>
        (t \in T <=> current_state[t] # "none" /\ t \notin Range(acknowledged_commands))
  BY <1>3 DEF T
<1>8. QED
  BY <1>4, <1>5, <1>6, <1>7 DEF IsQueued, queue

\* One of the two threads goes on.
LEMMA ThreadStep ==
  ASSUME TypeOK, NEW p \in Senders, NEW x \in ThreadType, thread' = [thread EXCEPT ![p] = x]
  PROVE  /\ thread' \in [Senders -> ThreadType] /\ thread'[p] = x
         /\ \A q \in Senders : q # p => thread'[q] = thread[q]
         /\ (x.at = "none" <=> thread[p].at = "none") => (Stopping' <=> Stopping)
<1>1. thread \in [Senders -> ThreadType]
  BY Typed
<1>2. /\ thread' \in [Senders -> ThreadType] /\ thread'[p] = x
      /\ \A q \in Senders : q # p => thread'[q] = thread[q]
  BY <1>1
<1>3. "shutdown" \in Senders
  BY DEF Senders
<1>4. QED
  BY <1>2, <1>3 DEF Stopping

\* What remains true when reports are sent or lost: those that are left were there
\* before, d places further on.
LEMMA Fewer ==
  ASSUME NEW d \in Nat, DOMAIN inflight' \subseteq Nat,
         \A i \in DOMAIN inflight' : i + d \in DOMAIN inflight /\ inflight'[i] = inflight[i + d],
         \A p \in Senders : Range(thread'[p].reports) \subseteq Range(thread[p].reports),
         seen' = seen, \A t \in Tasks : current_state[t] = "final" => current_state'[t] = "final",
         TypeOK, Stopping => Stopping'
  PROVE  /\ SeenInv => SeenInv'
         /\ OrderInv => OrderInv'
<1>0. /\ \A i \in DOMAIN inflight : \A r \in Range(inflight[i]) : r.task \in Tasks
      /\ \A p \in Senders : \A r \in Range(thread[p].reports) : r.task \in Tasks
  BY Typed, TaskListIs
<1>1. SeenInv => SeenInv'
  BY <1>0 DEF SeenInv, Told
<1>2. ASSUME OrderInv PROVE OrderInv'
  <2>1. \A i, j \in DOMAIN inflight' : i <= j => i + d <= j + d
    OBVIOUS
  <2>2. "reporter" \in Senders
    BY DEF Senders
  <2>3. ASSUME ~Stopping'
        PROVE  /\ After(thread["reporter"].reports, thread["reporter"].reports)'
               /\ Later(thread["reporter"].reports)'
    BY <1>2, <2>2, <2>3 DEF OrderInv, After, Later
  <2>4. ASSUME ~Stopping', NEW i \in DOMAIN inflight'
        PROVE  /\ After(inflight[i], thread["reporter"].reports)' /\ Later(inflight[i])'
               /\ \A j \in DOMAIN inflight' : i <= j => After(inflight[i], inflight[j])'
    <3>1. After(inflight[i], thread["reporter"].reports)'
      BY <1>2, <2>2, <2>4 DEF OrderInv, After
    <3>2. Later(inflight[i])'
      BY <1>2, <2>4 DEF OrderInv, Later
    <3>3. ASSUME NEW j \in DOMAIN inflight', i <= j PROVE After(inflight[i], inflight[j])'
      BY <1>2, <2>1, <2>4, <3>3 DEF OrderInv, After
    <3>4. QED
      BY <3>1, <3>2, <3>3
  <2>5. QED
    BY <2>3, <2>4 DEF OrderInv
<1>3. QED
  BY <1>1, <1>2

-----------------------------------------------------------------------------
(* The steps *)

LEMMA IdleIs ==
  /\ Idle \in ThreadType /\ Idle.reports = <<>> /\ Idle.at = "idle"
  /\ Range(<<>>) = {} /\ Ends(<<>>) = {}
BY EmptyRange DEF Idle, ThreadType, Ends

LEMMA InitInv == Init => Inv
<1>1. SUFFICES ASSUME Init PROVE Inv
  OBVIOUS
<1>2. [Idle EXCEPT !.at = "none"] \in ThreadType
      /\ [Idle EXCEPT !.at = "none"].reports = <<>> /\ [Idle EXCEPT !.at = "none"].at = "none"
  BY IdleIs DEF ThreadType
<1>3. /\ thread \in [Senders -> ThreadType] /\ \A p \in Senders : thread[p].reports = <<>>
      /\ thread["reporter"].at = "idle" /\ "reporter" \in Senders
  <2>1. thread = [p \in Senders |-> IF p = "reporter" THEN Idle ELSE [Idle EXCEPT !.at = "none"]]
    BY <1>1 DEF Init
  <2> HIDE DEF Idle
  <2>2. QED
    BY <1>2, <2>1, IdleIs DEF Senders
<1>4. /\ inflight = <<>> /\ DOMAIN inflight = {} /\ Range(<<>>) = {}
      /\ \A t \in Tasks : seen[t] = "none" /\ current_state[t] = "none"
      /\ send_queue = <<>> /\ acknowledged_commands = <<>>
  BY <1>1, EmptyRange DEF Init
<1>5. TypeOK
  <2>1. Len(<<>>) = 0 /\ <<>> \in Seq(Tasks) /\ <<>> \in Seq(Seq(Report))
    BY EmptySeq
  <2>2. 0 <= MaxHistory /\ 0 \in 0..MaxFaults
    BY ReportsAssumption
  <2>3. QED
    BY <1>1, <1>3, <2>1, <2>2 DEF Init, TypeOK, ThreadType, Status
<1>6. ThreadInv
  BY <1>3 DEF ThreadInv
<1>7. SingleInv
  <2>1. \A t : Once(<<>>, t)
    BY DEF Once
  <2>2. QED
    BY <1>3, <1>4, <2>1, NoTasks DEF SingleInv, Single, Absent, Held
<1>8. FinalKept
  BY <1>4 DEF FinalKept
<1>9. SeenInv /\ OrderInv
  BY <1>3, <1>4 DEF SeenInv, OrderInv, Told, After, Later
<1>10. QED
  BY <1>5, <1>6, <1>7, <1>8, <1>9 DEF Inv

LEMMA UpdateInv == ASSUME Inv, NEW t \in Tasks, Update(t) PROVE Inv'
<1> DEFINE s == IF current_state[t] = "none" THEN "IN_PROGRESS" ELSE "final"
           rest == RemoveFirst(send_queue, t)
           history == RemoveFirst(acknowledged_commands, t)
<1>1. /\ TypeOK /\ current_state[t] # "final"
      /\ current_state' = [current_state EXCEPT ![t] = s]
      /\ acknowledged_commands' = history
      /\ send_queue' = IF (s = "final" \/ report_ongoing_tasks)
                           /\ ~Contains(acknowledged_commands', t)
                       THEN Append(rest, t) ELSE rest
      /\ UNCHANGED <<is_registered, report_ongoing_tasks, thread, connection, inflight, seen,
                     learned, lost, faults>>
  BY DEF Update, Inv, config
<1>2. /\ send_queue \in Seq(Tasks) /\ acknowledged_commands \in Seq(Tasks)
      /\ Len(acknowledged_commands) <= MaxHistory /\ current_state \in [Tasks -> Status]
  BY <1>1 DEF TypeOK
<1>3. /\ rest \in Seq(Tasks) /\ \A e : e \in Range(rest) => e \in Range(send_queue)
      /\ \A e : e \in Range(send_queue) => e \in Range(rest) \/ e = t
      /\ \A e : Once(send_queue, e) => Once(rest, e)
      /\ Once(send_queue, t) => t \notin Range(rest)
  BY <1>2, RemoveRange
<1>4. /\ history \in Seq(Tasks) /\ Len(history) <= Len(acknowledged_commands)
      /\ \A e : e \in Range(history) => e \in Range(acknowledged_commands)
      /\ \A e : Once(acknowledged_commands, e) => Once(history, e)
      /\ Once(acknowledged_commands, t) => t \notin Range(history)
  BY <1>2, RemoveRange
<1> HIDE DEF rest, history
<1>5. s \in {"IN_PROGRESS", "final"} /\ (s = "IN_PROGRESS" <=> current_state[t] = "none")
  OBVIOUS
<1> HIDE DEF s
<1>6. /\ current_state' \in [Tasks -> Status] /\ current_state'[t] = s
      /\ \A u \in Tasks : u # t => current_state'[u] = current_state[u]
  BY <1>1, <1>2, <1>5 DEF Status
<1>7. Len(history) <= MaxHistory
  <2>1. Len(history) \in Nat /\ Len(acknowledged_commands) \in Nat
    BY <1>2, <1>4, LenProperties
  <2>2. QED
    BY <1>2, <1>4, <2>1, ReportsAssumption
<1>8a. SingleInv
  BY DEF Inv
<1>8. Single(t) /\ (current_state[t] = "none" => Absent(t))
  BY <1>1, <1>8a DEF SingleInv
<1>9. t \notin Range(rest) /\ t \notin Range(history) /\ ~Contains(history, t)
  BY <1>3, <1>4, <1>8, RangeOf DEF Single
<1>10. /\ Append(rest, t) \in Seq(Tasks)
       /\ \A e : e \in Range(Append(rest, t)) <=> e \in Range(rest) \/ e = t
       /\ \A e : Once(rest, e) => Once(Append(rest, t), e)
  <2>1. \A e : Once(rest, e) => Once(Append(rest, t), e)
    BY <1>3, <1>9, AppendOnce
  <2>2. QED
    BY <1>3, <2>1, AppendRange
<1>11. /\ send_queue' = rest \/ send_queue' = Append(rest, t)
       /\ s = "final" => send_queue' = Append(rest, t)
  BY <1>1, <1>9
<1>12. TypeOK'
  <2>1. send_queue' \in Seq(Tasks)
    BY <1>3, <1>10, <1>11
  <2>2. QED
    BY <1>1, <1>4, <1>6, <1>7, <2>1 DEF TypeOK
<1>13. ThreadInv'
  BY <1>1 DEF Inv, ThreadInv
<1>14. SingleInv'
  <2>1. ASSUME NEW u \in Tasks, u # t, current_state'[u] # "final" PROVE Single(u)'
    <3>1. Single(u)
      BY <1>6, <1>8a, <2>1 DEF SingleInv
    <3>2. \A e : e = u => /\ Once(send_queue', e)
                          /\ e \in Range(send_queue') => e \in Range(send_queue)
      BY <1>3, <1>10, <1>11, <2>1, <3>1 DEF Single
    <3>3. QED
      BY <1>1, <1>4, <3>1, <3>2 DEF Single, Held
  <2>2. ASSUME NEW u \in Tasks, u # t, current_state'[u] = "none" PROVE Absent(u)'
    <3>1. Absent(u)
      BY <1>6, <1>8a, <2>2 DEF SingleInv
    <3>2. u \notin Range(send_queue')
      BY <1>3, <1>10, <1>11, <2>2, <3>1 DEF Absent
    <3>3. QED
      BY <1>1, <1>4, <3>1, <3>2 DEF Absent, Held
  <2>3. ASSUME current_state'[t] # "final" PROVE Single(t)'
    <3>1. Absent(t)
      BY <1>5, <1>6, <1>8, <2>3
    <3>2. Once(send_queue', t)
      BY <1>3, <1>8, <1>10, <1>11 DEF Single
    <3>3. QED
      BY <1>1, <1>4, <1>8, <1>9, <3>1, <3>2 DEF Single, Absent, Held
  <2>4. current_state'[t] # "none"
    BY <1>5, <1>6
  <2>5. QED
    BY <2>1, <2>2, <2>3, <2>4 DEF SingleInv
<1>15. FinalKept'
  <2>1. ASSUME NEW u \in Tasks \ AutoTasks, current_state'[u] = "final", u \notin Range(send_queue')
        PROVE  \/ \E p \in Senders : u \in Ends(thread[p].reports)
               \/ \E i \in DOMAIN inflight : u \in Ends(inflight[i])
               \/ u \in learned \cup lost
    <3>1. u # t
      BY <1>6, <1>10, <1>11, <2>1
    <3>2. current_state[u] = "final" /\ u \notin Range(send_queue)
      BY <1>3, <1>6, <1>10, <1>11, <2>1, <3>1
    <3>3. QED
      BY <3>2 DEF Inv, FinalKept
  <2>2. QED
    BY <1>1, <2>1 DEF FinalKept, Ends
<1>16. SeenInv' /\ OrderInv'
  <2>1. DOMAIN inflight \subseteq Nat /\ \A i \in DOMAIN inflight : i + 0 = i
    BY <1>1, Typed
  <2>2. \A u \in Tasks : current_state[u] = "final" => current_state'[u] = "final"
    BY <1>1, <1>6
  <2>3. Stopping => Stopping'
    BY <1>1 DEF Stopping
  <2>4. SeenInv /\ OrderInv
    BY DEF Inv
  <2>5. QED
    BY <1>1, <2>1, <2>2, <2>3, <2>4, Fewer
<1>17. QED
  BY <1>12, <1>13, <1>14, <1>15, <1>16 DEF Inv

\* A thread goes on, and keeps no report but those it has.
LEMMA GoesOn ==
  ASSUME Inv, NEW p \in Senders, NEW x \in ThreadType, thread' = [thread EXCEPT ![p] = x],
         x.at # "none", thread[p].at = "none" => p = "shutdown",
         Range(x.reports) \subseteq Range(thread[p].reports),
         x.at # "send" => x.reports = <<>>,
         send_queue' \in Seq(Tasks), lost' \subseteq Tasks,
         UNCHANGED <<is_registered, report_ongoing_tasks, current_state, acknowledged_commands,
                     connection, inflight, seen, learned, faults>>
  PROVE  TypeOK' /\ ThreadInv' /\ SeenInv' /\ OrderInv'
<1>1. /\ thread' \in [Senders -> ThreadType] /\ thread'[p] = x
      /\ \A q \in Senders : q # p => thread'[q] = thread[q]
  BY ThreadStep DEF Inv
<1>2. TypeOK'
  BY <1>1 DEF Inv, TypeOK, ThreadType
<1>3. ThreadInv'
  <2>1. "reporter" \in Senders
    BY DEF Senders
  <2>2. QED
    BY <1>1, <2>1 DEF Inv, ThreadInv
<1>4. SeenInv' /\ OrderInv'
  <2>1. TypeOK /\ SeenInv /\ OrderInv
    BY DEF Inv
  <2>2. DOMAIN inflight \subseteq Nat /\ \A i \in DOMAIN inflight : i + 0 = i
    BY <2>1, Typed
  <2>3. \A q \in Senders : Range(thread'[q].reports) \subseteq Range(thread[q].reports)
    BY <1>1
  <2>4. Stopping => Stopping'
    <3>1. "shutdown" \in Senders
      BY DEF Senders
    <3>2. QED
      BY <1>1, <3>1 DEF Stopping
  <2>5. QED
    BY <2>1, <2>2, <2>3, <2>4, Fewer
<1>5. QED
  BY <1>2, <1>3, <1>4

\* A thread that has no reports starts to report, or to stop.
LEMMA Starts ==
  ASSUME Inv, NEW p \in Senders, NEW at \in {"idle", "report"},
         thread[p].at # "send", thread[p].at = "none" => p = "shutdown",
         thread' = [thread EXCEPT ![p].at = at],
         UNCHANGED <<is_registered, report_ongoing_tasks, current_state, send_queue,
                     acknowledged_commands, connection, inflight, seen, learned, lost, faults>>
  PROVE  Inv'
<1> DEFINE x == [thread[p] EXCEPT !.at = at]
<1>1. thread[p] \in ThreadType /\ thread[p].reports = <<>> /\ thread' = [thread EXCEPT ![p] = x]
  BY Typed DEF Inv, ThreadInv
<1>2. x \in ThreadType /\ x.at = at /\ x.reports = thread[p].reports
  BY <1>1 DEF ThreadType
<1> HIDE DEF x
<1>3. /\ thread'[p] = x /\ \A q \in Senders : q # p => thread'[q] = thread[q]
      /\ thread' \in [Senders -> ThreadType]
  BY <1>1, <1>2, ThreadStep DEF Inv
<1>4. send_queue' \in Seq(Tasks) /\ lost' \subseteq Tasks
  BY DEF Inv, TypeOK
<1>5. TypeOK' /\ ThreadInv' /\ SeenInv' /\ OrderInv'
  BY <1>1, <1>2, <1>4, GoesOn
<1>6. \A q \in Senders : thread'[q].reports = thread[q].reports
  BY <1>2, <1>3
<1>7. SingleInv'
  BY <1>6 DEF Inv, SingleInv, Single, Absent, Held
<1>8. FinalKept'
  BY <1>6 DEF Inv, FinalKept
<1>9. QED
  BY <1>5, <1>7, <1>8 DEF Inv

LEMMA CycleInv == ASSUME Inv, Cycle PROVE Inv'
<1>1. "reporter" \in Senders
  BY DEF Senders
<1>2. QED
  BY <1>1, Starts DEF Cycle, config, state

LEMMA ShutdownInv == ASSUME Inv, Shutdown PROVE Inv'
<1> DEFINE at == IF connection # "none" THEN "report" ELSE "idle"
<1>1. "shutdown" \in Senders /\ at \in {"idle", "report"}
  BY DEF Senders
<1>2. /\ thread["shutdown"].at = "none" /\ thread' = [thread EXCEPT !["shutdown"].at = at]
      /\ UNCHANGED <<is_registered, report_ongoing_tasks, current_state, send_queue,
                     acknowledged_commands, connection, inflight, seen, learned, lost, faults>>
  BY DEF Shutdown, Stopping, config, state
<1>3. PICK a \in {"idle", "report"} : a = at
  BY <1>1
<1> HIDE DEF at
<1>4. QED
  BY <1>1, <1>2, <1>3, Starts

\* The reports that are dropped are lost.
LEMMA SendFailsInv == ASSUME Inv, NEW p \in Senders, SendFails(p) \/ Skip(p) PROVE Inv'
<1>1. /\ thread[p].at = "send" /\ thread' = [thread EXCEPT ![p] = Idle]
      /\ lost' = lost \cup Ends(thread[p].reports)
      /\ UNCHANGED <<is_registered, report_ongoing_tasks, current_state, send_queue,
                     acknowledged_commands, connection, inflight, seen, learned, faults>>
  BY DEF SendFails, Skip, config, state
<1>2. TypeOK /\ thread[p].reports \in Seq(Report)
  BY Typed DEF Inv
<1>3. Ends(thread[p].reports) \subseteq Tasks
  BY <1>2, EndsIs
<1>4. send_queue' \in Seq(Tasks) /\ lost' \subseteq Tasks
  BY <1>1, <1>2, <1>3 DEF TypeOK
<1>5. /\ thread'[p] = Idle /\ \A q \in Senders : q # p => thread'[q] = thread[q]
  BY <1>1, <1>2, IdleIs, ThreadStep
<1>6. TypeOK' /\ ThreadInv' /\ SeenInv' /\ OrderInv'
  BY <1>1, <1>4, IdleIs, GoesOn
<1>7. /\ \A t : ~ Held(p, t)' /\ Once(TaskList(thread'[p].reports), t)
      /\ \A q \in Senders : q # p => \A t : Held(q, t)' <=> Held(q, t)
  BY <1>5, IdleIs, NoTasks DEF Held
<1>8. SingleInv'
  <2>1. ASSUME NEW t \in Tasks, Single(t) PROVE Single(t)'
    BY <1>1, <1>5, <1>7, <2>1 DEF Single
  <2>2. ASSUME NEW t \in Tasks, Absent(t) PROVE Absent(t)'
    BY <1>1, <1>7, <2>2 DEF Absent
  <2>3. SingleInv
    BY DEF Inv
  <2>4. QED
    BY <1>1, <2>1, <2>2, <2>3 DEF SingleInv
<1>9. FinalKept'
  BY <1>1, <1>5 DEF Inv, FinalKept
<1>10. QED
  BY <1>6, <1>8, <1>9 DEF Inv

\* The reports of a cycle: each task of the queue that is due, as it is told.
LEMMA GenerateInv == ASSUME Inv, NEW p \in Senders, Generate(p) PROVE Inv'
<1> DEFINE due == Due
           reports == [i \in DOMAIN due |-> [task |-> due[i], status |-> current_state[due[i]]]]
           history == acknowledged_commands \o due
           over == IF Len(history) > MaxHistory THEN Len(history) - MaxHistory ELSE 0
           x == IF reports = <<>> THEN Idle ELSE [at |-> "send", reports |-> reports]
<1>1. /\ thread[p].at = "report" /\ thread' = [thread EXCEPT ![p] = x]
      /\ acknowledged_commands' = SubSeq(history, over + 1, Len(history))
      /\ send_queue' = <<>>
      /\ UNCHANGED <<is_registered, report_ongoing_tasks, current_state, connection,
                     inflight, seen, learned, lost, faults>>
  BY DEF Generate, config
<1>2. /\ TypeOK /\ send_queue \in Seq(Tasks) /\ acknowledged_commands \in Seq(Tasks)
      /\ current_state \in [Tasks -> Status]
  BY DEF Inv, TypeOK
<1>2a. SingleInv /\ FinalKept
  BY DEF Inv
<1>3. /\ due \in Seq(Tasks)
      /\ \A t : t \in Range(due) <=>
                  t \in Range(send_queue) /\ t \in Tasks \ AutoTasks /\ current_state[t] # "none"
      /\ \A t : Once(send_queue, t) => Once(due, t)
  <2>1. /\ due \in Seq(Tasks)
        /\ \A e : e \in Range(due) <=>
                    e \in Range(send_queue)
                    /\ e \in {t \in Tasks \ AutoTasks : current_state[t] # "none"}
        /\ \A e : Once(send_queue, e) => Once(due, e)
    BY <1>2, KeptIs DEF Due
  <2> HIDE DEF due
  <2>2. QED
    BY <2>1
<1> HIDE DEF due
<1>4. DOMAIN due = 1..Len(due) /\ Len(due) \in Nat /\ \A i \in DOMAIN due : due[i] \in Tasks
  BY <1>3, LenProperties
<1>5. /\ reports \in Seq(Report) /\ TaskList(reports) = due
      /\ \A r \in Range(reports) : r.task \in Range(due) /\ r.status = current_state[r.task]
      /\ \A t \in Range(due) : \E r \in Range(reports) : r.task = t
  <2>1. reports \in [1..Len(due) -> Report]
    BY <1>2, <1>4 DEF Report
  <2>2. reports \in Seq(Report) /\ DOMAIN reports = DOMAIN due
    BY <1>4, <2>1
  <2>3. TaskList(reports) = [i \in DOMAIN due |-> due[i]]
    BY <2>2 DEF TaskList
  <2>4. due = [i \in DOMAIN due |-> due[i]]
    BY <1>3
  <2>5. QED
    BY <1>4, <2>2, <2>3, <2>4 DEF Range
<1> HIDE DEF reports
<1>6. /\ history \in Seq(Tasks)
      /\ \A e : e \in Range(history) <=> e \in Range(acknowledged_commands) \/ e \in Range(due)
      /\ \A e : /\ Once(acknowledged_commands, e) /\ Once(due, e)
                /\ ~ (e \in Range(acknowledged_commands) /\ e \in Range(due))
                => Once(history, e)
  <2>1. \A e : /\ Once(acknowledged_commands, e) /\ Once(due, e)
               /\ ~ (e \in Range(acknowledged_commands) /\ e \in Range(due))
               => Once(history, e)
    BY <1>2, <1>3, ConcatOnce
  <2>2. QED
    BY <1>2, <1>3, <2>1, ConcatRange
<1> HIDE DEF history
<1>7. DOMAIN history = 1..Len(history) /\ Len(history) \in Nat
  BY <1>6, LenProperties
<1>8. over \in Nat /\ over <= Len(history) /\ Len(history) - over <= MaxHistory
  BY <1>7, ReportsAssumption
<1> HIDE DEF over
<1>9. /\ acknowledged_commands' \in Seq(Tasks) /\ Len(acknowledged_commands') <= MaxHistory
      /\ \A e : e \in Range(acknowledged_commands') => e \in Range(history)
      /\ \A e : Once(history, e) => Once(acknowledged_commands', e)
  <2> DEFINE l == Len(history)
             g == SubSeq(history, over + 1, l)
  <2>1. over + 1 \in Nat \ {0} /\ l \in 0..Len(history) /\ over + 1 <= l + 1
    BY <1>7, <1>8
  <2>2. g \in Seq(Tasks) /\ Len(g) = (l - (over + 1)) + 1
    BY <1>6, <2>1, SubRange
  <2>3. \A e : e \in Range(g) <=> \E i \in over + 1..l : history[i] = e
    BY <1>6, <2>1, SubRange
  <2>4. \A e : Once(history, e) => Once(g, e)
    BY <1>6, <2>1, SubOnce
  <2>5. acknowledged_commands' = g
    BY <1>1
  <2> HIDE DEF g
  <2>6. \A i \in over + 1..l : history[i] \in Range(history)
    BY <1>7, <1>8 DEF Range
  <2>7. (l - (over + 1)) + 1 = l - over
    BY <1>7, <1>8
  <2> HIDE DEF l
  <2>8. QED
    BY <1>8, <2>2, <2>3, <2>4, <2>5, <2>6, <2>7 DEF l
<1>10. /\ x \in ThreadType /\ x.reports = reports /\ x.at # "none"
       /\ x.at # "send" => x.reports = <<>>
  <2>1. CASE reports = <<>>
    BY <2>1, IdleIs
  <2>2. CASE reports # <<>>
    BY <1>5, <2>2 DEF ThreadType
  <2>3. QED
    BY <2>1, <2>2
<1> HIDE DEF x
<1>11. /\ thread' \in [Senders -> ThreadType] /\ thread'[p] = x
       /\ \A q \in Senders : q # p => thread'[q] = thread[q]
       /\ Stopping' <=> Stopping
  BY <1>1, <1>2, <1>10, ThreadStep
<1>12. TypeOK'
  <2>1. send_queue' \in Seq(Tasks)
    BY <1>1, EmptyRange
  <2>2. QED
    BY <1>1, <1>2, <1>9, <1>11, <2>1 DEF TypeOK, ThreadType
<1>13. ThreadInv'
  <2>1. "reporter" \in Senders
    BY DEF Senders
  <2>2. QED
    BY <1>10, <1>11, <2>1 DEF Inv, ThreadInv
<1>14. /\ Range(send_queue') = {} /\ \A t : Once(send_queue', t)
       /\ \A t : Held(p, t)' <=> t \in Range(due)
       /\ \A q \in Senders : q # p => \A t : Held(q, t)' <=> Held(q, t)
       /\ TaskList(thread'[p].reports) = due
  <2>1. TaskList(thread'[p].reports) = due
    BY <1>5, <1>10, <1>11
  <2>2. \A t : Held(p, t)' <=> t \in Range(due)
    BY <2>1 DEF Held
  <2>3. \A q \in Senders : q # p => \A t : Held(q, t)' <=> Held(q, t)
    BY <1>11 DEF Held
  <2>4. QED
    BY <1>1, <2>1, <2>2, <2>3, EmptyRange DEF Once
<1>15. SingleInv'
  <2>1. ASSUME NEW t \in Tasks, Single(t) PROVE Single(t)'
    <3>1. Once(acknowledged_commands', t)
      BY <1>3, <1>6, <1>9, <2>1 DEF Single
    <3>2. ASSUME NEW q \in Senders, Held(q, t)', NEW o \in Senders, Held(o, t)' PROVE o = q
      BY <1>3, <1>14, <2>1, <3>2 DEF Single
    <3>3. \A q \in Senders : Once(TaskList(thread'[q].reports), t)
      BY <1>3, <1>11, <1>14, <2>1 DEF Single
    <3>4. QED
      BY <1>14, <3>1, <3>2, <3>3 DEF Single
  <2>2. ASSUME NEW t \in Tasks, Absent(t) PROVE Absent(t)'
    BY <1>3, <1>6, <1>9, <1>14, <2>2 DEF Absent
  <2>3. QED
    BY <1>1, <1>2a, <2>1, <2>2 DEF SingleInv
<1>16. thread[p].reports = <<>>
  BY <1>1 DEF Inv, ThreadInv
<1>17. FinalKept'
  <2>1. SUFFICES ASSUME NEW t \in Tasks \ AutoTasks, current_state[t] = "final"
                 PROVE  \/ \E q \in Senders : t \in Ends(thread'[q].reports)
                        \/ \E i \in DOMAIN inflight : t \in Ends(inflight[i])
                        \/ t \in learned \cup lost
    BY <1>1 DEF FinalKept, Ends
  <2>2. CASE t \in Range(send_queue)
    <3>1. PICK r \in Range(reports) : r.task = t
      BY <1>3, <1>5, <2>1, <2>2
    <3>2. t \in Ends(reports)
      BY <1>5, <2>1, <3>1, EndsIs
    <3>3. QED
      BY <1>10, <1>11, <3>2
  <2>3. CASE \E q \in Senders : t \in Ends(thread[q].reports)
    <3>1. PICK q \in Senders : t \in Ends(thread[q].reports)
      BY <2>3
    <3>2. q # p
      BY <1>16, <3>1, IdleIs
    <3>3. QED
      BY <1>11, <3>1, <3>2
  <2>4. QED
    BY <1>2a, <2>1, <2>2, <2>3 DEF FinalKept
<1>18. \A r \in Range(reports) : r.task \in Tasks /\ r.status = current_state[r.task]
  BY <1>3, <1>5
<1>19. SeenInv'
  <2>1. Told(reports)
    BY <1>18 DEF Told
  <2>2. QED
    BY <1>1, <1>10, <1>11, <2>1 DEF Inv, SeenInv, Told
<1>20. OrderInv'
  <2>1. SUFFICES ASSUME ~Stopping'
        PROVE  /\ After(thread["reporter"].reports, thread["reporter"].reports)'
               /\ Later(thread["reporter"].reports)'
               /\ \A i \in DOMAIN inflight' :
                    /\ After(inflight[i], thread["reporter"].reports)' /\ Later(inflight[i])'
                    /\ \A j \in DOMAIN inflight' : i <= j => After(inflight[i], inflight[j])'
    BY DEF OrderInv
  <2>2. p = "reporter"
    BY <1>1, <1>11, <2>1 DEF Senders, Stopping
  <2>3. thread'["reporter"].reports = reports
    BY <1>10, <1>11, <2>2
  <2>4. After(reports, reports)
    BY <1>18 DEF After
  <2>5. \A q \in Range(reports) : seen'[q.task] = "final" => q.status = "final"
    BY <1>1, <1>18 DEF Inv, SeenInv
  <2>6. \A i \in DOMAIN inflight : After(inflight[i], reports)
    BY <1>18 DEF Inv, SeenInv, Told, After
  <2>7. \A i \in DOMAIN inflight :
          Later(inflight[i]) /\ \A j \in DOMAIN inflight : i <= j => After(inflight[i], inflight[j])
    BY <1>11, <2>1 DEF Inv, OrderInv
  <2>8. /\ After(thread["reporter"].reports, thread["reporter"].reports)'
        /\ Later(thread["reporter"].reports)'
    BY <1>1, <2>3, <2>4, <2>5 DEF After, Later
  <2>9. \A i \in DOMAIN inflight' :
          /\ After(inflight[i], thread["reporter"].reports)' /\ Later(inflight[i])'
          /\ \A j \in DOMAIN inflight' : i <= j => After(inflight[i], inflight[j])'
    BY <1>1, <2>3, <2>6, <2>7 DEF After, Later
  <2>10. QED
    BY <2>8, <2>9
<1>21. QED
  BY <1>12, <1>13, <1>15, <1>17, <1>19, <1>20 DEF Inv

LEMMA DoneIs ==
  ASSUME NEW rest \in Seq(Report)
  PROVE  /\ Done(rest) \in ThreadType /\ Done(rest).reports = rest /\ Done(rest).at # "none"
         /\ Done(rest).at # "send" => Done(rest).reports = <<>>
BY IdleIs DEF Done, ThreadType

LEMMA SendInv == ASSUME Inv, NEW p \in Senders, Send(p) PROVE Inv'
<1> DEFINE reports == thread[p].reports
<1>1. /\ thread[p].at = "send" /\ TypeOK /\ reports \in Seq(Report)
      /\ UNCHANGED <<is_registered, report_ongoing_tasks, current_state,
                     acknowledged_commands, connection, seen, learned, faults>>
  BY Typed DEF Send, Inv, config
<1> DEFINE Goes(n, chunk, rest) ==
        /\ chunk = SubSeq(reports, 1, n) /\ rest = SubSeq(reports, n + 1, Len(reports))
        /\ thread' = [thread EXCEPT ![p] = Done(rest)]
        /\ \/ /\ inflight' = Append(inflight, chunk)
              /\ UNCHANGED <<send_queue, lost>>
           \/ /\ lost' = lost \cup Ends(chunk)
              /\ UNCHANGED <<inflight, send_queue>>
           \/ /\ send_queue' = QueueAll(send_queue, chunk)
              /\ lost' = lost \cup (Ends(chunk) \cap Range(acknowledged_commands))
              /\ UNCHANGED inflight
<1>2. PICK n \in 1..Len(reports) : \E chunk, rest : Goes(n, chunk, rest)
  BY DEF Send
<1>3. PICK chunk, rest : Goes(n, chunk, rest)
  BY <1>2
<1>4. IsSplit(reports, chunk, rest)
  <2> HIDE DEF reports
  <2>1. chunk = SubSeq(reports, 1, n) /\ rest = SubSeq(reports, n + 1, Len(reports))
    BY <1>3
  <2>2. QED
    BY <1>1, <2>1, Parts
<1>4a. /\ chunk \in Seq(Report) /\ rest \in Seq(Report)
       /\ \A r : r \in Range(reports) <=> r \in Range(chunk) \/ r \in Range(rest)
  BY <1>4 DEF IsSplit
<1>5. PICK x \in ThreadType : x = Done(rest)
  BY <1>4a, DoneIs
<1>6. /\ x.reports = rest /\ x.at # "none" /\ (x.at # "send" => x.reports = <<>>)
      /\ thread' = [thread EXCEPT ![p] = x]
  BY <1>3, <1>4a, <1>5, DoneIs
<1>7. /\ thread' \in [Senders -> ThreadType] /\ thread'[p] = x
      /\ \A q \in Senders : q # p => thread'[q] = thread[q]
      /\ Stopping' <=> Stopping
  BY <1>1, <1>6, ThreadStep
<1>8. /\ TaskList(reports) \in Seq(Tasks)
      /\ \A t : Held(p, t) <=> t \in Range(TaskList(chunk)) \/ t \in Range(TaskList(rest))
      /\ \A t : Held(p, t)' <=> t \in Range(TaskList(rest))
      /\ \A q \in Senders : q # p => \A t : Held(q, t)' <=> Held(q, t)
      /\ TaskList(thread'[p].reports) = TaskList(rest)
  <2>1. \A t : Held(p, t) <=> \E r \in Range(reports) : r.task = t
    BY <1>1, TaskListIs DEF Held
  <2>2. \A t : /\ t \in Range(TaskList(chunk)) <=> \E r \in Range(chunk) : r.task = t
               /\ t \in Range(TaskList(rest)) <=> \E r \in Range(rest) : r.task = t
    BY <1>4a, TaskListIs
  <2>3. \A t : Held(p, t) <=> t \in Range(TaskList(chunk)) \/ t \in Range(TaskList(rest))
    BY <1>4a, <2>1, <2>2
  <2>4. QED
    BY <1>1, <1>6, <1>7, <2>3, TaskListIs DEF Held
<1>9. \A t : t \in Ends(reports) <=> t \in Ends(chunk) \/ t \in Ends(rest)
  BY <1>4a, EndsIs
<1>10. Ends(chunk) \subseteq Tasks /\ \A t : t \in Ends(chunk) => t \in Range(TaskList(chunk))
  BY <1>4a, EndsIs, TaskListIs
<1>11. /\ IsQueued(QueueAll(send_queue, chunk), chunk)
  BY <1>1, <1>4a, QueueAllIs
<1>12. /\ send_queue' \in Seq(Tasks) /\ lost' \subseteq Tasks
       /\ send_queue' = send_queue \/ IsQueued(send_queue', chunk)
  <2>1. IsQueued(QueueAll(send_queue, chunk), chunk) => QueueAll(send_queue, chunk) \in Seq(Tasks)
    BY DEF IsQueued
  <2>2. QED
    BY <1>1, <1>3, <1>10, <1>11, <2>1 DEF TypeOK
<1>13. SingleInv'
  <2>1. ASSUME NEW t \in Tasks, Single(t) PROVE Single(t)'
    <3>1. /\ Once(TaskList(chunk), t) /\ Once(TaskList(rest), t)
          /\ ~ (t \in Range(TaskList(chunk)) /\ t \in Range(TaskList(rest)))
      BY <1>4, <2>1 DEF Single, IsSplit
    <3>2. /\ Held(p, t) => t \notin Range(send_queue)
          /\ \A q \in Senders : Held(q, t) => \A o \in Senders : Held(o, t) => o = q
      BY <2>1 DEF Single
    <3>3. Once(send_queue', t)
      BY <1>8, <1>12, <2>1, <3>1, <3>2 DEF Single, IsQueued
    <3>4. t \in Range(send_queue') => t \notin Range(acknowledged_commands)
      BY <1>12, <2>1 DEF Single, IsQueued
    <3>5. \A q \in Senders : Once(TaskList(thread'[q].reports), t)
      BY <1>7, <1>8, <2>1, <3>1 DEF Single
    <3>6. ASSUME NEW q \in Senders, Held(q, t)' PROVE t \notin Range(send_queue')
      <4>1. Held(q, t)
        BY <1>8, <3>6
      <4>2. t \notin Range(send_queue)
        BY <2>1, <4>1 DEF Single
      <4>3. t \notin Range(TaskList(chunk))
        BY <1>8, <3>1, <3>2, <3>6, <4>1
      <4>4. QED
        BY <1>12, <4>2, <4>3 DEF IsQueued
    <3>7. ASSUME NEW q \in Senders, Held(q, t)', NEW o \in Senders, Held(o, t)' PROVE o = q
      BY <1>8, <3>2, <3>7
    <3>8. \A q \in Senders : Held(q, t)' =>
            t \notin Range(send_queue') /\ \A o \in Senders : Held(o, t)' => o = q
      BY <3>6, <3>7
    <3>9. Once(acknowledged_commands', t)
      BY <1>1, <2>1 DEF Single
    <3> HIDE DEF reports
    <3>10. QED
      BY <1>1, <3>3, <3>4, <3>5, <3>8, <3>9 DEF Single
  <2>2. ASSUME NEW t \in Tasks, Absent(t) PROVE Absent(t)'
    <3>1. t \notin Range(TaskList(chunk))
      BY <1>8, <2>2 DEF Absent
    <3>2. t \notin Range(send_queue')
      BY <1>12, <2>2, <3>1 DEF Absent, IsQueued
    <3>3. \A q \in Senders : ~ Held(q, t)'
      BY <1>8, <2>2 DEF Absent
    <3>4. QED
      BY <1>1, <2>2, <3>2, <3>3 DEF Absent
  <2>3. SingleInv
    BY DEF Inv
  <2>4. QED
    BY <1>1, <2>1, <2>2, <2>3 DEF SingleInv
<1>14. CASE inflight' = Append(inflight, chunk) /\ UNCHANGED <<send_queue, lost>>
  <2> DEFINE l == Len(inflight)
  <2>1. /\ inflight \in Seq(Seq(Report)) /\ l \in Nat /\ DOMAIN inflight = 1..l
    BY <1>1, Typed
  <2>2. /\ inflight' \in Seq(Seq(Report)) /\ DOMAIN inflight' = 1..l + 1
        /\ inflight'[l + 1] = chunk /\ \A i \in 1..l : inflight'[i] = inflight[i]
    BY <1>4a, <1>14, <2>1, AppendProperties, LenProperties
  <2> HIDE DEF l
  <2>3. \A i \in DOMAIN inflight' : i \in DOMAIN inflight \/ i = l + 1
    BY <2>1, <2>2
  <2>4. TypeOK'
    BY <1>1, <1>7, <1>14, <2>2 DEF TypeOK, ThreadType
  <2>5. ThreadInv'
    <3>1. "reporter" \in Senders
      BY DEF Senders
    <3>2. QED
      BY <1>6, <1>7, <3>1 DEF Inv, ThreadInv
  <2>6. FinalKept'
    <3>1. SUFFICES ASSUME NEW t \in Tasks \ AutoTasks, current_state[t] = "final",
                          t \notin Range(send_queue), t \notin learned \cup lost
                   PROVE  \/ \E q \in Senders : t \in Ends(thread'[q].reports)
                          \/ \E i \in DOMAIN inflight' : t \in Ends(inflight'[i])
      BY <1>1, <1>14 DEF FinalKept, Ends
    <3>2. CASE \E i \in DOMAIN inflight : t \in Ends(inflight[i])
      <4>1. PICK i \in DOMAIN inflight : t \in Ends(inflight[i])
        BY <3>2
      <4>2. i \in DOMAIN inflight' /\ inflight'[i] = inflight[i]
        BY <2>1, <2>2
      <4>3. t \in Ends(inflight'[i])
        BY <4>1, <4>2
      <4>4. QED
        BY <4>2, <4>3
    <3>3. CASE \E q \in Senders : t \in Ends(thread[q].reports)
      <4>1. PICK q \in Senders : t \in Ends(thread[q].reports)
        BY <3>3
      <4>2. CASE q = p /\ t \in Ends(chunk)
        <5>1. l + 1 \in DOMAIN inflight' /\ inflight'[l + 1] = chunk
          BY <2>1, <2>2
        <5>2. t \in Ends(inflight'[l + 1])
          BY <4>2, <5>1
        <5>3. QED
          BY <5>1, <5>2
      <4>3. CASE q = p /\ t \in Ends(rest)
        BY <1>6, <1>7, <4>3
      <4>4. CASE q # p
        BY <1>7, <4>1, <4>4
      <4>5. QED
        BY <1>9, <4>1, <4>2, <4>3, <4>4
    <3>4. FinalKept
      BY DEF Inv
    <3>5. QED
      BY <3>1, <3>2, <3>3, <3>4 DEF FinalKept
  <2>7. SeenInv'
    <3>1. Told(chunk)
      BY <1>4a DEF Inv, SeenInv, Told
    <3>2. \A q \in Senders : Told(thread'[q].reports)
      BY <1>4a, <1>6, <1>7 DEF Inv, SeenInv, Told
    <3>3. \A i \in DOMAIN inflight' : Told(inflight'[i])
      BY <2>1, <2>2, <2>3, <3>1 DEF Inv, SeenInv
    <3>4. QED
      BY <1>1, <3>2, <3>3 DEF Inv, SeenInv, Told
  <2>8. OrderInv'
    <3>1. SUFFICES ASSUME ~Stopping'
          PROVE  /\ After(thread["reporter"].reports, thread["reporter"].reports)'
                 /\ Later(thread["reporter"].reports)'
                 /\ \A i \in DOMAIN inflight' :
                      /\ After(inflight[i], thread["reporter"].reports)' /\ Later(inflight[i])'
                      /\ \A j \in DOMAIN inflight' : i <= j => After(inflight[i], inflight[j])'
      BY DEF OrderInv
    <3>2. p = "reporter"
      BY <1>1, <1>7, <3>1 DEF Senders, Stopping
    <3>3. thread'["reporter"].reports = rest
      BY <1>6, <1>7, <3>2
    <3>4. /\ After(reports, reports) /\ Later(reports)
          /\ \A i \in DOMAIN inflight : After(inflight[i], reports)
      BY <1>7, <3>1, <3>2 DEF Inv, OrderInv
    <3>5. /\ After(rest, rest) /\ Later(rest) /\ After(chunk, chunk) /\ After(chunk, rest)
          /\ Later(chunk)
          /\ \A i \in DOMAIN inflight : After(inflight[i], rest) /\ After(inflight[i], chunk)
      BY <1>4a, <3>4 DEF After, Later
    <3>6. \A i \in DOMAIN inflight' : After(inflight'[i], rest)
      BY <2>1, <2>2, <2>3, <3>5
    <3>7. \A i \in DOMAIN inflight' : Later(inflight'[i])
      BY <1>7, <2>1, <2>2, <2>3, <3>1, <3>5 DEF Inv, OrderInv
    <3>8. ASSUME NEW i \in DOMAIN inflight', NEW j \in DOMAIN inflight', i <= j
          PROVE  After(inflight'[i], inflight'[j])
      <4>1. CASE j \in DOMAIN inflight
        <5>1. i \in DOMAIN inflight
          BY <2>1, <2>2, <3>8, <4>1
        <5>2. QED
          BY <1>7, <2>1, <2>2, <3>1, <3>8, <4>1, <5>1 DEF Inv, OrderInv
      <4>2. CASE j = l + 1
        BY <2>1, <2>2, <2>3, <3>5, <4>2
      <4>3. QED
        BY <2>3, <4>1, <4>2
    <3>9. /\ After(thread["reporter"].reports, thread["reporter"].reports)'
          /\ Later(thread["reporter"].reports)'
      BY <1>1, <3>3, <3>5 DEF After, Later
    <3>10. \A i \in DOMAIN inflight' :
             /\ After(inflight[i], thread["reporter"].reports)' /\ Later(inflight[i])'
             /\ \A j \in DOMAIN inflight' : i <= j => After(inflight[i], inflight[j])'
      BY <1>1, <3>3, <3>6, <3>7, <3>8 DEF After, Later
    <3>11. QED
      BY <3>9, <3>10
  <2>9. QED
    BY <1>13, <2>4, <2>5, <2>6, <2>7, <2>8 DEF Inv
<1>15. CASE UNCHANGED inflight
  <2>1. Range(x.reports) \subseteq Range(thread[p].reports)
    BY <1>4a, <1>6
  <2>2. TypeOK' /\ ThreadInv' /\ SeenInv' /\ OrderInv'
    BY <1>1, <1>6, <1>12, <1>15, <2>1, GoesOn
  <2>3. CASE inflight' = Append(inflight, chunk) /\ UNCHANGED <<send_queue, lost>>
    BY <1>14, <2>3
  <2>4. CASE ~ (inflight' = Append(inflight, chunk) /\ UNCHANGED <<send_queue, lost>>)
    <3>1. \A t \in Ends(chunk) : current_state[t] = "final" =>
            t \in Range(send_queue') \/ t \in lost'
      BY <1>3, <1>10, <1>11, <2>4 DEF IsQueued
    <3>2. lost \subseteq lost' /\ Range(send_queue) \subseteq Range(send_queue')
      BY <1>3, <1>12 DEF IsQueued
    <3>3. ASSUME NEW t \in Tasks \ AutoTasks, current_state[t] = "final",
                 t \notin Range(send_queue'), t \notin learned \cup lost'
          PROVE  \/ \E q \in Senders : t \in Ends(thread'[q].reports)
                 \/ \E i \in DOMAIN inflight : t \in Ends(inflight[i])
      <4>1. \/ \E q \in Senders : t \in Ends(thread[q].reports)
            \/ \E i \in DOMAIN inflight : t \in Ends(inflight[i])
        BY <3>2, <3>3 DEF Inv, FinalKept
      <4>2. CASE \E q \in Senders : t \in Ends(thread[q].reports)
        <5>1. PICK q \in Senders : t \in Ends(thread[q].reports)
          BY <4>2
        <5>2. CASE q = p
          <6>1. t \in Ends(rest)
            BY <1>9, <3>1, <3>3, <5>1, <5>2
          <6>2. QED
            BY <1>6, <1>7, <6>1
        <5>3. CASE q # p
          BY <1>7, <5>1, <5>3
        <5>4. QED
          BY <5>2, <5>3
      <4>3. QED
        BY <4>1, <4>2
    <3>4. FinalKept'
      BY <1>1, <1>15, <3>3 DEF FinalKept, Ends
    <3>5. QED
      BY <1>13, <2>2, <3>4 DEF Inv
  <2>5. QED
    BY <2>3, <2>4
<1>16. QED
  BY <1>3, <1>14, <1>15

LEMMA TailIs ==
  ASSUME TypeOK, inflight # <<>>
  PROVE  /\ Tail(inflight) \in Seq(Seq(Report)) /\ 1 \in DOMAIN inflight
         /\ Head(inflight) = inflight[1] /\ inflight[1] \in Seq(Report)
         /\ \A i \in DOMAIN Tail(inflight) :
              /\ i \in Nat \ {0} /\ i + 1 \in DOMAIN inflight
              /\ Tail(inflight)[i] = inflight[i + 1]
         /\ \A i \in DOMAIN inflight :
              i = 1 \/ (i - 1 \in DOMAIN Tail(inflight) /\ Tail(inflight)[i - 1] = inflight[i])
<1> DEFINE l == Len(inflight)
           s == Tail(inflight)
<1>1. /\ inflight \in Seq(Seq(Report)) /\ l \in Nat /\ DOMAIN inflight = 1..l
      /\ \A i \in DOMAIN inflight : inflight[i] \in Seq(Report)
  BY Typed
<1>2. l # 0
  BY <1>1, EmptySeq
<1>3. /\ s \in Seq(Seq(Report)) /\ Len(s) = l - 1 /\ Head(inflight) = inflight[1]
      /\ \A i \in 1..Len(s) : s[i] = inflight[i + 1]
  BY <1>1, HeadTailProperties
<1>4. DOMAIN s = 1..l - 1
  BY <1>3, LenProperties
<1> HIDE DEF s, l
<1>5. \A i \in 1..l - 1 : i \in Nat \ {0} /\ i + 1 \in 1..l /\ s[i] = inflight[i + 1]
  BY <1>1, <1>3
<1>6. \A i \in 1..l : i = 1 \/ (i - 1 \in 1..l - 1 /\ s[i - 1] = inflight[i])
  <2>1. ASSUME NEW i \in 1..l, i # 1 PROVE i - 1 \in 1..l - 1 /\ (i - 1) + 1 = i
    BY <1>1, <2>1
  <2>2. QED
    BY <1>5, <2>1
<1>7. 1 \in 1..l
  BY <1>1, <1>2
<1>8. QED
  BY <1>1, <1>3, <1>4, <1>5, <1>6, <1>7 DEF s

LEMMA ServeInv == ASSUME Inv, Serve PROVE Inv'
<1> DEFINE chunk == inflight[1]
<1>1. /\ TypeOK /\ inflight # <<>> /\ inflight' = Tail(inflight)
      /\ \/ /\ seen' = Learned(Head(inflight)) /\ learned' = learned \cup Ends(Head(inflight))
            /\ UNCHANGED <<lost, faults>>
         \/ /\ faults < MaxFaults /\ faults' = faults + 1
            /\ lost' = lost \cup Ends(Head(inflight)) /\ UNCHANGED <<seen, learned>>
      /\ UNCHANGED <<is_registered, report_ongoing_tasks, current_state, send_queue,
                     acknowledged_commands, thread, connection>>
  BY DEF Serve, Inv, config, state
<1>2. /\ inflight' \in Seq(Seq(Report)) /\ 1 \in DOMAIN inflight
      /\ Head(inflight) = chunk /\ chunk \in Seq(Report)
      /\ \A i \in DOMAIN inflight' :
           /\ i \in Nat \ {0} /\ i + 1 \in DOMAIN inflight /\ inflight'[i] = inflight[i + 1]
      /\ \A i \in DOMAIN inflight :
           i = 1 \/ (i - 1 \in DOMAIN inflight' /\ inflight'[i - 1] = inflight[i])
  BY <1>1, TailIs
<1> HIDE DEF chunk
<1>3. Ends(chunk) \subseteq Tasks /\ \A r \in Range(chunk) : r.task \in Tasks
  BY <1>2, EndsIs, TaskListIs
<1>4. /\ seen' \in [Tasks -> Status]
      /\ \A t \in Tasks : \/ seen'[t] = seen[t]
                         \/ \E r \in Range(chunk) : r.task = t /\ seen'[t] = r.status
  <2>1. seen \in [Tasks -> Status]
    BY <1>1 DEF TypeOK
  <2>2. CASE seen' = Learned(chunk)
    BY <1>2, <2>1, <2>2, LearnedIs
  <2>3. QED
    BY <1>1, <1>2, <2>1, <2>2
<1>5. TypeOK'
  <2>1. faults' \in 0..MaxFaults
    <3>1. faults \in 0..MaxFaults /\ MaxFaults \in Nat
      BY <1>1, ReportsAssumption DEF TypeOK
    <3>2. faults' = faults \/ (faults < MaxFaults /\ faults' = faults + 1)
      BY <1>1
    <3>3. QED
      BY <3>1, <3>2
  <2>2. QED
    BY <1>1, <1>2, <1>3, <1>4, <2>1 DEF TypeOK
<1>6. ThreadInv' /\ SingleInv'
  <2>1. ThreadInv'
    BY <1>1 DEF Inv, ThreadInv
  <2>2. SingleInv'
    BY <1>1 DEF Inv, SingleInv, Single, Absent, Held
  <2>3. QED
    BY <2>1, <2>2
<1>7. FinalKept'
  <2>1. SUFFICES ASSUME NEW t \in Tasks \ AutoTasks, current_state[t] = "final",
                        t \notin Range(send_queue), t \notin (learned \cup lost)',
                        \A q \in Senders : t \notin Ends(thread[q].reports)
                 PROVE  \E i \in DOMAIN inflight' : t \in Ends(inflight'[i])
    BY <1>1 DEF FinalKept
  <2>2. t \notin Ends(chunk) /\ t \notin learned \cup lost
    BY <1>1, <1>2, <2>1
  <2>3. FinalKept
    BY DEF Inv
  <2>4. PICK i \in DOMAIN inflight : t \in Ends(inflight[i])
    BY <2>1, <2>2, <2>3 DEF FinalKept
  <2>5. i # 1
    BY <2>2, <2>4 DEF chunk
  <2>6. i - 1 \in DOMAIN inflight' /\ inflight'[i - 1] = inflight[i]
    BY <1>2, <2>5
  <2>7. t \in Ends(inflight'[i - 1])
    BY <2>4, <2>6
  <2>8. QED
    BY <2>6, <2>7
<1>8. SeenInv'
  <2>1. Told(chunk)
    BY <1>2 DEF Inv, SeenInv, chunk
  <2>2. \A t \in Tasks : seen'[t] = "final" => current_state'[t] = "final"
    BY <1>1, <1>4, <2>1 DEF Inv, SeenInv, Told
  <2>3. \A i \in DOMAIN inflight' : Told(inflight'[i])
    BY <1>2 DEF Inv, SeenInv
  <2>4. \A p \in Senders : Told(thread[p].reports)
    BY DEF Inv, SeenInv
  <2>5. QED
    BY <1>1, <2>2, <2>3, <2>4 DEF SeenInv, Told
<1>9. OrderInv'
  <2> DEFINE reports == thread["reporter"].reports
  <2>1. SUFFICES ASSUME ~Stopping'
        PROVE  /\ After(thread["reporter"].reports, thread["reporter"].reports)'
               /\ Later(thread["reporter"].reports)'
               /\ \A i \in DOMAIN inflight' :
                    /\ After(inflight[i], thread["reporter"].reports)' /\ Later(inflight[i])'
                    /\ \A j \in DOMAIN inflight' : i <= j => After(inflight[i], inflight[j])'
    BY DEF OrderInv
  <2>2. ~ Stopping /\ "reporter" \in Senders
    BY <1>1, <2>1 DEF Stopping, Senders
  <2>3. /\ After(reports, reports) /\ Later(reports)
        /\ \A i \in DOMAIN inflight :
             /\ After(inflight[i], reports) /\ Later(inflight[i])
             /\ \A j \in DOMAIN inflight : i <= j => After(inflight[i], inflight[j])
    BY <2>2 DEF Inv, OrderInv
  <2>4. /\ \A r \in Range(reports) : r.task \in Tasks
        /\ \A i \in DOMAIN inflight : \A r \in Range(inflight[i]) : r.task \in Tasks
    BY <1>1, <2>2, Typed, TaskListIs
  <2>5. After(chunk, reports) /\ \A i \in DOMAIN inflight' : After(chunk, inflight[i + 1])
    <3>1. \A i \in DOMAIN inflight' : i + 1 \in DOMAIN inflight /\ 1 <= i + 1
      BY <1>2
    <3>2. QED
      BY <1>2, <2>3, <3>1 DEF chunk
  <2> HIDE DEF reports
  <2>6. ASSUME NEW s, Later(s), After(chunk, s), \A r \in Range(s) : r.task \in Tasks
        PROVE  \A q \in Range(s) : seen'[q.task] = "final" => q.status = "final"
    BY <1>4, <2>6 DEF Later, After
  <2>7. \A q \in Range(reports) : seen'[q.task] = "final" => q.status = "final"
    BY <2>3, <2>4, <2>5, <2>6
  <2>8. ASSUME NEW i \in DOMAIN inflight'
        PROVE  \A q \in Range(inflight'[i]) : seen'[q.task] = "final" => q.status = "final"
    <3>1. /\ inflight'[i] = inflight[i + 1] /\ Later(inflight[i + 1])
          /\ After(chunk, inflight[i + 1])
          /\ \A r \in Range(inflight[i + 1]) : r.task \in Tasks
      BY <1>2, <2>3, <2>4, <2>5
    <3>2. \A q \in Range(inflight[i + 1]) : seen'[q.task] = "final" => q.status = "final"
      BY <2>6, <3>1
    <3>3. QED
      BY <3>1, <3>2
  <2>9. /\ After(thread["reporter"].reports, thread["reporter"].reports)'
        /\ Later(thread["reporter"].reports)'
    BY <1>1, <2>3, <2>7 DEF After, Later, reports
  <2>10. \A i \in DOMAIN inflight' :
           /\ After(inflight'[i], reports)
           /\ \A j \in DOMAIN inflight' : i <= j => After(inflight'[i], inflight'[j])
    <3>1. \A i, j \in DOMAIN inflight' : i <= j => i + 1 <= j + 1
      BY <1>2
    <3>2. QED
      BY <1>2, <2>3, <3>1
  <2>11. \A i \in DOMAIN inflight' :
           /\ After(inflight[i], thread["reporter"].reports)' /\ Later(inflight[i])'
           /\ \A j \in DOMAIN inflight' : i <= j => After(inflight[i], inflight[j])'
    BY <1>1, <2>8, <2>10 DEF After, Later, reports
  <2>12. QED
    BY <2>9, <2>11
<1>10. QED
  BY <1>5, <1>6, <1>7, <1>8, <1>9 DEF Inv

LEMMA BreakInv == ASSUME Inv, Break PROVE Inv'
<1>1. /\ TypeOK /\ faults < MaxFaults
      /\ connection' = "broken" /\ faults' = faults + 1 /\ inflight' = <<>>
      /\ lost' = lost \cup UNION {Ends(inflight[i]) : i \in DOMAIN inflight}
      /\ UNCHANGED <<is_registered, report_ongoing_tasks, current_state, send_queue,
                     acknowledged_commands, thread, seen, learned>>
  BY DEF Break, Inv, config, state
<1>2. inflight' \in Seq(Seq(Report)) /\ DOMAIN inflight' = {}
  BY <1>1, EmptyRange
<1>3. lost' \subseteq Tasks
  <2>1. \A i \in DOMAIN inflight : Ends(inflight[i]) \subseteq Tasks
    BY <1>1, Typed, EndsIs
  <2>2. QED
    BY <1>1, <2>1 DEF TypeOK
<1>4. TypeOK'
  <2>1. faults' \in 0..MaxFaults
    BY <1>1, ReportsAssumption DEF TypeOK
  <2>2. QED
    BY <1>1, <1>2, <1>3, <2>1 DEF TypeOK
<1>5. ThreadInv'
  BY <1>1 DEF Inv, ThreadInv
<1>6. SingleInv'
  BY <1>1 DEF Inv, SingleInv, Single, Absent, Held
<1>7. FinalKept'
  <2>1. FinalKept
    BY DEF Inv
  <2>2. \A t : (\E i \in DOMAIN inflight : t \in Ends(inflight[i])) => t \in lost'
    BY <1>1
  <2>3. QED
    BY <1>1, <2>1, <2>2 DEF FinalKept
<1>8. SeenInv'
  BY <1>1, <1>2 DEF Inv, SeenInv, Told
<1>9. OrderInv'
  BY <1>1, <1>2 DEF Inv, OrderInv, After, Later, Stopping
<1>10. QED
  BY <1>4, <1>5, <1>6, <1>7, <1>8, <1>9 DEF Inv

\* The heartbeat thread changes the connection only.
LEMMA HeartbeatsInv == ASSUME Inv, Heartbeats \/ UNCHANGED vars PROVE Inv'
<1>1. UNCHANGED <<is_registered, report_ongoing_tasks, current_state, send_queue,
                  acknowledged_commands, thread, inflight, seen, learned, lost, faults>>
      /\ (TypeOK => connection' \in {"none", "hidden", "open", "broken"})
  BY DEF Heartbeats, Unregister, Register, Expose, vars, config, state, TypeOK
<1>2. TypeOK'
  BY <1>1 DEF Inv, TypeOK
<1>3. ThreadInv'
  BY <1>1 DEF Inv, ThreadInv
<1>4. SingleInv'
  BY <1>1 DEF Inv, SingleInv, Single, Absent, Held
<1>5. FinalKept'
  BY <1>1 DEF Inv, FinalKept
<1>6. SeenInv'
  BY <1>1 DEF Inv, SeenInv, Told
<1>7. OrderInv'
  BY <1>1 DEF Inv, OrderInv, After, Later, Stopping
<1>8. QED
  BY <1>2, <1>3, <1>4, <1>5, <1>6, <1>7 DEF Inv

-----------------------------------------------------------------------------
(* The theorems *)

\* Whatever the tasks are told, however messages, refusals and lost connections
\* follow each other: the invariant, each part of which the next theorems use.
THEOREM InvHolds == Spec => []Inv
<1>1. Inv /\ [Next]_vars => Inv'
  <2>1. SUFFICES ASSUME Inv, [Next]_vars PROVE Inv'
    OBVIOUS
  <2>2. ASSUME NEW t \in Tasks, Update(t) PROVE Inv'
    BY <2>1, <2>2, UpdateInv
  <2>3. CASE Cycle
    BY <2>1, <2>3, CycleInv
  <2>4. CASE Shutdown
    BY <2>1, <2>4, ShutdownInv
  <2>5. ASSUME NEW p \in Senders, Reporting(p) PROVE Inv'
    BY <2>1, <2>5, GenerateInv, SendInv, SendFailsInv DEF Reporting
  <2>6. CASE Serve
    BY <2>1, <2>6, ServeInv
  <2>7. CASE Break
    BY <2>1, <2>7, BreakInv
  <2>8. CASE Heartbeats \/ UNCHANGED vars
    BY <2>1, <2>8, HeartbeatsInv
  <2>9. QED
    BY <2>1, <2>2, <2>3, <2>4, <2>5, <2>6, <2>7, <2>8 DEF Next
<1>2. QED
  BY <1>1, InitInv, PTL DEF Spec

\* The types of the variables; and the history of commands that count as
\* acknowledged never passes MAX_REPORT_HISTORY (_generate_report).
THEOREM TypeCorrect == Spec => []TypeOK
BY InvHolds, PTL DEF Inv

\* The end of a command is in the queue, in the hands of a thread, on its way or
\* seen, unless its report was lost or refused, for any size of the history and
\* with two threads that send: a command that is not over has one place only, so
\* that nothing of it counts as acknowledged when it ends (update_command_status,
\* _generate_report, _requeue_unsent).
THEOREM FinalIsKept == Spec => []FinalKept
BY InvHolds, PTL DEF Inv

\* Until shutdown sends reports of its own, what the server has seen of a task
\* never goes back from the end of it: the one reporter takes the queue under the
\* lock and the server takes its messages in the order they were sent.
THEOREM SeenNeverBack == Spec => NeverBack
<1>1. ASSUME Inv, [Next]_vars, NEW t \in Tasks, seen[t] = "final", seen'[t] # "final"
      PROVE  Stopping
  <2>1. Serve
    BY <1>1 DEF Next, vars, Update, Cycle, Shutdown, Reporting, Generate, Send, SendFails,
                Skip, Break, Heartbeats, Unregister, Register, Expose
  <2>2. inflight # <<>> /\ seen' = Learned(Head(inflight))
    BY <1>1, <2>1 DEF Serve
  <2>3. /\ 1 \in DOMAIN inflight /\ Head(inflight) = inflight[1]
        /\ inflight[1] \in Seq(Report) /\ seen \in [Tasks -> Status]
    BY <1>1, <2>2, TailIs DEF Inv, TypeOK
  <2>4. PICK r \in Range(inflight[1]) : r.task = t /\ seen'[t] = r.status
    BY <1>1, <2>2, <2>3, LearnedIs
  <2>5. ~ Later(inflight[1])
    BY <1>1, <2>4 DEF Later
  <2>6. QED
    BY <1>1, <2>3, <2>5 DEF Inv, OrderInv
<1>2. Inv /\ [Next]_vars =>
        [\A t \in Tasks : seen[t] = "final" /\ seen'[t] # "final" => Stopping]_vars
  BY <1>1
<1>3. QED
  BY <1>2, InvHolds, PTL DEF Spec, NeverBack

=============================================================================
