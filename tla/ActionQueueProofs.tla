-------------------------- MODULE ActionQueueProofs --------------------------
(***************************************************************************)
(* Proofs about ActionQueue, for any commands, priorities and limits.  The *)
(* first half is about the heap of any size: a sift loses no item, and     *)
(* keeps the order when priorities differ.  The second half is about the   *)
(* queue: its types, where a command is, and how it ends.                  *)
(***************************************************************************)
EXTENDS ActionQueue, FiniteSetTheorems, SequenceTheorems, WellFoundedInduction, TLAPS

-----------------------------------------------------------------------------
(* Induction over sets of numbers, and functions that are iterated *)

LEMMA SetInduction ==
  ASSUME NEW A, 0 \in A, \A i \in Nat : i \in A => i + 1 \in A
  PROVE  Nat \subseteq A
<1> DEFINE Out == Nat \ A
<1>1. SUFFICES ASSUME Out # {} PROVE FALSE
  OBVIOUS
<1>2. PICK x \in Out : \A y \in Out : ~ (<<y, x>> \in OpToRel(<, Nat))
  BY <1>1, WFMin, NatLessThanWellFounded
<1>3. x # 0 /\ x \in Nat /\ x \notin A
  OBVIOUS
<1>4. x - 1 \in Out
  <2>1. x - 1 \in Nat /\ (x - 1) + 1 = x
    BY <1>3
  <2>2. x - 1 \notin A
    BY <1>3, <2>1
  <2>3. QED
    BY <2>1, <2>2
<1>5. <<x - 1, x>> \in OpToRel(<, Nat)
  BY <1>3, <1>4 DEF OpToRel
<1>6. QED
  BY <1>2, <1>4, <1>5

\* The states g goes through from base, step[k] being its k-th step.
IsPath(g, base, step, n) == g[0] = base /\ \A k \in 1..n : g[k] = step[k][g[k - 1]]

LEMMA Iteration ==
  ASSUME NEW S, NEW n \in Nat, NEW base \in S, NEW step \in [1..n -> [S -> S]]
  PROVE  \E g \in [0..n -> S] :
           IsPath(g, base, step, n)
<1> DEFINE Is(g, m) == IsPath(g, base, step, m)
           A == {m \in Nat : m <= n => \E g \in [0..m -> S] : Is(g, m)}
<1>1. 0 \in A
  <2>1. [k \in 0..0 |-> base] \in [0..0 -> S] /\ Is([k \in 0..0 |-> base], 0)
    BY DEF IsPath
  <2>2. QED
    BY <2>1
<1>2. ASSUME NEW m \in Nat, m \in A PROVE m + 1 \in A
  <2>1. SUFFICES ASSUME m + 1 <= n PROVE \E g \in [0..m + 1 -> S] : Is(g, m + 1)
    OBVIOUS
  <2>2. PICK g \in [0..m -> S] : Is(g, m)
    BY <1>2, <2>1
  <2> DEFINE h == [k \in 0..m + 1 |-> IF k = m + 1 THEN step[m + 1][g[m]] ELSE g[k]]
  <2>3. m + 1 \in 1..n /\ m \in 0..m
    BY <2>1
  <2>3a. step[m + 1][g[m]] \in S
    BY <2>2, <2>3
  <2>4. h \in [0..m + 1 -> S]
    BY <2>2, <2>3a
  <2>5. Is(h, m + 1)
    BY <2>2, <2>3 DEF IsPath
  <2>6. QED
    BY <2>4, <2>5
<1>3. n \in A
  BY <1>1, <1>2, SetInduction
<1>4. QED
  BY <1>3

\* What holds of the first state of a sift, and is handed on by each step, holds
\* of the last: P[k] is what holds after k steps.
LEMMA Rises ==
  ASSUME NEW key, NEW S, NEW s \in S, \A r \in S : Rise(key, r) \in S,
         Len(s.heap) \in Nat, NEW P \in [0..Len(s.heap) -> SUBSET S], s \in P[0],
         \A k \in 1..Len(s.heap) : \A r \in P[k - 1] : Rise(key, r) \in P[k]
  PROVE  SiftDown(key, s) \in P[Len(s.heap)]
<1> DEFINE n == Len(s.heap)
           step == [k \in 1..n |-> [r \in S |-> Rise(key, r)]]
           Path(g) == g = [k \in 0..n |-> IF k = 0 THEN s ELSE Rise(key, g[k - 1])]
           after == CHOOSE g : Path(g)
           A == {k \in Nat : k <= n => after[k] \in P[k]}
<1>0. /\ n \in Nat /\ P \in [0..n -> SUBSET S]
      /\ \A k \in 1..n : \A r \in P[k - 1] : Rise(key, r) \in P[k]
  OBVIOUS
<1> HIDE DEF n
<1>1. \E g : Path(g)
  <2>1. step \in [1..n -> [S -> S]]
    BY <1>0
  <2> HIDE DEF step
  <2>2. PICK g \in [0..n -> S] : IsPath(g, s, step, n)
    BY <1>0, <2>1, Iteration
  <2>3. ASSUME NEW k \in 1..n PROVE g[k] = Rise(key, g[k - 1])
    <3>1. k - 1 \in 0..n
      BY <1>0
    <3>2. g[k - 1] \in S
      BY <2>2, <3>1
    <3>3. QED
      BY <1>0, <2>2, <3>2 DEF step, IsPath
  <2>4. ASSUME NEW k \in 0..n
        PROVE  g[k] = IF k = 0 THEN s ELSE Rise(key, g[k - 1])
    BY <1>0, <2>2, <2>3 DEF IsPath
  <2>5. Path(g)
    BY <2>2, <2>4
  <2>6. QED
    BY <2>5
<1>2. Path(after)
  BY <1>1, Zenon
<1> HIDE DEF after
<1>3. 0 \in A
  BY <1>0, <1>2
<1>4. ASSUME NEW k \in Nat, k \in A PROVE k + 1 \in A
  <2>1. SUFFICES ASSUME k + 1 <= n PROVE after[k + 1] \in P[k + 1]
    OBVIOUS
  <2>2. k + 1 \in 0..n /\ k + 1 \in 1..n /\ (k + 1) - 1 = k /\ k + 1 # 0 /\ k <= n
    BY <1>0, <2>1
  <2>3. after[k + 1] = Rise(key, after[k])
    BY <1>2, <2>2
  <2>4. QED
    BY <1>0, <1>4, <2>2, <2>3
<1>5. n \in A
  <2> HIDE DEF A
  <2>1. QED
    BY <1>0, <1>3, <1>4, SetInduction
<1>6. SiftDown(key, s) = after[n]
  BY DEF SiftDown, after, n
<1>7. after[n] \in P[n]
  BY <1>0, <1>5
<1>8. QED
  BY <1>6, <1>7 DEF n

LEMMA Sinks ==
  ASSUME NEW key, NEW S, NEW s \in S, \A r \in S : Sink(key, r) \in S,
         Len(s.heap) \in Nat, NEW P \in [0..Len(s.heap) -> SUBSET S], s \in P[0],
         \A k \in 1..Len(s.heap) : \A r \in P[k - 1] : Sink(key, r) \in P[k]
  PROVE  ToLeaf(key, s) \in P[Len(s.heap)]
<1> DEFINE n == Len(s.heap)
           step == [k \in 1..n |-> [r \in S |-> Sink(key, r)]]
           Path(g) == g = [k \in 0..n |-> IF k = 0 THEN s ELSE Sink(key, g[k - 1])]
           after == CHOOSE g : Path(g)
           A == {k \in Nat : k <= n => after[k] \in P[k]}
<1>0. /\ n \in Nat /\ P \in [0..n -> SUBSET S]
      /\ \A k \in 1..n : \A r \in P[k - 1] : Sink(key, r) \in P[k]
  OBVIOUS
<1> HIDE DEF n
<1>1. \E g : Path(g)
  <2>1. step \in [1..n -> [S -> S]]
    BY <1>0
  <2> HIDE DEF step
  <2>2. PICK g \in [0..n -> S] : IsPath(g, s, step, n)
    BY <1>0, <2>1, Iteration
  <2>3. ASSUME NEW k \in 1..n PROVE g[k] = Sink(key, g[k - 1])
    <3>1. k - 1 \in 0..n
      BY <1>0
    <3>2. g[k - 1] \in S
      BY <2>2, <3>1
    <3>3. QED
      BY <1>0, <2>2, <3>2 DEF step, IsPath
  <2>4. ASSUME NEW k \in 0..n
        PROVE  g[k] = IF k = 0 THEN s ELSE Sink(key, g[k - 1])
    BY <1>0, <2>2, <2>3 DEF IsPath
  <2>5. Path(g)
    BY <2>2, <2>4
  <2>6. QED
    BY <2>5
<1>2. Path(after)
  BY <1>1, Zenon
<1> HIDE DEF after
<1>3. 0 \in A
  BY <1>0, <1>2
<1>4. ASSUME NEW k \in Nat, k \in A PROVE k + 1 \in A
  <2>1. SUFFICES ASSUME k + 1 <= n PROVE after[k + 1] \in P[k + 1]
    OBVIOUS
  <2>2. k + 1 \in 0..n /\ k + 1 \in 1..n /\ (k + 1) - 1 = k /\ k + 1 # 0 /\ k <= n
    BY <1>0, <2>1
  <2>3. after[k + 1] = Sink(key, after[k])
    BY <1>2, <2>2
  <2>4. QED
    BY <1>0, <1>4, <2>2, <2>3
<1>5. n \in A
  <2> HIDE DEF A
  <2>1. QED
    BY <1>0, <1>3, <1>4, SetInduction
<1>6. ToLeaf(key, s) = after[n]
  BY DEF ToLeaf, after, n
<1>7. after[n] \in P[n]
  BY <1>0, <1>5
<1>8. QED
  BY <1>6, <1>7 DEF n

-----------------------------------------------------------------------------
(* What is in the heap *)

\* The sequences of n items in which each of R is once.
Orders(n, R) ==
  {h \in [1..n -> R] : /\ \A x \in R : \E i \in 1..n : h[i] = x
                       /\ \A i, j \in 1..n : h[i] = h[j] => i = j}
Sifts(n, R) == [heap : Orders(n, R), at : 1..n, raised : BOOLEAN]

LEMMA OrderLength ==
  ASSUME NEW n \in Nat, NEW R, NEW h \in Orders(n, R)
  PROVE  h \in Seq(R) /\ Len(h) = n
<1>1. h \in [1..n -> R]
  BY DEF Orders
<1>2. QED
  BY <1>1, IsASeq, LenProperties

\* An exchange of two items loses none.
LEMMA MovedIn ==
  ASSUME NEW n \in Nat, NEW R, NEW s \in Sifts(n, R), NEW j \in 1..n
  PROVE  /\ Moved(s, j) \in Sifts(n, R)
         /\ Moved(s, j).at = j /\ Moved(s, j).raised = s.raised
         /\ \A i \in 1..n : Moved(s, j).heap[i] = IF i = j THEN s.heap[s.at]
                                                  ELSE IF i = s.at THEN s.heap[j] ELSE s.heap[i]
<1> DEFINE h == s.heap
           g == [h EXCEPT ![s.at] = h[j], ![j] = h[s.at]]
<1>1. h \in Orders(n, R) /\ s.at \in 1..n /\ s.raised \in BOOLEAN
  BY DEF Sifts
<1>2. /\ h \in [1..n -> R] /\ \A x \in R : \E i \in 1..n : h[i] = x
      /\ \A i, k \in 1..n : h[i] = h[k] => i = k
  BY <1>1 DEF Orders
<1>3. \A i \in 1..n : g[i] = IF i = j THEN h[s.at] ELSE IF i = s.at THEN h[j] ELSE h[i]
  BY <1>1, <1>2
<1>4. g \in Orders(n, R)
  <2>1. g \in [1..n -> R]
    BY <1>1, <1>2
  <2>2. ASSUME NEW x \in R PROVE \E i \in 1..n : g[i] = x
    <3>1. PICK i \in 1..n : h[i] = x
      BY <1>2
    <3>2. g[IF i = j THEN s.at ELSE IF i = s.at THEN j ELSE i] = x
      BY <1>1, <1>3, <3>1
    <3>3. QED
      BY <1>1, <3>2
  <2>3. \A i, k \in 1..n : g[i] = g[k] => i = k
    <3> HIDE DEF g, h
    <3>1. QED
      BY <1>1, <1>2, <1>3
  <2>4. QED
    BY <2>1, <2>2, <2>3 DEF Orders
<1>5. /\ Moved(s, j) = [heap |-> g, at |-> j, raised |-> s.raised]
      /\ Moved(s, j).heap = g
  <2>1. Moved(s, j) = [s EXCEPT !.heap = g, !.at = j]
    BY DEF Moved
  <2> HIDE DEF g, h
  <2>2. QED
    BY <2>1 DEF Sifts
<1>6. QED
  BY <1>1, <1>3, <1>4, <1>5 DEF Sifts

LEMMA StepsIn ==
  ASSUME NEW key, NEW n \in Nat, NEW R, NEW s \in Sifts(n, R)
  PROVE  Rise(key, s) \in Sifts(n, R) /\ Sink(key, s) \in Sifts(n, R)
<1>1. s.at \in 1..n /\ Len(s.heap) = n
  BY OrderLength DEF Sifts
<1>2. [s EXCEPT !.raised = TRUE] \in Sifts(n, R)
  BY DEF Sifts
<1>3. ASSUME s.at # 1 PROVE s.at \div 2 \in 1..n
  BY <1>1, <1>3
<1>4. \A j \in 1..n : Moved(s, j) \in Sifts(n, R)
  BY MovedIn
<1>5. Rise(key, s) \in Sifts(n, R)
  BY <1>2, <1>3, <1>4 DEF Rise
<1>6. ASSUME 2 * s.at <= n
      PROVE  2 * s.at \in 1..n /\ (2 * s.at + 1 <= n => 2 * s.at + 1 \in 1..n)
  BY <1>1, <1>6
<1>7. Sink(key, s) \in Sifts(n, R)
  BY <1>1, <1>2, <1>4, <1>6 DEF Sink
<1>8. QED
  BY <1>5, <1>7

\* A sift loses no item, also when a comparison raises.
LEMMA SiftIn ==
  ASSUME NEW key, NEW n \in Nat, NEW R, NEW s \in Sifts(n, R)
  PROVE  SiftDown(key, s) \in Sifts(n, R) /\ SiftUp(key, s) \in Sifts(n, R)
<1> DEFINE P == [k \in 0..n |-> Sifts(n, R)]
<1>1. \A r \in Sifts(n, R) : Len(r.heap) = n
  BY OrderLength DEF Sifts
<1>2. P \in [0..n -> SUBSET Sifts(n, R)] /\ \A k \in 0..n : P[k] = Sifts(n, R)
  OBVIOUS
<1>3. \A k \in 1..n : k - 1 \in 0..n /\ k \in 0..n
  OBVIOUS
<1>4. 0 \in 0..n /\ n \in 0..n
  OBVIOUS
<1> HIDE DEF P
<1>5. ASSUME NEW r \in Sifts(n, R) PROVE SiftDown(key, r) \in Sifts(n, R)
  <2>1. SiftDown(key, r) \in P[n]
    BY <1>1, <1>2, <1>3, <1>4, StepsIn, Rises
  <2>2. QED
    BY <1>2, <1>4, <2>1
<1>6. ToLeaf(key, s) \in P[n]
  BY <1>1, <1>2, <1>3, <1>4, StepsIn, Sinks
<1>7. ToLeaf(key, s) \in Sifts(n, R)
  BY <1>2, <1>4, <1>6
<1>8. QED
  BY <1>5, <1>7 DEF SiftUp

LEMMA AppendIn ==
  ASSUME NEW n \in Nat, NEW R, NEW h \in Orders(n, R), NEW x, x \notin R
  PROVE  Append(h, x) \in Orders(n + 1, R \cup {x})
<1> DEFINE g == Append(h, x)
<1>1. h \in [1..n -> R] /\ h \in Seq(R) /\ Len(h) = n
  BY OrderLength DEF Orders
<1>2. g \in [1..n + 1 -> R \cup {x}] /\ \A i \in 1..n + 1 : g[i] = IF i = n + 1 THEN x ELSE h[i]
  <2>1. h \in Seq(R \cup {x})
    BY <1>1
  <2>2. /\ g \in Seq(R \cup {x}) /\ Len(g) = n + 1
        /\ \A i \in 1..n : g[i] = h[i]
        /\ g[n + 1] = x
    BY <1>1, <2>1, AppendProperties
  <2> HIDE DEF g
  <2>3. g \in [1..n + 1 -> R \cup {x}]
    BY <2>2, LenProperties
  <2>4. QED
    BY <2>2, <2>3
<1> HIDE DEF g
<1>3. g \in Orders(n + 1, R \cup {x})
  BY <1>1, <1>2 DEF Orders
<1>4. QED
  BY <1>3 DEF g

\* A put adds the item, a get takes the first away, and no other.
LEMMA PushIn ==
  ASSUME NEW key, NEW n \in Nat, NEW R, NEW h \in Orders(n, R), NEW x, x \notin R
  PROVE  Push(key, h, x).heap \in Orders(n + 1, R \cup {x})
<1> DEFINE g == Append(h, x)
<1>1. Len(h) = n
  BY OrderLength
<1>2. g \in Orders(n + 1, R \cup {x})
  BY AppendIn
<1>3. Push(key, h, x) = SiftDown(key, Sift(g, n + 1))
  BY <1>1 DEF Push
<1> HIDE DEF g
<1>4. Sift(g, n + 1) \in Sifts(n + 1, R \cup {x})
  BY <1>2 DEF Sift, Sifts
<1>5. SiftDown(key, Sift(g, n + 1)) \in Sifts(n + 1, R \cup {x})
  BY <1>4, SiftIn
<1>6. QED
  BY <1>3, <1>5 DEF Sifts

\* What heappop sifts.
Rest(h, n) == [i \in 1..n - 1 |-> IF i = 1 THEN h[n] ELSE h[i]]

LEMMA RestIn ==
  ASSUME NEW n \in Nat, NEW R, NEW h \in Orders(n, R), n > 1
  PROVE  Rest(h, n) \in Orders(n - 1, R \ {h[1]})
<1>1. /\ h \in [1..n -> R] /\ \A x \in R : \E i \in 1..n : h[i] = x
      /\ \A i, k \in 1..n : h[i] = h[k] => i = k
  BY DEF Orders
<1> DEFINE g == Rest(h, n)
<1>2. \A i \in 1..n - 1 : g[i] = IF i = 1 THEN h[n] ELSE h[i]
  BY DEF Rest
<1>3. g \in [1..n - 1 -> R \ {h[1]}]
  BY <1>1 DEF Rest
<1> HIDE DEF g
<1>4. ASSUME NEW x \in R \ {h[1]} PROVE \E i \in 1..n - 1 : g[i] = x
  <2>1. PICK i \in 1..n : h[i] = x
    BY <1>1
  <2>2. i # 1
    BY <2>1
  <2>3. IF i = n THEN 1 \in 1..n - 1 /\ g[1] = x ELSE i \in 1..n - 1 /\ g[i] = x
    BY <1>2, <2>1, <2>2
  <2>4. QED
    BY <2>3
<1>5. \A i, k \in 1..n - 1 : g[i] = g[k] => i = k
  BY <1>1, <1>2
<1>6. QED
  BY <1>3, <1>4, <1>5 DEF Orders, g

LEMMA PopIs ==
  ASSUME NEW key, NEW n \in Nat, NEW R, NEW h \in Orders(n, R), n > 0
  PROVE  Pop(key, h) = IF n = 1 THEN Sift(<<>>, 1) ELSE SiftUp(key, Sift(Rest(h, n), 1))
<1> DEFINE rest == SubSeq(h, 1, n - 1)
<1>1. h \in [1..n -> R] /\ h \in Seq(R) /\ Len(h) = n
  BY OrderLength DEF Orders
<1>2. rest \in [1..n - 1 -> R] /\ \A i \in 1..n - 1 : rest[i] = h[i]
  <2>1. \A i \in 1..n - 1 : h[i] \in R
    BY <1>1
  <2>2. /\ rest \in Seq(R) /\ Len(rest) = IF 1 <= n - 1 THEN (n - 1) - 1 + 1 ELSE 0
        /\ \A i \in 1..(n - 1) - 1 + 1 : rest[i] = h[1 + i - 1]
    <3>1. 1 \in Int /\ n - 1 \in Int
      OBVIOUS
    <3>2. QED
      BY ONLY <2>1, <3>1, SubSeqProperties
  <2> HIDE DEF rest
  <2>3. Len(rest) = n - 1 /\ \A i \in 1..n - 1 : rest[i] = h[i]
    BY <2>2
  <2>4. QED
    BY <2>2, <2>3, LenProperties
<1>3. rest = <<>> <=> n = 1
  <2> HIDE DEF rest
  <2>1. QED
    BY <1>2
<1>4. ASSUME n # 1 PROVE [rest EXCEPT ![1] = h[n]] = Rest(h, n)
  <2> HIDE DEF rest
  <2>1. QED
    BY <1>2, <1>4 DEF Rest
<1>5. QED
  BY <1>1, <1>3, <1>4 DEF Pop

LEMMA PopIn ==
  ASSUME NEW key, NEW n \in Nat, NEW R, NEW h \in Orders(n, R), n > 0
  PROVE  Pop(key, h).heap \in Orders(n - 1, R \ {h[1]})
<1>1. CASE n = 1
  <2>1. Pop(key, h) = Sift(<<>>, 1)
    BY <1>1, PopIs
  <2>1a. Pop(key, h).heap = <<>>
    BY <2>1 DEF Sift
  <2>2. R \ {h[1]} = {} /\ n - 1 = 0
    BY <1>1 DEF Orders
  <2>3. <<>> \in Orders(0, {})
    BY DEF Orders
  <2>4. QED
    BY <2>1a, <2>2, <2>3
<1>2. CASE n # 1
  <2>1. Rest(h, n) \in Orders(n - 1, R \ {h[1]})
    BY <1>2, RestIn
  <2>2. n - 1 \in Nat /\ 1 \in 1..n - 1
    BY <1>2
  <2>3. Sift(Rest(h, n), 1) \in Sifts(n - 1, R \ {h[1]})
    BY <2>1, <2>2 DEF Sift, Sifts
  <2>4. SiftUp(key, Sift(Rest(h, n), 1)) \in Sifts(n - 1, R \ {h[1]})
    BY <2>2, <2>3, SiftIn
  <2>5. QED
    BY <1>2, <2>4, PopIs DEF Sifts
<1>3. QED
  BY <1>1, <1>2

-----------------------------------------------------------------------------
(* The order of the heap *)

Apart(key, R) == /\ \A x \in R : key[x] \in Nat
                 /\ \A x, y \in R : x # y => key[x] # key[y]
Below(key, h, i, j) == key[h[i]] < key[h[j]]
IsHeap(key, h, n) == \A j \in 2..n : Below(key, h, j \div 2, j)

\* While an item rises it is the only one that may come before its parent, and
\* its children come after that parent.
Rising(key, n, s) ==
  /\ ~ s.raised
  /\ \A j \in 2..n : j # s.at => Below(key, s.heap, j \div 2, j)
  /\ s.at > 1 => \A j \in 2..n : j \div 2 = s.at => Below(key, s.heap, s.at \div 2, j)
Settled(key, s) == s.at = 1 \/ Below(key, s.heap, s.at \div 2, s.at)

LEMMA Halves ==
  ASSUME NEW n \in Nat, NEW j \in 2..n
  PROVE  j \div 2 \in 1..n /\ j \div 2 < j /\ 2 * (j \div 2) <= j /\ j <= 2 * (j \div 2) + 1
OBVIOUS

LEMMA SiftFacts ==
  ASSUME NEW key, NEW n \in Nat, NEW R, NEW s \in Sifts(n, R), Apart(key, R)
  PROVE  /\ s.heap \in [1..n -> R] /\ s.at \in 1..n /\ s.raised \in BOOLEAN /\ Len(s.heap) = n
         /\ \A i \in 1..n : s.heap[i] \in R /\ key[s.heap[i]] \in Nat
         /\ \A i, j \in 1..n : i # j => key[s.heap[i]] # key[s.heap[j]]
<1>1. s.heap \in Orders(n, R) /\ s.at \in 1..n /\ s.raised \in BOOLEAN
  BY DEF Sifts
<1>2. s.heap \in [1..n -> R] /\ \A i, k \in 1..n : s.heap[i] = s.heap[k] => i = k
  BY <1>1 DEF Orders
<1>3. Len(s.heap) = n
  BY <1>1, OrderLength
<1>4. QED
  BY <1>1, <1>2, <1>3 DEF Apart

LEMMA RiseStep ==
  ASSUME NEW key, NEW n \in Nat, NEW R, NEW s \in Sifts(n, R), Apart(key, R),
         Rising(key, n, s)
  PROVE  /\ Rising(key, n, Rise(key, s))
         /\ IF Settled(key, s) THEN Rise(key, s) = s ELSE Rise(key, s).at < s.at
<1> DEFINE h == s.heap
           a == s.at
           p == a \div 2
<1>1. /\ a \in 1..n /\ \A i \in 1..n : key[h[i]] \in Nat
      /\ \A i, j \in 1..n : i # j => key[h[i]] # key[h[j]]
  BY SiftFacts
<1>2. CASE Settled(key, s)
  <2>1. a # 1 => p \in 1..n
    BY <1>1
  <2>2. Rise(key, s) = s
    BY <1>1, <1>2, <2>1 DEF Settled, Below, Rise
  <2>3. QED
    BY <1>2, <2>2
<1>3. CASE ~ Settled(key, s)
  <2>1. a # 1 /\ p \in 1..n /\ p < a
    BY <1>1, <1>3 DEF Settled
  <2>2. key[h[a]] < key[h[p]]
    BY <1>1, <1>3, <2>1 DEF Settled, Below
  <2> DEFINE t == Moved(s, p)
             g == t.heap
  <2>3. Rise(key, s) = t
    BY <1>1, <2>1, <2>2 DEF Rise
  <2>4. /\ t.at = p /\ ~ t.raised
        /\ \A i \in 1..n : g[i] = IF i = p THEN h[a] ELSE IF i = a THEN h[p] ELSE h[i]
    <3>1. ~ s.raised
      BY DEF Rising
    <3> HIDE DEF p
    <3>2. /\ Moved(s, p).at = p /\ Moved(s, p).raised = s.raised
          /\ \A i \in 1..n : Moved(s, p).heap[i] = IF i = p THEN s.heap[s.at]
                     ELSE IF i = s.at THEN s.heap[p] ELSE s.heap[i]
      BY <2>1, MovedIn
    <3>3. QED
      BY <3>1, <3>2
  <2>5. /\ \A j \in 2..n : j # a => key[h[j \div 2]] < key[h[j]]
        /\ \A j \in 2..n : j \div 2 = a => key[h[p]] < key[h[j]]
    BY <1>1, <2>1 DEF Rising, Below
  <2>6. \A j \in 2..n : j \in 1..n /\ j \div 2 \in 1..n /\ j \div 2 < j
    BY Halves
  <2> HIDE DEF t, h, a
  <2>7. ASSUME NEW j \in 2..n, j # p PROVE key[g[j \div 2]] < key[g[j]]
    <3>1. CASE j = a
      <4>1. g[j] = h[p] /\ g[j \div 2] = h[a]
        BY <1>1, <2>1, <2>4, <3>1
      <4>2. QED
        BY <2>2, <4>1
    <3>2. CASE j # a /\ j \div 2 = a
      BY <1>1, <2>1, <2>4, <2>5, <2>6, <2>7, <3>2
    <3>3. CASE j # a /\ j \div 2 = p
      <4>1. g[j] = h[j] /\ g[j \div 2] = h[a]
        BY <1>1, <2>1, <2>4, <2>6, <2>7, <3>3
      <4>2. key[h[p]] < key[h[j]]
        BY <2>5, <3>3
      <4>3. QED
        BY <1>1, <2>1, <2>2, <2>6, <4>1, <4>2
    <3>4. CASE j # a /\ j \div 2 # a /\ j \div 2 # p
      BY <1>1, <2>1, <2>4, <2>5, <2>6, <2>7, <3>4
    <3>5. QED
      BY <3>1, <3>2, <3>3, <3>4
  <2>8. ASSUME p > 1, NEW j \in 2..n, j \div 2 = p PROVE key[g[p \div 2]] < key[g[j]]
    <3>1. p \in 2..n /\ p \div 2 \in 1..n /\ p \div 2 < p
      BY <2>1, <2>6, <2>8
    <3>2. g[p \div 2] = h[p \div 2] /\ key[h[p \div 2]] < key[h[p]]
      BY <1>1, <2>1, <2>4, <2>5, <3>1
    <3>3. CASE j = a
      <4>1. g[j] = h[p]
        BY <1>1, <2>1, <2>4, <3>3
      <4>2. QED
        BY <3>2, <4>1
    <3>4. CASE j # a
      <4>1. g[j] = h[j] /\ key[h[p]] < key[h[j]]
        BY <1>1, <2>1, <2>4, <2>5, <2>6, <2>8, <3>4
      <4>2. QED
        BY <1>1, <2>1, <2>6, <3>1, <3>2, <4>1
    <3>5. QED
      BY <3>3, <3>4
  <2>9. Rising(key, n, t)
    BY <2>4, <2>7, <2>8 DEF Rising, Below
  <2>10. QED
    BY <1>3, <2>1, <2>3, <2>4, <2>9 DEF a
<1>4. QED
  BY <1>2, <1>3

Sinking(key, n, s) ==
  /\ ~ s.raised
  /\ \A j \in 2..n : j # s.at /\ j \div 2 # s.at => Below(key, s.heap, j \div 2, j)
  /\ s.at > 1 => \A j \in 2..n : j \div 2 = s.at => Below(key, s.heap, s.at \div 2, j)

\* While an item sinks it may be out of order with its parent and its children.
LEMMA SinkStep ==
  ASSUME NEW key, NEW n \in Nat, NEW R, NEW s \in Sifts(n, R), Apart(key, R),
         Sinking(key, n, s)
  PROVE  /\ Sinking(key, n, Sink(key, s))
         /\ IF 2 * s.at > n THEN Sink(key, s) = s ELSE Sink(key, s).at > s.at
<1> DEFINE h == s.heap
           a == s.at
           left == 2 * a
<1>1. /\ a \in 1..n /\ \A i \in 1..n : key[h[i]] \in Nat
      /\ \A i, j \in 1..n : i # j => key[h[i]] # key[h[j]]
      /\ Len(h) = n /\ n \in Nat /\ left = 2 * a
  <2>1. a \in 1..n /\ Len(h) = n
    BY OrderLength DEF Sifts
  <2>2. \A i \in 1..n : key[h[i]] \in Nat
    BY SiftFacts
  <2>3. \A i, j \in 1..n : i # j => key[h[i]] # key[h[j]]
    BY SiftFacts
  <2>4. QED
    BY <2>1, <2>2, <2>3
<1> HIDE DEF left
<1>2. CASE left > n
  BY <1>1, <1>2 DEF Sink, left
<1>3. CASE left <= n
  <2> DEFINE c == IF left + 1 <= n /\ key[h[left + 1]] < key[h[left]] THEN left + 1 ELSE left
             t == Moved(s, c)
             g == t.heap
  <2>1. left \in 2..n /\ c \in 2..n /\ c \div 2 = a /\ c > a
    <3>1. c = left \/ (left + 1 <= n /\ c = left + 1)
      OBVIOUS
    <3> HIDE DEF h, a, c
    <3>2. a \in Nat /\ a > 0
      BY <1>1
    <3>3. (2 * a) \div 2 = a /\ (2 * a + 1) \div 2 = a
      BY <3>2
    <3>4. left \in 2..n /\ left > a
      BY <1>1, <1>3, <3>2
    <3>5. CASE c = left
      BY <1>1, <3>3, <3>4, <3>5
    <3>6. CASE left + 1 <= n /\ c = left + 1
      <4>1. c \in 2..n /\ c > a
        BY <3>2, <3>4, <3>6
      <4>2. QED
        BY <1>1, <3>3, <3>4, <3>6, <4>1
    <3>7. QED
      BY <3>1, <3>5, <3>6
  <2>2. \A j \in 2..n : j \div 2 = a /\ j # c => key[h[c]] < key[h[j]]
    <3>1. SUFFICES ASSUME NEW j \in 2..n, j \div 2 = a, j # c PROVE key[h[c]] < key[h[j]]
      OBVIOUS
    <3>2. j = left \/ j = left + 1
      <4>1. 2 * a <= j /\ j <= 2 * a + 1
        BY <3>1, Halves
      <4> HIDE DEF h, a, c
      <4>2. QED
        BY <1>1, <4>1
    <3>3. key[h[j]] # key[h[c]] /\ key[h[j]] \in Nat /\ key[h[c]] \in Nat
      <4> HIDE DEF h, a, c
      <4>1. j \in 1..n /\ c \in 1..n
        BY <2>1
      <4>2. QED
        BY <1>1, <3>1, <4>1
    <3> HIDE DEF h, a
    <3>4. CASE j = left
      BY <1>1, <2>1, <3>1, <3>3, <3>4
    <3>5. CASE j = left + 1
      BY <1>1, <2>1, <3>1, <3>3, <3>5
    <3>6. QED
      BY <3>2, <3>4, <3>5
  <2>3. Sink(key, s) = t
    <3>1. left + 1 <= n => key[h[left]] # key[h[left + 1]]
      <4> HIDE DEF h, a
      <4>1. left \in 1..n /\ (left + 1 <= n => left + 1 \in 1..n)
        BY <1>1, <2>1
      <4>2. left # left + 1
        BY <2>1
      <4>3. QED
        BY <1>1, <4>1, <4>2
    <3>2. QED
      BY <1>1, <1>3, <3>1 DEF Sink, left
  <2>4. /\ t.at = c /\ ~ t.raised
        /\ \A i \in 1..n : g[i] = IF i = c THEN h[a] ELSE IF i = a THEN h[c] ELSE h[i]
    <3>1. ~ s.raised /\ c \in 1..n
      BY <2>1 DEF Sinking
    <3> HIDE DEF c
    <3>2. /\ Moved(s, c).at = c /\ Moved(s, c).raised = s.raised
          /\ \A i \in 1..n : Moved(s, c).heap[i] = IF i = c THEN s.heap[s.at]
                     ELSE IF i = s.at THEN s.heap[c] ELSE s.heap[i]
      BY <3>1, MovedIn
    <3>3. QED
      BY <3>1, <3>2
  <2>5. /\ \A j \in 2..n : j # a /\ j \div 2 # a => key[h[j \div 2]] < key[h[j]]
        /\ a > 1 => \A j \in 2..n : j \div 2 = a => key[h[a \div 2]] < key[h[j]]
    BY DEF Sinking, Below
  <2>6. \A j \in 2..n : j \in 1..n /\ j \div 2 \in 1..n /\ j \div 2 < j
    BY Halves
  <2> HIDE DEF t, h, a, c, left
  <2>7. ASSUME NEW j \in 2..n, j # c, j \div 2 # c PROVE key[g[j \div 2]] < key[g[j]]
    <3>1. CASE j = a
      <4>1. g[j] = h[c] /\ g[j \div 2] = h[j \div 2]
        BY <1>1, <2>1, <2>4, <2>6, <2>7, <3>1
      <4>2. key[h[j \div 2]] < key[h[c]]
        BY <2>1, <2>5, <3>1
      <4>3. QED
        BY <4>1, <4>2
    <3>2. CASE j # a /\ j \div 2 = a
      <4>1. g[j] = h[j] /\ g[j \div 2] = h[c]
        BY <1>1, <2>1, <2>4, <2>6, <2>7, <3>2
      <4>2. QED
        BY <2>2, <2>7, <3>2, <4>1
    <3>3. CASE j # a /\ j \div 2 # a
      BY <1>1, <2>1, <2>4, <2>5, <2>6, <2>7, <3>3
    <3>4. QED
      BY <3>1, <3>2, <3>3
  <2>8. ASSUME NEW j \in 2..n, j \div 2 = c PROVE key[g[c \div 2]] < key[g[j]]
    <3>1. j # a /\ j \div 2 # a /\ j # c
      BY <1>1, <2>1, <2>6, <2>8
    <3>2. g[c \div 2] = h[c] /\ g[j] = h[j]
      BY <1>1, <2>1, <2>4, <2>6, <3>1
    <3>3. QED
      BY <2>5, <2>8, <3>1, <3>2
  <2>9. Sinking(key, n, t)
    BY <2>4, <2>7, <2>8 DEF Sinking, Below
  <2>10. QED
    BY <1>1, <1>3, <2>1, <2>3, <2>4, <2>9 DEF a, left
<1>4. QED
  BY <1>1, <1>2, <1>3

\* As long as priorities differ, a sift that starts at one misplaced item raises
\* nothing and leaves a heap.
LEMMA SiftDownOrders ==
  ASSUME NEW key, NEW n \in Nat, NEW R, NEW s \in Sifts(n, R), Apart(key, R),
         Rising(key, n, s)
  PROVE  LET t == SiftDown(key, s) IN ~ t.raised /\ IsHeap(key, t.heap, n)
<1> DEFINE S == Sifts(n, R)
           P == [k \in 0..n |-> {r \in S : Rising(key, n, r) /\ (Settled(key, r) \/ r.at <= n - k)}]
           t == SiftDown(key, s)
<1>1. \A r \in S : Rise(key, r) \in S /\ Len(r.heap) = n /\ r.at \in 1..n
  <2>1. SUFFICES ASSUME NEW r \in S
                 PROVE  Rise(key, r) \in S /\ Len(r.heap) = n /\ r.at \in 1..n
    OBVIOUS
  <2>2. Rise(key, r) \in S
    BY StepsIn
  <2>3. Len(r.heap) = n /\ r.at \in 1..n
    BY OrderLength DEF Sifts
  <2>4. QED
    BY <2>2, <2>3
<1>2. P \in [0..n -> SUBSET S]
  OBVIOUS
<1>3. \A k \in 0..n : \A r : r \in P[k] <=>
        r \in S /\ Rising(key, n, r) /\ (Settled(key, r) \/ r.at <= n - k)
  OBVIOUS
<1> HIDE DEF P
<1>4. 0 \in 0..n /\ n \in 0..n
  OBVIOUS
<1>5. s \in P[0]
  BY <1>1, <1>3, <1>4
<1>6. ASSUME NEW k \in 1..n, NEW r \in P[k - 1] PROVE Rise(key, r) \in P[k]
  <2>1. k - 1 \in 0..n /\ k \in 0..n
    OBVIOUS
  <2>2. r \in S /\ Rising(key, n, r) /\ (Settled(key, r) \/ r.at <= n - (k - 1))
    BY <1>3, <2>1
  <2>3. Rise(key, r) \in S /\ r.at \in 1..n /\ Rise(key, r).at \in 1..n
    BY <1>1, <2>2
  <2>4. Rising(key, n, Rise(key, r))
    BY <2>2, RiseStep
  <2>5. IF Settled(key, r) THEN Rise(key, r) = r ELSE Rise(key, r).at < r.at
    BY <2>2, RiseStep
  <2>6. Settled(key, Rise(key, r)) \/ Rise(key, r).at <= n - k
    <3>1. CASE Settled(key, r)
      BY <2>5, <3>1
    <3>2. CASE ~ Settled(key, r)
      BY <2>2, <2>3, <2>5, <3>2
    <3>3. QED
      BY <3>1, <3>2
  <2>7. QED
    BY <1>3, <2>1, <2>3, <2>4, <2>6
<1>7. t \in P[n]
  <2>1. \A k \in 1..n : \A r \in P[k - 1] : Rise(key, r) \in P[k]
    BY <1>6
  <2>2. QED
    BY <1>1, <1>2, <1>5, <2>1, Rises
<1> HIDE DEF t
<1>8. t \in S /\ Rising(key, n, t) /\ (Settled(key, t) \/ t.at <= n - n)
  BY <1>3, <1>4, <1>7
<1>9. Settled(key, t)
  BY <1>1, <1>8
<1>10. ASSUME NEW j \in 2..n PROVE Below(key, t.heap, j \div 2, j)
  BY <1>8, <1>9 DEF Rising, Settled
<1>11. QED
  BY <1>8, <1>10 DEF Rising, IsHeap, t

LEMMA SiftUpOrders ==
  ASSUME NEW key, NEW n \in Nat, NEW R, NEW s \in Sifts(n, R), Apart(key, R),
         Sinking(key, n, s), s.at = 1
  PROVE  LET t == SiftUp(key, s) IN ~ t.raised /\ IsHeap(key, t.heap, n)
<1> DEFINE S == Sifts(n, R)
           P == [k \in 0..n |-> {r \in S : Sinking(key, n, r) /\ (2 * r.at > n \/ r.at > k)}]
           t == ToLeaf(key, s)
<1>1. \A r \in S : Sink(key, r) \in S /\ Len(r.heap) = n /\ r.at \in 1..n
  <2>1. SUFFICES ASSUME NEW r \in S
                 PROVE  Sink(key, r) \in S /\ Len(r.heap) = n /\ r.at \in 1..n
    OBVIOUS
  <2>2. Sink(key, r) \in S
    BY StepsIn
  <2>3. Len(r.heap) = n /\ r.at \in 1..n
    BY OrderLength DEF Sifts
  <2>4. QED
    BY <2>2, <2>3
<1>2. P \in [0..n -> SUBSET S]
  OBVIOUS
<1>3. \A k \in 0..n : \A r : r \in P[k] <=>
        r \in S /\ Sinking(key, n, r) /\ (2 * r.at > n \/ r.at > k)
  OBVIOUS
<1> HIDE DEF P
<1>4. 0 \in 0..n /\ n \in 0..n
  OBVIOUS
<1>5. s \in P[0]
  BY <1>3, <1>4
<1>6. ASSUME NEW k \in 1..n, NEW r \in P[k - 1] PROVE Sink(key, r) \in P[k]
  <2>1. k - 1 \in 0..n /\ k \in 0..n
    OBVIOUS
  <2>2. r \in S /\ Sinking(key, n, r) /\ (2 * r.at > n \/ r.at > k - 1)
    BY <1>3, <2>1
  <2>3. Sink(key, r) \in S /\ r.at \in 1..n /\ Sink(key, r).at \in 1..n
    BY <1>1, <2>2
  <2>4. Sinking(key, n, Sink(key, r))
    BY <2>2, SinkStep
  <2>5. IF 2 * r.at > n THEN Sink(key, r) = r ELSE Sink(key, r).at > r.at
    BY <2>2, SinkStep
  <2>6. 2 * Sink(key, r).at > n \/ Sink(key, r).at > k
    <3>1. CASE 2 * r.at > n
      BY <2>5, <3>1
    <3>2. CASE ~ (2 * r.at > n)
      BY <2>2, <2>3, <2>5, <3>2
    <3>3. QED
      BY <3>1, <3>2
  <2>7. QED
    BY <1>3, <2>1, <2>3, <2>4, <2>6
<1>7. t \in P[n]
  <2>1. \A k \in 1..n : \A r \in P[k - 1] : Sink(key, r) \in P[k]
    BY <1>6
  <2>2. QED
    BY <1>1, <1>2, <1>5, <2>1, Sinks
<1>8. SiftUp(key, s) = IF t.raised THEN t ELSE SiftDown(key, t)
  BY DEF SiftUp
<1> HIDE DEF t
<1>9. t \in S /\ Sinking(key, n, t) /\ (2 * t.at > n \/ t.at > n)
  BY <1>3, <1>4, <1>7
<1>10. t.at \in 1..n /\ \A j \in 2..n : j \div 2 # t.at
  <2>1. t.at \in 1..n /\ 2 * t.at > n
    BY <1>1, <1>9
  <2>2. QED
    BY <2>1, Halves
<1>11. Rising(key, n, t)
  BY <1>9, <1>10 DEF Rising, Sinking
<1>12. ~ SiftDown(key, t).raised /\ IsHeap(key, SiftDown(key, t).heap, n)
  BY <1>9, <1>11, SiftDownOrders
<1>13. QED
  BY <1>8, <1>11, <1>12 DEF Rising

\* The first of a heap comes before all others.
LEMMA FirstIsLeast ==
  ASSUME NEW key, NEW n \in Nat, NEW R, NEW h \in Orders(n, R), Apart(key, R),
         IsHeap(key, h, n), NEW j \in 2..n
  PROVE  key[h[1]] < key[h[j]]
<1> DEFINE A == {k \in Nat : \A i \in 2..n : i <= k => key[h[1]] < key[h[i]]}
<1>0. \A i \in 1..n : key[h[i]] \in Nat
  BY DEF Orders, Apart
<1>1. 0 \in A
  OBVIOUS
<1>2. ASSUME NEW k \in Nat, k \in A PROVE k + 1 \in A
  <2>1. SUFFICES ASSUME NEW i \in 2..n, i = k + 1 PROVE key[h[1]] < key[h[i]]
    BY <1>2
  <2>2. i \div 2 \in 1..n /\ i \div 2 <= k
    BY <2>1, Halves
  <2>3. key[h[i \div 2]] < key[h[i]]
    BY DEF IsHeap, Below
  <2>4. CASE i \div 2 = 1
    BY <2>3, <2>4
  <2>5. CASE i \div 2 # 1
    <3>1. key[h[1]] < key[h[i \div 2]]
      BY <1>2, <2>2, <2>5
    <3>2. 1 \in 1..n /\ i \in 1..n
      OBVIOUS
    <3>3. QED
      BY <1>0, <2>2, <2>3, <3>1, <3>2
  <2>6. QED
    BY <2>4, <2>5
<1>3. n \in A
  <2> HIDE DEF A
  <2>1. QED
    BY <1>1, <1>2, SetInduction
<1>4. QED
  BY <1>3

LEMMA PushOrders ==
  ASSUME NEW key, NEW n \in Nat, NEW R, NEW h \in Orders(n, R), NEW x, x \notin R,
         Apart(key, R \cup {x}), IsHeap(key, h, n)
  PROVE  ~ Push(key, h, x).raised /\ IsHeap(key, Push(key, h, x).heap, n + 1)
<1> DEFINE g == Append(h, x)
           s == Sift(g, n + 1)
<1>1. h \in [1..n -> R] /\ h \in Seq(R) /\ Len(h) = n
  BY OrderLength DEF Orders
<1>2. g \in Orders(n + 1, R \cup {x}) /\ \A i \in 1..n : g[i] = h[i]
  <2>1. Append(h, x) \in Orders(n + 1, R \cup {x}) /\ \A i \in 1..n : Append(h, x)[i] = h[i]
    <3>1. Append(h, x) \in Orders(n + 1, R \cup {x})
      BY AppendIn
    <3>2. \A i \in 1..n : Append(h, x)[i] = h[i]
      <4>1. h \in Seq(R \cup {x}) /\ x \in R \cup {x}
        BY <1>1
      <4>2. QED
        BY <1>1, <4>1, AppendProperties
    <3>3. QED
      BY <3>1, <3>2
  <2>2. QED
    BY <2>1
<1>3. Push(key, h, x) = SiftDown(key, s)
  BY <1>1 DEF Push
<1> HIDE DEF g
<1>4. s \in Sifts(n + 1, R \cup {x}) /\ s.heap = g /\ s.at = n + 1 /\ ~ s.raised
  BY <1>2 DEF Sift, Sifts
<1> HIDE DEF s
<1>5. ASSUME NEW j \in 2..n + 1, j # n + 1 PROVE Below(key, g, j \div 2, j)
  <2>1. j \in 2..n
    BY <1>5
  <2>2. j \div 2 \in 1..n /\ j \in 1..n
    BY <2>1, Halves
  <2>3. QED
    BY <1>2, <2>1, <2>2 DEF IsHeap, Below
<1>6. ASSUME NEW j \in 2..n + 1 PROVE j \div 2 # n + 1
  BY <1>6, Halves
<1>7. Rising(key, n + 1, s)
  BY <1>4, <1>5, <1>6 DEF Rising
<1>8. QED
  BY <1>3, <1>4, <1>7, SiftDownOrders

LEMMA PopOrders ==
  ASSUME NEW key, NEW n \in Nat, NEW R, NEW h \in Orders(n, R), n > 0,
         Apart(key, R), IsHeap(key, h, n)
  PROVE  ~ Pop(key, h).raised /\ IsHeap(key, Pop(key, h).heap, n - 1)
<1>1. CASE n = 1
  <2>1. Pop(key, h) = Sift(<<>>, 1)
    BY <1>1, PopIs
  <2>2. QED
    BY <1>1, <2>1 DEF Sift, IsHeap
<1>2. CASE n # 1
  <2> DEFINE m == n - 1
             Q == R \ {h[1]}
             s == Sift(Rest(h, n), 1)
  <2>1. Rest(h, n) \in Orders(m, Q) /\ m \in Nat /\ 1 \in 1..m
    BY <1>2, RestIn
  <2>2. s \in Sifts(m, Q) /\ s.heap = Rest(h, n) /\ s.at = 1 /\ ~ s.raised
    BY <2>1 DEF Sift, Sifts
  <2>3. ASSUME NEW j \in 2..m, j \div 2 # 1 PROVE Below(key, Rest(h, n), j \div 2, j)
    <3>1. j \in 2..n /\ j \in 1..n - 1 /\ j # 1 /\ j \div 2 \in 1..n - 1
      BY Halves
    <3>2. Rest(h, n)[j] = h[j] /\ Rest(h, n)[j \div 2] = h[j \div 2]
      BY <2>3, <3>1 DEF Rest
    <3>3. QED
      BY <3>1, <3>2 DEF IsHeap, Below
  <2>4. Apart(key, Q)
    BY DEF Apart
  <2> HIDE DEF s
  <2>5. Sinking(key, m, s)
    BY <2>2, <2>3 DEF Sinking
  <2>6. Pop(key, h) = SiftUp(key, s)
    BY <1>2, PopIs DEF s
  <2>7. QED
    BY <2>1, <2>2, <2>4, <2>5, <2>6, SiftUpOrders
<1>3. QED
  BY <1>1, <1>2

-----------------------------------------------------------------------------
(* The sequences of the queue *)

\* Nothing is in the sequence twice.
Single(s) == s \in Orders(Len(s), Elements(s))

LEMMA OrderElements ==
  ASSUME NEW n \in Nat, NEW R, NEW h \in Orders(n, R)
  PROVE  /\ h \in Seq(R) /\ Len(h) = n /\ Elements(h) = R /\ Single(h)
         /\ n > 0 => h # <<>> /\ Head(h) = h[1] /\ h[1] \in R
         /\ n = 0 => h = <<>>
<1>1. h \in Seq(R) /\ Len(h) = n /\ h \in [1..n -> R] /\ \A x \in R : \E i \in 1..n : h[i] = x
  BY OrderLength DEF Orders
<1>2. Elements(h) = R
  BY <1>1 DEF Elements
<1>3. n > 0 => h # <<>> /\ Head(h) = h[1] /\ h[1] \in R
  BY <1>1
<1>4. n = 0 => h = <<>>
  BY <1>1
<1>5. QED
  BY <1>1, <1>2, <1>3, <1>4 DEF Single

LEMMA EmptyIsSingle == Single(<<>>) /\ Elements(<<>>) = {}
<1>1. <<>> \in Orders(0, {})
  BY DEF Orders
<1>2. QED
  BY <1>1, OrderElements

LEMMA TailIn ==
  ASSUME NEW n \in Nat, NEW R, NEW h \in Orders(n, R), n > 0
  PROVE  Tail(h) \in Orders(n - 1, R \ {h[1]})
<1> DEFINE g == Tail(h)
<1>1. /\ h \in [1..n -> R] /\ h \in Seq(R) /\ Len(h) = n
      /\ \A x \in R : \E i \in 1..n : h[i] = x
      /\ \A i, k \in 1..n : h[i] = h[k] => i = k
  BY OrderLength DEF Orders
<1>2. g \in Seq(R) /\ Len(g) = n - 1 /\ \A i \in 1..n - 1 : g[i] = h[i + 1]
  BY <1>1, HeadTailProperties
<1> HIDE DEF g
<1>3. g \in [1..n - 1 -> R \ {h[1]}]
  <2>1. g \in [1..n - 1 -> R]
    BY <1>2, LenProperties
  <2>2. \A i \in 1..n - 1 : g[i] # h[1]
    BY <1>1, <1>2
  <2>3. QED
    BY <2>1, <2>2
<1>4. ASSUME NEW x \in R \ {h[1]} PROVE \E i \in 1..n - 1 : g[i] = x
  <2>1. PICK i \in 1..n : h[i] = x
    BY <1>1
  <2>2. i - 1 \in 1..n - 1 /\ (i - 1) + 1 = i
    BY <2>1
  <2>3. QED
    BY <1>2, <2>1, <2>2
<1>5. \A i, k \in 1..n - 1 : g[i] = g[k] => i = k
  BY <1>1, <1>2
<1>6. QED
  BY <1>3, <1>4, <1>5 DEF Orders, g

\* The same in terms of what is in the sequence.
LEMMA Takes ==
  ASSUME NEW s, Single(s), NEW S, s \in Seq(S), s # <<>>
  PROVE  /\ Single(Tail(s)) /\ Elements(Tail(s)) = Elements(s) \ {Head(s)}
         /\ Head(s) \in Elements(s) /\ Head(s) \in S /\ Tail(s) \in Seq(S)
<1> DEFINE n == Len(s)
           R == Elements(s)
<1>1. n \in Nat /\ n > 0 /\ s \in Orders(n, R) /\ Head(s) = s[1] /\ Head(s) \in S
      /\ Tail(s) \in Seq(S)
  BY HeadTailProperties, EmptySeq DEF Single
<1> HIDE DEF n, R
<1>2. Tail(s) \in Orders(n - 1, R \ {s[1]}) /\ n - 1 \in Nat
  BY <1>1, TailIn
<1>3. Head(s) \in R
  BY <1>1, OrderElements
<1>4. Single(Tail(s)) /\ Elements(Tail(s)) = R \ {s[1]}
  BY <1>2, OrderElements
<1>5. QED
  BY <1>1, <1>3, <1>4 DEF R

LEMMA Appends ==
  ASSUME NEW s, Single(s), NEW S, s \in Seq(S), NEW x \in S, x \notin Elements(s)
  PROVE  /\ Single(Append(s, x)) /\ Elements(Append(s, x)) = Elements(s) \cup {x}
         /\ Append(s, x) \in Seq(S)
<1> DEFINE n == Len(s)
           R == Elements(s)
<1>1. n \in Nat /\ s \in Orders(n, R)
  BY DEF Single
<1>2. x \notin R
  OBVIOUS
<1> HIDE DEF n, R
<1>3. Append(s, x) \in Orders(n + 1, R \cup {x}) /\ n + 1 \in Nat
  BY <1>1, <1>2, AppendIn
<1>4. Single(Append(s, x)) /\ Elements(Append(s, x)) = R \cup {x}
  BY <1>3, OrderElements
<1>5. QED
  BY <1>4, AppendProperties DEF R

\* What a step does to the elements of a sequence.
Gains(h, s, x) == Elements(h) = Elements(s) \cup {x}
Loses(h, s, x) == Elements(h) = Elements(s) \ {x}

LEMMA Pushes ==
  ASSUME NEW key, NEW s, Single(s), Len(s) \in Nat, NEW x, x \notin Elements(s),
         NEW T, Elements(s) \subseteq T, x \in T, NEW push, push = Push(key, s, x)
  PROVE  /\ Single(push.heap)
         /\ Gains(push.heap, s, x)
         /\ push.heap \in Seq(T) /\ Len(push.heap) = Len(s) + 1
         /\ Apart(key, T) /\ IsHeap(key, s, Len(s)) =>
              ~ push.raised /\ IsHeap(key, push.heap, Len(push.heap))
<1> DEFINE n == Len(s)
           R == Elements(s)
<1>1. n \in Nat /\ n + 1 \in Nat /\ s \in Orders(n, R) /\ x \notin R
  BY DEF Single
<1>2. push.heap \in Orders(n + 1, R \cup {x})
  <2> HIDE DEF n, R
  <2>1. QED
    BY <1>1, PushIn
<1>3. Apart(key, R \cup {x}) /\ IsHeap(key, s, n) =>
        ~ push.raised /\ IsHeap(key, push.heap, n + 1)
  <2> HIDE DEF n, R
  <2>1. QED
    BY <1>1, PushOrders
<1> HIDE DEF n, R
<1>4. /\ Single(push.heap) /\ Elements(push.heap) = R \cup {x}
      /\ push.heap \in Seq(R \cup {x}) /\ Len(push.heap) = n + 1
  BY <1>1, <1>2, OrderElements
<1>5. push.heap \in Seq(T) /\ (Apart(key, T) => Apart(key, R \cup {x}))
  BY <1>4 DEF Apart, R
<1>6. QED
  BY <1>3, <1>4, <1>5 DEF n, R, Gains

LEMMA Pops ==
  ASSUME NEW key, NEW s, Single(s), Len(s) \in Nat \ {0},
         NEW T, Elements(s) \subseteq T, NEW pop, pop = Pop(key, s)
  PROVE  /\ Single(pop.heap)
         /\ Loses(pop.heap, s, Head(s))
         /\ pop.heap \in Seq(T) /\ Len(pop.heap) = Len(s) - 1
         /\ Head(s) \in Elements(s)
         /\ Apart(key, T) /\ IsHeap(key, s, Len(s)) =>
              /\ ~ pop.raised /\ IsHeap(key, pop.heap, Len(pop.heap))
              /\ \A x \in Elements(pop.heap) : key[Head(s)] < key[x]
<1> DEFINE n == Len(s)
           R == Elements(s)
<1>1. n \in Nat /\ n > 0 /\ n - 1 \in Nat /\ s \in Orders(n, R)
  BY DEF Single
<1> HIDE DEF n, R
<1>2. Head(s) = s[1] /\ Head(s) \in R
  BY <1>1, OrderElements
<1>3. pop.heap \in Orders(n - 1, R \ {Head(s)})
  BY <1>1, <1>2, PopIn
<1>4. Apart(key, R) /\ IsHeap(key, s, n) => ~ pop.raised /\ IsHeap(key, pop.heap, n - 1)
  BY <1>1, PopOrders
<1>5. ASSUME Apart(key, R), IsHeap(key, s, n), NEW x \in R \ {Head(s)}
      PROVE  key[Head(s)] < key[x]
  <2>1. PICK i \in 1..n : s[i] = x
    BY <1>1 DEF Orders
  <2>2. i \in 2..n
    BY <1>1, <1>2, <2>1
  <2>3. key[s[1]] < key[s[i]]
    BY <1>1, <1>5, <2>2, FirstIsLeast
  <2>4. QED
    BY <1>2, <2>1, <2>3
<1>6. /\ Single(pop.heap) /\ Elements(pop.heap) = R \ {Head(s)}
      /\ pop.heap \in Seq(R \ {Head(s)}) /\ Len(pop.heap) = n - 1
  BY <1>1, <1>3, OrderElements
<1>7. pop.heap \in Seq(T) /\ (Apart(key, T) => Apart(key, R))
  BY <1>6 DEF Apart, R
<1>8. QED
  BY <1>2, <1>4, <1>5, <1>6, <1>7 DEF n, R, Loses

-----------------------------------------------------------------------------
(* The invariant *)

\* A command is in one place at a time, and the queue is a heap.
QueueInv ==
  /\ Single(listener.put) /\ Single(commandQueue) /\ Single(backgroundCommandQueue)
  /\ Elements(commandQueue) \subseteq Tasks \ Background
  /\ \A t \in Tasks :
       /\ t \in fresh => t \notin Elements(listener.put)
       /\ t \in fresh \cup Elements(listener.put) =>
            t \notin Elements(commandQueue) \cup Elements(backgroundCommandQueue)
       /\ t \in fresh \cup Elements(listener.put) \cup Elements(commandQueue)
                \cup Elements(backgroundCommandQueue) => job[t].at = "none"
  /\ Distinct => IsHeap(priority, commandQueue, Len(commandQueue))

\* An attempt begins only while one is left.
JobInv ==
  /\ IsFiniteSet(active_futures)
  /\ \A t \in Tasks :
       /\ job[t].at \in Waiting => job[t].attempt = 0
       /\ job[t].at \in {"check", "delay"} => job[t].attempt < MaxAttempts

\* What the properties about the end of a command rest on: a request that comes
\* while it is executed stays until it gives up, so that no attempt follows one
\* that was started after the request.
FateInv ==
  \A t \in Tasks :
    /\ t \in taskIdsToCancel => asked[t] # "no"
    /\ t \notin Background /\ status[t] \in Final => job[t].at = "done"
    /\ t \notin Background /\ job[t].at = "done" =>
         status[t] \in Final \/ asked[t] # "no" \/ stop_event
    /\ asked[t] = "executing" =>
         job[t].at \notin Waiting /\ (job[t].at \in Executing => t \in taskIdsToCancel)
    /\ extra[t] \in {0, 1}
    /\ job[t].at \in Waiting \cup {"attempt"} => extra[t] = 0
    /\ extra[t] = 1 /\ job[t].at \in Executing => t \in taskIdsToCancel

IInv == TypeOK /\ QueueInv /\ JobInv /\ FateInv

LEMMA DistinctApart ==
  ASSUME TypeOK, Distinct, NEW R, R \subseteq Tasks \ Background
  PROVE  Apart(priority, R)
<1>1. priority \in [Tasks \ Background -> Nat]
  BY QueueAssumption DEF TypeOK
<1>2. QED
  BY <1>1 DEF Apart, Distinct

LEMMA AtInit == Init => IInv
<1>1. SUFFICES ASSUME Init PROVE IInv
  OBVIOUS
<1>2. TypeOK
  <2>1. Cardinality({}) = 0 /\ 0 \in 0..MaxAttempts /\ 0 <= MaxConcurrent
    BY FS_EmptySet, QueueAssumption
  <2>2. /\ listener \in [cancel : SUBSET Tasks, put : Seq(Tasks)]
        /\ commandQueue \in Seq(Tasks) /\ backgroundCommandQueue \in Seq(Background)
    BY <1>1 DEF Init
  <2>3. /\ main \in [at : {"background", "more background", "queue", "wait", "stopped"},
                      task : Tasks \cup {NoTask}]
        /\ job \in [Tasks -> [at : Place, attempt : 0..MaxAttempts]]
    BY <1>1, <2>1 DEF Init, Place
  <2>4. /\ status \in [Tasks -> Status]
        /\ asked \in [Tasks -> {"no", "executing", "otherwise"}]
        /\ extra \in [Tasks -> Nat]
    BY <1>1 DEF Init, Status
  <2>5. /\ active_futures \subseteq Retryable /\ Cardinality(active_futures) <= MaxConcurrent
        /\ taskIdsToCancel \subseteq Tasks
    BY <1>1, <2>1 DEF Init
  <2>6. /\ parallel_execution \in BOOLEAN /\ priority \in PriorityMaps /\ stop_event \in BOOLEAN
        /\ fresh \subseteq Tasks
    BY <1>1 DEF Init
  <2>7. QED
    BY <2>2, <2>3, <2>4, <2>5, <2>6 DEF TypeOK
<1>3. QueueInv
  <2>1. /\ Single(listener.put) /\ Single(commandQueue) /\ Single(backgroundCommandQueue)
        /\ Elements(listener.put) = {} /\ Elements(commandQueue) = {}
        /\ Elements(backgroundCommandQueue) = {} /\ Len(commandQueue) = 0
    BY <1>1, EmptyIsSingle DEF Init
  <2>2. IsHeap(priority, commandQueue, Len(commandQueue))
    BY <2>1 DEF IsHeap
  <2>3. \A t \in Tasks : job[t].at = "none"
    BY <1>1 DEF Init
  <2>4. QED
    BY <2>1, <2>2, <2>3 DEF QueueInv
<1>4. JobInv
  BY <1>1, FS_EmptySet, QueueAssumption DEF Init, JobInv
<1>5. FateInv
  BY <1>1 DEF Init, FateInv, Final, Executing
<1>6. QED
  BY <1>2, <1>3, <1>4, <1>5 DEF IInv

-----------------------------------------------------------------------------
(* Each step keeps it: the commands that are executed *)

LEMMA QueueKept ==
  ASSUME QueueInv, listener'.put = listener.put,
         UNCHANGED <<priority, fresh, commandQueue, backgroundCommandQueue>>,
         \A u \in Tasks : job[u].at = "none" => job'[u].at = "none"
  PROVE  QueueInv'
<1>1. Distinct' <=> Distinct
  BY DEF Distinct
<1>2. QED
  BY <1>1 DEF QueueInv

\* A thread that ends leaves the pool, or the thread of the queue.
LEMMA EndTyped ==
  ASSUME TypeOK, JobInv, NEW t \in Tasks, End(t)
  PROVE  /\ main' \in [at : {"background", "more background", "queue", "wait", "stopped"},
                       task : Tasks \cup {NoTask}]
         /\ active_futures' \subseteq Retryable /\ Cardinality(active_futures') <= MaxConcurrent
         /\ IsFiniteSet(active_futures')
<1>1. active_futures' = active_futures \/ active_futures' = active_futures \ {t}
  BY DEF End
<1>2. IsFiniteSet(active_futures) /\ active_futures \subseteq Retryable
      /\ Cardinality(active_futures) <= MaxConcurrent
  BY DEF TypeOK, JobInv
<1>3. /\ active_futures' \subseteq Retryable /\ Cardinality(active_futures') <= MaxConcurrent
      /\ IsFiniteSet(active_futures')
  <2>1. CASE active_futures' = active_futures
    BY <1>2, <2>1
  <2>2. CASE active_futures' = active_futures \ {t}
    <3>1. active_futures \ {t} \subseteq active_futures
      OBVIOUS
    <3>2. /\ IsFiniteSet(active_futures \ {t})
          /\ Cardinality(active_futures \ {t}) <= Cardinality(active_futures)
      BY <1>2, <3>1, FS_Subset
    <3>3. Cardinality(active_futures \ {t}) \in Nat /\ Cardinality(active_futures) \in Nat
      BY <1>2, <3>2, FS_CardinalityType
    <3>4. QED
      BY <1>2, <2>2, <3>2, <3>3, QueueAssumption
  <2>3. QED
    BY <1>1, <2>1, <2>2
<1>4. main \in [at : {"background", "more background", "queue", "wait", "stopped"},
                task : Tasks \cup {NoTask}]
  BY DEF TypeOK
<1>5. main' = main \/ main' = [at |-> main.at, task |-> NoTask]
  BY DEF End, At
<1>6. main' \in [at : {"background", "more background", "queue", "wait", "stopped"},
                 task : Tasks \cup {NoTask}]
  <2>1. main.at \in {"background", "more background", "queue", "wait", "stopped"}
    BY <1>4
  <2>2. [at |-> main.at, task |-> NoTask] \in
          [at : {"background", "more background", "queue", "wait", "stopped"},
           task : Tasks \cup {NoTask}]
    BY <2>1
  <2>3. QED
    BY <1>4, <1>5, <2>2, Zenon
<1>7. QED
  BY <1>3, <1>6

LEMMA JobStepTyped ==
  ASSUME TypeOK, JobInv, NEW t \in Tasks, JobStep(t)
  PROVE  TypeOK' /\ JobInv'
<1>1. /\ job \in [Tasks -> [at : Place, attempt : 0..MaxAttempts]]
      /\ status \in [Tasks -> Status]
      /\ asked \in [Tasks -> {"no", "executing", "otherwise"}]
      /\ extra \in [Tasks -> Nat] /\ taskIdsToCancel \subseteq Tasks
  BY DEF TypeOK
<1>2. UNCHANGED <<config, fresh, listener, queues, stop_event>>
  BY DEF JobStep, Begin, Discard, GiveUp, Check, Launch, Succeed, Fail, Delay, Report, OnlyJob
<1>3. /\ taskIdsToCancel' \subseteq Tasks
      /\ asked' \in [Tasks -> {"no", "executing", "otherwise"}]
      /\ extra' \in [Tasks -> Nat]
  <2>1. taskIdsToCancel' \subseteq taskIdsToCancel /\ asked' = asked
    BY DEF JobStep, Begin, Discard, GiveUp, Check, Launch, Succeed, Fail, Delay, Report,
                OnlyJob, history
  <2>2. extra' = extra \/ extra' = [extra EXCEPT ![t] = @ + (IF asked[t] = "executing" THEN 1 ELSE 0)]
    BY DEF JobStep, Begin, Discard, GiveUp, Check, Launch, Succeed, Fail, Delay, Report,
                OnlyJob, history
  <2>3. extra' \in [Tasks -> Nat]
    BY <1>1, <2>2
  <2>4. QED
    BY <1>1, <2>1, <2>3
<1>4. status' \in [Tasks -> Status]
  BY <1>1 DEF JobStep, Begin, Discard, GiveUp, Check, Launch, Succeed, Fail, Delay, Report, OnlyJob, Status, Final, FinalStatus
<1>5. /\ main' \in [at : {"background", "more background", "queue", "wait", "stopped"},
                    task : Tasks \cup {NoTask}]
      /\ active_futures' \subseteq Retryable /\ Cardinality(active_futures') <= MaxConcurrent
      /\ IsFiniteSet(active_futures')
  <2>1. CASE End(t)
    BY <2>1, EndTyped
  <2>2. CASE UNCHANGED <<active_futures, main>>
    BY <2>2 DEF TypeOK, JobInv
  <2>3. End(t) \/ UNCHANGED <<active_futures, main>>
    BY DEF JobStep, Begin, Discard, GiveUp, Check, Launch, Succeed, Fail, Delay, Report
  <2>4. QED
    BY <2>1, <2>2, <2>3
<1>6. /\ job' \in [Tasks -> [at : Place, attempt : 0..MaxAttempts]]
      /\ \A u \in Tasks : u # t => job'[u] = job[u]
      /\ job'[t].at \in Waiting => job'[t].attempt = 0
      /\ job'[t].at \in {"check", "delay"} => job'[t].attempt < MaxAttempts
  <2>1. /\ job[t].at \in Waiting => job[t].attempt = 0
        /\ job[t].at \in {"check", "delay"} => job[t].attempt < MaxAttempts
    BY DEF JobInv
  <2>2. job[t] \in [at : Place, attempt : 0..MaxAttempts] /\ MaxAttempts \in Nat \ {0}
    BY <1>1, QueueAssumption
  <2>3. CASE Begin(t)
    BY <1>1, <2>1, <2>2, <2>3 DEF Begin, Goes, Place, Waiting
  <2>4. CASE GiveUp(t) \/ Report(t)
    BY <1>1, <2>1, <2>2, <2>4 DEF GiveUp, Report, End, Place, Waiting
  <2>5. CASE Check(t)
    <3>1. CASE job' = [job EXCEPT ![t] = [at |-> "attempt", attempt |-> @.attempt + 1]]
      BY <1>1, <2>1, <2>2, <2>5, <3>1 DEF Check, Place, Waiting
    <3>2. CASE job' = [job EXCEPT ![t].at = "failed"]
      BY <1>1, <2>1, <2>2, <2>5, <3>2 DEF Place, Waiting
    <3>3. QED
      BY <2>5, <3>1, <3>2 DEF Check
  <2>6. CASE Launch(t) \/ Succeed(t) \/ Delay(t)
    BY <1>1, <2>1, <2>2, <2>6 DEF Launch, Succeed, Delay, Goes, Place, Waiting
  <2>7. CASE Fail(t)
    <3>1. job[t].at \in {"attempt", "running"}
      BY <2>7 DEF Fail
    <3>2. CASE t \in Retryable \ Background /\ job[t].attempt < MaxAttempts
      BY <1>1, <2>1, <2>2, <2>7, <3>1, <3>2 DEF Fail, Place, Waiting
    <3>3. CASE ~ (t \in Retryable \ Background /\ job[t].attempt < MaxAttempts)
      BY <1>1, <2>1, <2>2, <2>7, <3>1, <3>3 DEF Fail, Place, Waiting
    <3>4. QED
      BY <3>2, <3>3
  <2>8. CASE Discard(t)
    BY <1>1, <2>1, <2>2, <2>8 DEF Discard, Goes, Place, Waiting
  <2>9. QED
    BY <2>3, <2>4, <2>5, <2>6, <2>7, <2>8 DEF JobStep
<1>7. TypeOK'
  BY <1>2, <1>3, <1>4, <1>5, <1>6 DEF TypeOK, config, queues
<1>8. JobInv'
  BY <1>5, <1>6 DEF JobInv
<1>9. QED
  BY <1>7, <1>8

LEMMA JobStepFate ==
  ASSUME TypeOK, FateInv, NEW t \in Tasks, JobStep(t)
  PROVE  FateInv'
<1> DEFINE Fate(u) ==
      /\ u \in taskIdsToCancel => asked[u] # "no"
      /\ u \notin Background /\ status[u] \in Final => job[u].at = "done"
      /\ u \notin Background /\ job[u].at = "done" =>
           status[u] \in Final \/ asked[u] # "no" \/ stop_event
      /\ asked[u] = "executing" =>
           job[u].at \notin Waiting /\ (job[u].at \in Executing => u \in taskIdsToCancel)
      /\ extra[u] \in {0, 1}
      /\ job[u].at \in Waiting \cup {"attempt"} => extra[u] = 0
      /\ extra[u] = 1 /\ job[u].at \in Executing => u \in taskIdsToCancel
<1>1. /\ job \in [Tasks -> [at : Place, attempt : 0..MaxAttempts]]
      /\ status \in [Tasks -> Status]
      /\ extra \in [Tasks -> Nat]
  BY DEF TypeOK
<1>2. \A u \in Tasks : Fate(u)
  BY DEF FateInv
<1>3. ASSUME NEW u \in Tasks, u # t PROVE Fate(u)'
  <2>1. /\ job'[u] = job[u] /\ status'[u] = status[u]
        /\ extra'[u] = extra[u] /\ asked' = asked /\ stop_event' = stop_event
        /\ u \in taskIdsToCancel' <=> u \in taskIdsToCancel
    BY <1>1, <1>3 DEF JobStep, Begin, Discard, GiveUp, Check, Launch, Succeed, Fail, Delay, Report, OnlyJob, Goes, End, history
  <2>2. Fate(u)
    BY <1>2
  <2>3. QED
    BY <2>1, <2>2
<1>4. Fate(t)'
  <2>1. Fate(t) /\ job[t].at \in Place
    BY <1>1, <1>2
  <2>2. CASE Begin(t)
    <3>1. /\ job[t].at = "begin" /\ job'[t].at = "reported" /\ status'[t] = "IN_PROGRESS"
          /\ UNCHANGED <<history, stop_event, taskIdsToCancel>>
      BY <1>1, <2>2 DEF Begin, Goes, OnlyJob
    <3>2. asked[t] # "executing" /\ extra[t] = 0
      BY <2>1, <3>1 DEF Waiting
    <3>3. QED
      BY <2>1, <3>1, <3>2 DEF history, Final, Waiting
  <2>3. CASE GiveUp(t)
    <3>1. /\ job[t].at \in {"check", "delay"} /\ job'[t].at = "done"
          /\ stop_event \/ t \in taskIdsToCancel
          /\ UNCHANGED <<status, history, stop_event>> /\ t \notin taskIdsToCancel'
      BY <1>1, <2>3 DEF GiveUp, End, Cancelled, OnlyJob
    <3>2. QED
      BY <2>1, <3>1 DEF history, Waiting, Executing
  <2>4. CASE Check(t)
    <3>1. /\ job[t].at = "check" /\ job'[t].at \in {"attempt", "failed"}
          /\ t \notin taskIdsToCancel
          /\ UNCHANGED <<status, history, stop_event, taskIdsToCancel>>
      BY <1>1, <2>4 DEF Check, Cancelled, OnlyJob
    <3>2. asked[t] # "executing" /\ extra[t] = 0
      BY <2>1, <3>1 DEF Executing
    <3>3. QED
      BY <2>1, <3>1, <3>2 DEF history, Waiting
  <2>5. CASE Launch(t)
    <3>1. /\ job[t].at = "attempt" /\ job'[t].at = "running"
          /\ extra'[t] = extra[t] + (IF asked[t] = "executing" THEN 1 ELSE 0)
          /\ UNCHANGED <<status, asked, stop_event, taskIdsToCancel>>
      BY <1>1, <2>5 DEF Launch, Goes, OnlyJob
    <3>2. extra[t] = 0 /\ (asked[t] = "executing" => t \in taskIdsToCancel)
      BY <2>1, <3>1 DEF Executing
    <3>3. QED
      BY <2>1, <3>1, <3>2 DEF Waiting, Executing
  <2>6. CASE Succeed(t) \/ Fail(t)
    <3>1. /\ job[t].at \in {"attempt", "running"}
          /\ job'[t].at \in {"completed", "failed", "delay"}
          /\ UNCHANGED <<status, history, stop_event, taskIdsToCancel>>
      BY <1>1, <2>6 DEF Succeed, Fail, Goes, OnlyJob
    <3>2. QED
      BY <2>1, <3>1 DEF history, Waiting, Executing
  <2>7. CASE Delay(t)
    <3>1. /\ job[t].at = "delay" /\ job'[t].at = "check"
          /\ UNCHANGED <<status, history, stop_event, taskIdsToCancel>>
      BY <1>1, <2>7 DEF Delay, Goes, OnlyJob
    <3>2. QED
      BY <2>1, <3>1 DEF history, Waiting, Executing
  <2>8. CASE Report(t)
    <3>1. /\ job[t].at \in {"completed", "failed"} /\ job'[t].at = "done"
          /\ t \notin Background => status'[t] \in Final
          /\ UNCHANGED <<history, stop_event, taskIdsToCancel>>
      BY <1>1, <2>8 DEF Report, End, OnlyJob, FinalStatus, Final
    <3>2. QED
      BY <2>1, <3>1 DEF history, Waiting, Executing
  <2>9. CASE Discard(t)
    <3>1. /\ job[t].at = "reported" /\ job'[t].at = "check" /\ t \notin taskIdsToCancel'
          /\ UNCHANGED <<status, history, stop_event>>
      BY <1>1, <2>9 DEF Discard, Goes, OnlyJob
    <3>2. asked[t] # "executing" /\ extra[t] = 0
      BY <2>1, <3>1 DEF Waiting
    <3>3. QED
      BY <2>1, <3>1, <3>2 DEF history, Final, Waiting
  <2>10. QED
    BY <2>2, <2>3, <2>4, <2>5, <2>6, <2>7, <2>8, <2>9 DEF JobStep
<1>5. QED
  BY <1>3, <1>4 DEF FateInv

\* What a step does besides: it loses no command, and takes the first.
Keeps == NothingLostWithoutTies => NothingLostWithoutTies'
TakesFirst ==
  Distinct /\ Len(commandQueue') < Len(commandQueue) =>
    \A t \in Elements(commandQueue') : priority[Head(commandQueue)] < priority[t]

LEMMA QueuesKept ==
  ASSUME TypeOK, UNCHANGED <<priority, commandQueue, backgroundCommandQueue>>,
         \A u \in Tasks : /\ u \in fresh => u \in fresh' \/ u \in Elements(listener.put)'
                          /\ u \in Elements(listener.put) => u \in Elements(listener.put)'
                          /\ job[u].at # "none" => job'[u].at # "none"
  PROVE  Keeps /\ TakesFirst
<1>1. Distinct' <=> Distinct
  BY DEF Distinct
<1>2. ASSUME NEW u \in Tasks, Known(u) PROVE Known(u)'
  BY <1>2 DEF Known
<1>3. Keeps
  BY <1>1, <1>2 DEF Keeps, NothingLostWithoutTies, NothingLost
<1>4. Len(commandQueue) \in Nat
  BY LenProperties DEF TypeOK
<1>5. TakesFirst
  BY <1>4 DEF TakesFirst
<1>6. QED
  BY <1>3, <1>5

LEMMA JobStepInv ==
  ASSUME IInv, NEW t \in Tasks, JobStep(t)
  PROVE  IInv' /\ Keeps /\ TakesFirst
<1>1. TypeOK' /\ JobInv' /\ FateInv'
  BY JobStepTyped, JobStepFate DEF IInv
<1>2. UNCHANGED <<priority, fresh, listener, commandQueue, backgroundCommandQueue>>
  BY DEF JobStep, Begin, Discard, GiveUp, Check, Launch, Succeed, Fail, Delay, Report, OnlyJob, config, queues
<1>3. job \in [Tasks -> [at : Place, attempt : 0..MaxAttempts]]
  BY DEF IInv, TypeOK
<1>4. \A u \in Tasks : job[u].at = "none" => job'[u].at = "none"
  BY <1>3 DEF JobStep, Begin, Discard, GiveUp, Check, Launch, Succeed, Fail, Delay, Report, Goes, End
<1>5. QueueInv'
  BY <1>2, <1>4, QueueKept DEF IInv
<1>6. \A u \in Tasks : job[u].at # "none" => job'[u].at # "none"
  BY <1>3 DEF JobStep, Begin, Discard, GiveUp, Check, Launch, Succeed, Fail, Delay, Report, Goes, End
<1>7. Keeps /\ TakesFirst
  BY <1>2, <1>6, QueuesKept DEF IInv
<1>8. QED
  BY <1>1, <1>5, <1>7 DEF IInv

-----------------------------------------------------------------------------
(* The listener and the thread of the queue *)

LEMMA ReceiveInv == ASSUME IInv, Receive PROVE IInv' /\ Keeps /\ TakesFirst
<1>1. PICK batch \in Batches, cancels \in SUBSET Cancellable :
        /\ listener' = [cancel |-> cancels, put |-> batch]
        /\ fresh' = fresh \ {batch[i] : i \in DOMAIN batch}
  BY DEF Receive
<1>2. /\ listener.put = <<>>
      /\ UNCHANGED <<priority, parallel_execution, commandQueue, backgroundCommandQueue,
                     stop_event, taskIdsToCancel, active_futures, main, job, status,
                     asked, extra>>
  BY DEF Receive, config, queues, history
<1>3. PICK n \in Nat : batch \in [1..n -> fresh] /\ \A i, j \in 1..n : batch[i] = batch[j] => i = j
  <2>1. PICK n \in 0..MaxBatch : batch \in [1..n -> fresh]
    BY DEF Batches
  <2>2. n \in Nat /\ DOMAIN batch = 1..n
    BY <2>1, QueueAssumption
  <2>3. \A i, j \in DOMAIN batch : batch[i] = batch[j] => i = j
    BY DEF Batches
  <2>4. QED
    BY <2>1, <2>2, <2>3
<1> DEFINE B == {batch[i] : i \in 1..n}
<1>4. batch \in Orders(n, B)
  BY <1>3 DEF Orders
<1>5. Single(batch) /\ Elements(batch) = B /\ batch \in Seq(B) /\ B \subseteq fresh
  BY <1>3, <1>4, OrderElements
<1>6. fresh' = fresh \ B
  BY <1>1, <1>3
<1> HIDE DEF B
<1>7. TypeOK'
  <2>1. B \subseteq Tasks /\ cancels \subseteq Tasks
    BY <1>5, QueueAssumption DEF IInv, TypeOK, Cancellable
  <2>2. batch \in Seq(Tasks)
    BY <1>5, <2>1
  <2>3. listener' \in [cancel : SUBSET Tasks, put : Seq(Tasks)] /\ fresh' \subseteq Tasks
    BY <1>1, <1>6, <2>1, <2>2 DEF IInv, TypeOK
  <2>4. QED
    BY <1>2, <2>3 DEF IInv, TypeOK
<1>8. QueueInv'
  <2>1. listener'.put = batch
    BY <1>1
  <2>2. Elements(listener.put) = {} /\ (Distinct' <=> Distinct)
    BY <1>2, EmptyIsSingle DEF Distinct
  <2>3. QED
    BY <1>2, <1>5, <1>6, <2>1, <2>2 DEF IInv, QueueInv
<1>9. JobInv' /\ FateInv'
  BY <1>2 DEF IInv, JobInv, FateInv
<1>10. Keeps /\ TakesFirst
  <2>1. Elements(listener.put)' = B /\ Elements(listener.put) = {}
    BY <1>1, <1>2, <1>5, EmptyIsSingle
  <2>2. QED
    BY <1>2, <1>6, <2>1, QueuesKept DEF IInv
<1>11. QED
  BY <1>7, <1>8, <1>9, <1>10 DEF IInv

LEMMA CancelInv ==
  ASSUME IInv, NEW t \in Tasks, Cancel(t)
  PROVE  IInv' /\ Keeps /\ TakesFirst
<1>1. /\ taskIdsToCancel' = taskIdsToCancel \cup {t}
      /\ listener' = [listener EXCEPT !.cancel = @ \ {t}]
      /\ asked' = [asked EXCEPT ![t] = IF job[t].at \in Executing THEN "executing"
                                       ELSE "otherwise"]
      /\ UNCHANGED <<priority, parallel_execution, fresh, commandQueue, backgroundCommandQueue,
                     stop_event, active_futures, main, job, status, extra>>
  BY DEF Cancel, config, queues
<1>2. /\ listener \in [cancel : SUBSET Tasks, put : Seq(Tasks)]
      /\ asked \in [Tasks -> {"no", "executing", "otherwise"}]
      /\ taskIdsToCancel \subseteq Tasks
  BY DEF IInv, TypeOK
<1>3. listener' \in [cancel : SUBSET Tasks, put : Seq(Tasks)] /\ listener'.put = listener.put
  BY <1>1, <1>2
<1>4. asked' \in [Tasks -> {"no", "executing", "otherwise"}]
  BY <1>1, <1>2
<1>5. TypeOK'
  BY <1>1, <1>2, <1>3, <1>4 DEF IInv, TypeOK
<1>6. QueueInv'
  BY <1>1, <1>3, QueueKept DEF IInv
<1>7. JobInv'
  BY <1>1 DEF IInv, JobInv
<1>8. FateInv'
  <2>1. /\ asked'[t] # "no"
        /\ asked'[t] = "executing" => job[t].at \in Executing
        /\ \A u \in Tasks : u # t => asked'[u] = asked[u]
    BY <1>1, <1>2
  <2>2. \A x : x \in Executing => x \notin Waiting
    BY DEF Executing, Waiting
  <2>3. QED
    BY <1>1, <2>1, <2>2 DEF IInv, FateInv
<1>9. Keeps /\ TakesFirst
  BY <1>1, <1>3, QueuesKept DEF IInv
<1>10. QED
  BY <1>5, <1>6, <1>7, <1>8, <1>9 DEF IInv

\* The first of listener.put goes to one queue; when it cannot be compared the
\* others go with it.
LEMMA PutInv == ASSUME IInv, Put PROVE IInv' /\ Keeps /\ TakesFirst
<1> DEFINE t == Head(listener.put)
           push == Push(priority, commandQueue, t)
<1>1. /\ TypeOK /\ QueueInv
      /\ listener \in [cancel : SUBSET Tasks, put : Seq(Tasks)] /\ listener.put # <<>>
      /\ commandQueue \in Seq(Tasks) /\ backgroundCommandQueue \in Seq(Background)
  BY DEF IInv, TypeOK, Put
<1>2. UNCHANGED <<priority, parallel_execution, fresh, stop_event, taskIdsToCancel,
                  active_futures, main, job, status, asked, extra>>
  BY DEF Put, config, history
<1>3. /\ Single(Tail(listener.put))
      /\ Elements(Tail(listener.put)) = Elements(listener.put) \ {t}
      /\ t \in Elements(listener.put) /\ t \in Tasks /\ Tail(listener.put) \in Seq(Tasks)
  BY <1>1, Takes DEF QueueInv
<1>4. t \notin Elements(commandQueue) /\ t \notin Elements(backgroundCommandQueue)
  BY <1>1, <1>3 DEF QueueInv
<1>5. JobInv' /\ FateInv'
  BY <1>2 DEF IInv, JobInv, FateInv
<1>6. Distinct' <=> Distinct
  BY <1>2 DEF Distinct
<1>7. Single(<<>>) /\ Elements(<<>>) = {} /\ <<>> \in Seq(Tasks)
  BY EmptyIsSingle
<1>8. CASE t \in Background
  <2>1. /\ backgroundCommandQueue' = Append(backgroundCommandQueue, t)
        /\ listener' = [listener EXCEPT !.put = Tail(@)] /\ UNCHANGED commandQueue
    BY <1>8 DEF Put
  <2>2. /\ Single(backgroundCommandQueue') /\ backgroundCommandQueue' \in Seq(Background)
        /\ Elements(backgroundCommandQueue') = Elements(backgroundCommandQueue) \cup {t}
    BY <1>1, <1>4, <1>8, <2>1, Appends DEF QueueInv
  <2>3. listener'.put = Tail(listener.put)
        /\ listener' \in [cancel : SUBSET Tasks, put : Seq(Tasks)]
    BY <1>1, <1>3, <2>1
  <2>4. TypeOK'
    BY <1>1, <1>2, <2>1, <2>2, <2>3 DEF TypeOK
  <2>5. QueueInv'
    BY <1>1, <1>2, <1>3, <1>4, <1>6, <1>8, <2>1, <2>2, <2>3 DEF QueueInv
  <2>6. ASSUME NEW u \in Tasks, Known(u) PROVE Known(u)'
    BY <1>2, <1>3, <2>1, <2>2, <2>3, <2>6 DEF Known
  <2>7. Keeps
    BY <1>6, <2>6 DEF Keeps, NothingLostWithoutTies, NothingLost
  <2>8. TakesFirst
    BY <1>1, <2>1, LenProperties DEF TakesFirst
  <2>9. QED
    BY <1>5, <2>4, <2>5, <2>7, <2>8 DEF IInv
<1>9. CASE t \notin Background
  <2>1. /\ commandQueue' = push.heap /\ UNCHANGED backgroundCommandQueue
        /\ listener' = [listener EXCEPT !.put = IF push.raised THEN <<>> ELSE Tail(@)]
    BY <1>9 DEF Put
  <2> DEFINE T == Tasks \ Background
  <2>2. /\ Single(commandQueue') /\ commandQueue' \in Seq(T)
        /\ Elements(commandQueue') = Elements(commandQueue) \cup {t}
        /\ Apart(priority, T) /\ IsHeap(priority, commandQueue, Len(commandQueue)) =>
               ~ push.raised /\ IsHeap(priority, commandQueue', Len(commandQueue'))
        /\ Len(commandQueue') = Len(commandQueue) + 1
    <3>1. /\ Single(commandQueue) /\ Len(commandQueue) \in Nat
          /\ Elements(commandQueue) \subseteq T /\ t \in T
      BY <1>1, <1>3, <1>9 DEF QueueInv
    <3>2. push = Push(priority, commandQueue, t)
      OBVIOUS
    <3> HIDE DEF t, push, T
    <3>3. Single(push.heap) /\ push.heap \in Seq(T)
      BY <1>4, <3>1, <3>2, Pushes
    <3>4. Gains(push.heap, commandQueue, t)
      BY <1>4, <3>1, <3>2, Pushes
    <3>5. Apart(priority, T) /\ IsHeap(priority, commandQueue, Len(commandQueue)) =>
               ~ push.raised /\ IsHeap(priority, push.heap, Len(push.heap))
      BY <1>4, <3>1, <3>2, Pushes
    <3>6. Elements(push.heap) = Elements(commandQueue) \cup {t}
      BY <3>4 DEF Gains
    <3>7. commandQueue' = push.heap
      BY <2>1
    <3>8. Len(push.heap) = Len(commandQueue) + 1
      BY <1>4, <3>1, <3>2, Pushes
    <3>9. QED
      BY <3>3, <3>5, <3>6, <3>7, <3>8
  <2>3. Elements(commandQueue) \cup {t} \subseteq T
    BY <1>1, <1>3, <1>9 DEF QueueInv
  <2>4. commandQueue' \in Seq(Tasks)
    BY <2>2
  <2>5. /\ listener' \in [cancel : SUBSET Tasks, put : Seq(Tasks)]
        /\ listener'.put = <<>> \/ listener'.put = Tail(listener.put)
        /\ ~ push.raised => listener'.put = Tail(listener.put)
    BY <1>1, <1>3, <1>7, <2>1
  <2>6. TypeOK'
    BY <1>1, <1>2, <2>1, <2>4, <2>5 DEF TypeOK
  <2>7. Single(listener'.put) /\ Elements(listener'.put) \subseteq Elements(listener.put) \ {t}
    BY <1>3, <1>7, <2>5
  <2>8. Distinct => IsHeap(priority, commandQueue', Len(commandQueue'))
    BY <1>1, <2>2, <2>3, DistinctApart DEF QueueInv
  <2>9. QueueInv'
    BY <1>1, <1>2, <1>3, <1>4, <1>6, <2>1, <2>2, <2>3, <2>7, <2>8 DEF QueueInv
  <2>10. Distinct => ~ push.raised
    BY <1>1, <2>2, <2>3, DistinctApart DEF QueueInv
  <2>11. ASSUME NEW u \in Tasks, ~ push.raised, Known(u) PROVE Known(u)'
    BY <1>2, <1>3, <2>1, <2>2, <2>5, <2>11 DEF Known
  <2>12. Keeps
    BY <1>6, <2>10, <2>11 DEF Keeps, NothingLostWithoutTies, NothingLost
  <2>13. TakesFirst
    BY <1>1, <2>2, LenProperties DEF TakesFirst
  <2>14. QED
    BY <1>5, <2>6, <2>9, <2>12, <2>13 DEF IInv
<1>10. QED
  BY <1>8, <1>9

\* A command taken from a queue has not begun before.
LEMMA Starts ==
  ASSUME TypeOK, JobInv, FateInv, NEW x \in Tasks, job[x].at = "none",
         job' = [job EXCEPT ![x].at = "begin"],
         UNCHANGED <<status, asked, extra, stop_event, taskIdsToCancel>>
  PROVE  /\ job' \in [Tasks -> [at : Place, attempt : 0..MaxAttempts]]
         /\ \A u \in Tasks : u # x => job'[u] = job[u]
         /\ FateInv'
         /\ \A u \in Tasks :
              /\ job'[u].at \in Waiting => job'[u].attempt = 0
              /\ job'[u].at \in {"check", "delay"} => job'[u].attempt < MaxAttempts
<1>1. job \in [Tasks -> [at : Place, attempt : 0..MaxAttempts]]
  BY DEF TypeOK
<1>2. /\ job' \in [Tasks -> [at : Place, attempt : 0..MaxAttempts]]
      /\ \A u \in Tasks : u # x => job'[u] = job[u]
      /\ job'[x].at = "begin" /\ job'[x].attempt = job[x].attempt
  BY <1>1 DEF Place
<1>3. \A u \in Tasks :
        /\ job'[u].at \in Waiting => job'[u].attempt = 0
        /\ job'[u].at \in {"check", "delay"} => job'[u].attempt < MaxAttempts
  BY <1>2 DEF JobInv, Waiting
<1>4. ASSUME NEW u \in Tasks PROVE
    /\ u \in taskIdsToCancel' => asked'[u] # "no"
    /\ u \notin Background /\ status'[u] \in Final => job'[u].at = "done"
    /\ u \notin Background /\ job'[u].at = "done" =>
         status'[u] \in Final \/ asked'[u] # "no" \/ stop_event'
    /\ asked'[u] = "executing" =>
         job'[u].at \notin Waiting /\ (job'[u].at \in Executing => u \in taskIdsToCancel')
    /\ extra'[u] \in {0, 1}
    /\ job'[u].at \in Waiting \cup {"attempt"} => extra'[u] = 0
    /\ extra'[u] = 1 /\ job'[u].at \in Executing => u \in taskIdsToCancel'
  <2>1. CASE u = x
    <3>1. asked[x] # "executing" /\ extra[x] = 0 /\ ~ (x \notin Background /\ status[x] \in Final)
      BY DEF FateInv, Waiting
    <3>2. "begin" \notin Executing /\ "begin" # "done"
      BY DEF Executing
    <3>3. QED
      BY <1>2, <2>1, <3>1, <3>2 DEF FateInv
  <2>2. CASE u # x
    BY <1>2, <2>2 DEF FateInv
  <2>3. QED
    BY <2>1, <2>2
<1>5. FateInv'
  BY <1>4 DEF FateInv
<1>6. QED
  BY <1>2, <1>3, <1>5

MainType == [at : {"background", "more background", "queue", "wait", "stopped"},
             task : Tasks \cup {NoTask}]
FromHeap(x) ==
  \/ active_futures' = active_futures
  \/ /\ active_futures' = active_futures \cup {x} /\ x \in Retryable
     /\ Cardinality(active_futures) < MaxConcurrent

\* What the thread of the queue does to the queues and the commands.
LEMMA MainForms ==
  ASSUME TypeOK, MainStep
  PROVE  /\ UNCHANGED <<priority, parallel_execution, fresh, listener, stop_event,
                        taskIdsToCancel, status, asked, extra>>
         /\ \/ UNCHANGED <<commandQueue, backgroundCommandQueue, job, active_futures>>
               /\ main' \in MainType
            \/ /\ backgroundCommandQueue # <<>>
               /\ backgroundCommandQueue' = Tail(backgroundCommandQueue)
               /\ job' = [job EXCEPT ![Head(backgroundCommandQueue)].at = "begin"]
               /\ UNCHANGED <<commandQueue, active_futures>>
               /\ main' = [at |-> "more background", task |-> Head(backgroundCommandQueue)]
            \/ /\ commandQueue # <<>>
               /\ commandQueue' = Pop(priority, commandQueue).heap
               /\ UNCHANGED backgroundCommandQueue
               /\ \/ /\ Pop(priority, commandQueue).raised
                     /\ UNCHANGED <<job, active_futures>> /\ main' \in MainType
                  \/ /\ ~ Pop(priority, commandQueue).raised
                     /\ job' = [job EXCEPT ![Head(commandQueue)].at = "begin"]
                     /\ FromHeap(Head(commandQueue))
                     /\ \/ main' \in MainType
                        \/ main' = [at |-> "background", task |-> Head(commandQueue)]
<1>1. UNCHANGED <<priority, parallel_execution, fresh, listener, stop_event,
                  taskIdsToCancel, status, asked, extra>>
  BY DEF MainStep, TakeBackground, MoreBackground, TakeSerial, TakeParallel, Finish, OnlyMain,
         config, history
<1>2. main \in MainType
  BY DEF TypeOK, MainType
<1>3. /\ At("wait") \in MainType /\ At("queue") \in MainType /\ At("background") \in MainType
      /\ At("stopped") \in MainType
  BY DEF At, MainType
<1>4. CASE TakeBackground
  BY <1>1, <1>3, <1>4 DEF TakeBackground, Inline
<1>5. CASE MoreBackground
  BY <1>1, <1>3, <1>5 DEF MoreBackground, Inline
<1>6. CASE TakeSerial
  BY <1>1, <1>3, <1>6 DEF TakeSerial, Inline, FromHeap
<1>7. CASE TakeParallel
  BY <1>1, <1>2, <1>3, <1>7 DEF TakeParallel, Inline, FromHeap
<1>8. CASE Finish
  BY <1>1, <1>3, <1>8 DEF Finish, queues
<1>9. QED
  BY <1>4, <1>5, <1>6, <1>7, <1>8 DEF MainStep

LEMMA FuturesInv ==
  ASSUME TypeOK, JobInv, NEW x, FromHeap(x)
  PROVE  /\ active_futures' \subseteq Retryable /\ IsFiniteSet(active_futures')
         /\ Cardinality(active_futures') <= MaxConcurrent
<1>1. /\ active_futures \subseteq Retryable /\ IsFiniteSet(active_futures)
      /\ Cardinality(active_futures) \in Nat /\ Cardinality(active_futures) <= MaxConcurrent
      /\ MaxConcurrent \in Nat
  BY QueueAssumption, FS_CardinalityType DEF TypeOK, JobInv
<1>2. CASE active_futures' = active_futures
  BY <1>1, <1>2
<1>3. CASE /\ active_futures' = active_futures \cup {x} /\ x \in Retryable
           /\ Cardinality(active_futures) < MaxConcurrent
  <2>1. /\ IsFiniteSet(active_futures \cup {x})
        /\ \/ Cardinality(active_futures \cup {x}) = Cardinality(active_futures)
           \/ Cardinality(active_futures \cup {x}) = Cardinality(active_futures) + 1
    BY <1>1, FS_AddElement
  <2>2. QED
    BY <1>1, <1>3, <2>1
<1>4. QED
  BY <1>2, <1>3 DEF FromHeap

LEMMA MainStepInv == ASSUME IInv, MainStep PROVE IInv' /\ Keeps /\ TakesFirst
<1> DEFINE b == Head(backgroundCommandQueue)
           x == Head(commandQueue)
           pop == Pop(priority, commandQueue)
           T == Tasks \ Background
<1>1. /\ TypeOK /\ QueueInv /\ JobInv /\ FateInv
      /\ commandQueue \in Seq(Tasks) /\ backgroundCommandQueue \in Seq(Background)
      /\ Background \subseteq Tasks
      /\ active_futures \subseteq Retryable /\ Cardinality(active_futures) <= MaxConcurrent
      /\ job \in [Tasks -> [at : Place, attempt : 0..MaxAttempts]]
  BY QueueAssumption DEF IInv, TypeOK
<1>2. UNCHANGED <<priority, parallel_execution, fresh, listener, stop_event,
                  taskIdsToCancel, status, asked, extra>>
  BY <1>1, MainForms
<1>3. Distinct' <=> Distinct
  BY <1>2 DEF Distinct
<1>4. TypeOK' <=> /\ commandQueue' \in Seq(Tasks)
                   /\ backgroundCommandQueue' \in Seq(Background)
                   /\ active_futures' \subseteq Retryable
                   /\ Cardinality(active_futures') <= MaxConcurrent
                   /\ main' \in MainType
                   /\ job' \in [Tasks -> [at : Place, attempt : 0..MaxAttempts]]
  BY <1>1, <1>2 DEF TypeOK, MainType
<1>5. CASE /\ UNCHANGED <<commandQueue, backgroundCommandQueue, job, active_futures>>
           /\ main' \in MainType
  <2>1. TypeOK'
    BY <1>1, <1>4, <1>5
  <2>2. QueueInv'
    BY <1>1, <1>2, <1>5, QueueKept
  <2>3. JobInv' /\ FateInv'
    BY <1>1, <1>2, <1>5 DEF JobInv, FateInv
  <2>4. \A u \in Tasks : Known(u)' <=> Known(u)
    BY <1>2, <1>5 DEF Known
  <2>5. Keeps
    BY <1>3, <2>4 DEF Keeps, NothingLostWithoutTies, NothingLost
  <2>6. TakesFirst
    BY <1>1, <1>5, LenProperties DEF TakesFirst
  <2>7. QED
    BY <2>1, <2>2, <2>3, <2>5, <2>6 DEF IInv
<1>6. CASE /\ backgroundCommandQueue # <<>>
           /\ backgroundCommandQueue' = Tail(backgroundCommandQueue)
           /\ job' = [job EXCEPT ![b].at = "begin"]
           /\ UNCHANGED <<commandQueue, active_futures>>
           /\ main' = [at |-> "more background", task |-> b]
  <2>1. /\ Single(backgroundCommandQueue') /\ backgroundCommandQueue' \in Seq(Background)
        /\ Elements(backgroundCommandQueue') = Elements(backgroundCommandQueue) \ {b}
        /\ b \in Elements(backgroundCommandQueue) /\ b \in Background
    BY <1>1, <1>6, Takes DEF QueueInv
  <2>2. b \in Tasks /\ job[b].at = "none"
    BY <1>1, <2>1 DEF QueueInv
  <2> HIDE DEF b
  <2>3. /\ job' \in [Tasks -> [at : Place, attempt : 0..MaxAttempts]]
        /\ \A u \in Tasks : u # b => job'[u] = job[u]
        /\ FateInv'
        /\ \A u \in Tasks :
             /\ job'[u].at \in Waiting => job'[u].attempt = 0
             /\ job'[u].at \in {"check", "delay"} => job'[u].attempt < MaxAttempts
    BY <1>1, <1>2, <1>6, <2>2, Starts
  <2>4. job'[b].at = "begin"
    BY <1>1, <1>6, <2>2
  <2>5. JobInv'
    BY <1>1, <1>6, <2>3 DEF JobInv
  <2>6. main' \in MainType
    BY <1>6, <2>2 DEF MainType
  <2>7. TypeOK'
    BY <1>1, <1>4, <1>6, <2>1, <2>3, <2>6
  <2>8. QueueInv'
    <3>1. /\ Single(listener'.put) /\ Single(commandQueue')
          /\ Elements(commandQueue') \subseteq Tasks \ Background
          /\ Distinct' => IsHeap(priority', commandQueue', Len(commandQueue'))
      BY <1>1, <1>2, <1>3, <1>6 DEF QueueInv
    <3>2. b \notin fresh \cup Elements(listener.put) \cup Elements(commandQueue)
      BY <1>1, <2>1, <2>2 DEF QueueInv
    <3>3. ASSUME NEW u \in Tasks
          PROVE  /\ u \in fresh' => u \notin Elements(listener'.put)
                 /\ u \in fresh' \cup Elements(listener'.put) =>
                      u \notin Elements(commandQueue') \cup Elements(backgroundCommandQueue')
                 /\ u \in fresh' \cup Elements(listener'.put) \cup Elements(commandQueue')
                          \cup Elements(backgroundCommandQueue') => job'[u].at = "none"
      BY <1>1, <1>2, <1>6, <2>1, <2>3, <3>2 DEF QueueInv
    <3>4. QED
      BY <2>1, <3>1, <3>3 DEF QueueInv
  <2>9. ASSUME NEW u \in Tasks, Known(u) PROVE Known(u)'
    BY <1>2, <1>6, <2>1, <2>3, <2>4, <2>9 DEF Known
  <2>10. Keeps
    BY <1>3, <2>9 DEF Keeps, NothingLostWithoutTies, NothingLost
  <2>11. TakesFirst
    <3>1. commandQueue' = commandQueue /\ Len(commandQueue) \in Nat
      BY <1>1, <1>6, LenProperties
    <3>2. QED
      BY <3>1 DEF TakesFirst
  <2>12. QED
    BY <2>3, <2>5, <2>7, <2>8, <2>10, <2>11 DEF IInv
<1>7. CASE /\ commandQueue # <<>> /\ commandQueue' = pop.heap
           /\ UNCHANGED backgroundCommandQueue
           /\ \/ /\ pop.raised /\ UNCHANGED <<job, active_futures>> /\ main' \in MainType
              \/ /\ ~ pop.raised /\ job' = [job EXCEPT ![x].at = "begin"] /\ FromHeap(x)
                 /\ \/ main' \in MainType
                    \/ main' = [at |-> "background", task |-> x]
  <2>1. /\ Single(commandQueue) /\ Len(commandQueue) \in Nat \ {0}
        /\ Elements(commandQueue) \subseteq T
    BY <1>1, <1>7, LenProperties, EmptySeq DEF QueueInv
  <2>2. pop = Pop(priority, commandQueue)
    OBVIOUS
  <2>3. /\ Single(pop.heap) /\ Loses(pop.heap, commandQueue, Head(commandQueue))
        /\ pop.heap \in Seq(T) /\ Len(pop.heap) = Len(commandQueue) - 1
        /\ Head(commandQueue) \in Elements(commandQueue)
    <3> HIDE DEF pop, T, x
    <3>1. QED
      BY <2>1, <2>2, Pops
  <2>4. Apart(priority, T) /\ IsHeap(priority, commandQueue, Len(commandQueue)) =>
          /\ ~ pop.raised /\ IsHeap(priority, pop.heap, Len(pop.heap))
          /\ \A e \in Elements(pop.heap) : priority[Head(commandQueue)] < priority[e]
    <3> HIDE DEF pop, T, x
    <3>1. QED
      BY <2>1, <2>2, Pops
  <2>5. x \in Elements(commandQueue) /\ x \in Tasks /\ job[x].at = "none"
    BY <1>1, <2>1, <2>3 DEF QueueInv
  <2>6. Elements(pop.heap) = Elements(commandQueue) \ {x}
    BY <2>3 DEF Loses
  <2>7. Distinct => /\ ~ pop.raised /\ IsHeap(priority, pop.heap, Len(pop.heap))
                    /\ \A e \in Elements(pop.heap) : priority[x] < priority[e]
    BY <1>1, <2>4, DistinctApart DEF QueueInv
  <2>8. Elements(commandQueue') \subseteq Tasks \ Background /\ commandQueue' \in Seq(Tasks)
    BY <1>7, <2>1, <2>3, <2>6
  <2>9. TakesFirst
    BY <1>7, <2>7 DEF TakesFirst
  <2> HIDE DEF pop, x, T
  <2>10. CASE pop.raised /\ UNCHANGED <<job, active_futures>> /\ main' \in MainType
    <3>1. TypeOK'
      BY <1>1, <1>4, <1>7, <2>8, <2>10
    <3>2. ~ Distinct
      BY <2>7, <2>10
    <3>3. QueueInv'
      <4>1. /\ Single(listener'.put) /\ Single(commandQueue')
            /\ Single(backgroundCommandQueue')
        BY <1>1, <1>2, <1>7, <2>3 DEF QueueInv
      <4>2. Elements(commandQueue') \subseteq Elements(commandQueue)
        BY <1>7, <2>6
      <4>3. ASSUME NEW u \in Tasks
            PROVE  /\ u \in fresh' => u \notin Elements(listener'.put)
                   /\ u \in fresh' \cup Elements(listener'.put) =>
                        u \notin Elements(commandQueue') \cup Elements(backgroundCommandQueue')
                   /\ u \in fresh' \cup Elements(listener'.put) \cup Elements(commandQueue')
                            \cup Elements(backgroundCommandQueue') => job'[u].at = "none"
        BY <1>1, <1>2, <1>7, <2>10, <4>2 DEF QueueInv
      <4>4. QED
        BY <1>3, <2>8, <3>2, <4>1, <4>3 DEF QueueInv
    <3>4. JobInv' /\ FateInv'
      BY <1>1, <1>2, <2>10 DEF JobInv, FateInv
    <3>5. Keeps
      BY <1>3, <3>2 DEF Keeps, NothingLostWithoutTies
    <3>6. QED
      BY <2>9, <3>1, <3>3, <3>4, <3>5 DEF IInv
  <2>11. CASE /\ ~ pop.raised /\ job' = [job EXCEPT ![x].at = "begin"] /\ FromHeap(x)
              /\ \/ main' \in MainType
                 \/ main' = [at |-> "background", task |-> x]
    <3>1. /\ job' \in [Tasks -> [at : Place, attempt : 0..MaxAttempts]]
          /\ \A u \in Tasks : u # x => job'[u] = job[u]
          /\ FateInv'
          /\ \A u \in Tasks :
               /\ job'[u].at \in Waiting => job'[u].attempt = 0
               /\ job'[u].at \in {"check", "delay"} => job'[u].attempt < MaxAttempts
      BY <1>1, <1>2, <2>5, <2>11, Starts
    <3>2. job'[x].at = "begin"
      BY <1>1, <2>5, <2>11
    <3>3. /\ active_futures' \subseteq Retryable /\ IsFiniteSet(active_futures')
          /\ Cardinality(active_futures') <= MaxConcurrent
      BY <1>1, <2>11, FuturesInv
    <3>4. JobInv'
      BY <3>1, <3>3 DEF JobInv
    <3>5. main' \in MainType
      <4>1. main' \in MainType \/ main' = [at |-> "background", task |-> x]
        BY <2>11
      <4>2. [at |-> "background", task |-> x] \in MainType
        BY <2>5 DEF MainType
      <4>3. QED
        BY <4>1, <4>2
    <3>6. TypeOK'
      BY <1>1, <1>4, <1>7, <2>8, <3>1, <3>3, <3>5
    <3>7. QueueInv'
      <4>1. /\ Single(listener'.put) /\ Single(commandQueue')
            /\ Single(backgroundCommandQueue')
        BY <1>1, <1>2, <1>7, <2>3 DEF QueueInv
      <4>2. x \notin fresh \cup Elements(listener.put)
        BY <1>1, <2>5 DEF QueueInv
      <4>3. x \notin Elements(backgroundCommandQueue)
        <5>1. Elements(backgroundCommandQueue) \subseteq Background
          BY <1>1 DEF Elements
        <5>2. QED
          BY <2>1, <2>5, <5>1 DEF T
      <4>4. ASSUME NEW u \in Tasks
            PROVE  /\ u \in fresh' => u \notin Elements(listener'.put)
                   /\ u \in fresh' \cup Elements(listener'.put) =>
                        u \notin Elements(commandQueue') \cup Elements(backgroundCommandQueue')
                   /\ u \in fresh' \cup Elements(listener'.put) \cup Elements(commandQueue')
                            \cup Elements(backgroundCommandQueue') => job'[u].at = "none"
        BY <1>1, <1>2, <1>7, <2>6, <3>1, <4>2, <4>3 DEF QueueInv
      <4>5. Distinct => IsHeap(priority, commandQueue', Len(commandQueue'))
        BY <1>7, <2>7
      <4>6. QED
        BY <1>2, <1>3, <2>8, <4>1, <4>4, <4>5 DEF QueueInv
    <3>8. ASSUME NEW u \in Tasks, Known(u) PROVE Known(u)'
      BY <1>2, <1>7, <2>6, <3>1, <3>2, <3>8 DEF Known
    <3>9. Keeps
      BY <1>3, <3>8 DEF Keeps, NothingLostWithoutTies, NothingLost
    <3>10. QED
      BY <2>9, <3>1, <3>4, <3>6, <3>7, <3>9 DEF IInv
  <2>12. QED
    BY <1>7, <2>10, <2>11
<1>8. QED
  BY <1>1, <1>5, <1>6, <1>7, MainForms

-----------------------------------------------------------------------------
(* The theorems *)

LEMMA StopInv == ASSUME IInv, Stop PROVE IInv' /\ Keeps /\ TakesFirst
<1>1. /\ stop_event' = TRUE
      /\ UNCHANGED <<priority, parallel_execution, fresh, listener, commandQueue,
                     backgroundCommandQueue, taskIdsToCancel, active_futures, main, job,
                     status, asked, extra>>
  BY DEF Stop, config, queues, history
<1>2. TypeOK'
  BY <1>1 DEF IInv, TypeOK
<1>3. QueueInv'
  BY <1>1, QueueKept DEF IInv
<1>4. JobInv' /\ FateInv'
  BY <1>1 DEF IInv, JobInv, FateInv
<1>5. Keeps /\ TakesFirst
  BY <1>1, QueuesKept DEF IInv
<1>6. QED
  BY <1>2, <1>3, <1>4, <1>5 DEF IInv

LEMMA IInvNext == IInv /\ Next => IInv' /\ Keeps /\ TakesFirst
<1>1. SUFFICES ASSUME IInv, Next PROVE IInv' /\ Keeps /\ TakesFirst
  OBVIOUS
<1>2. CASE Receive
  BY <1>1, <1>2, ReceiveInv
<1>3. CASE Put
  BY <1>1, <1>3, PutInv
<1>4. CASE \E t \in Tasks : Cancel(t)
  BY <1>1, <1>4, CancelInv
<1>5. CASE MainStep
  BY <1>1, <1>5, MainStepInv
<1>6. CASE Stop
  BY <1>1, <1>6, StopInv
<1>7. CASE \E t \in Tasks : JobStep(t)
  BY <1>1, <1>7, JobStepInv
<1>8. QED
  BY <1>1, <1>2, <1>3, <1>4, <1>5, <1>6, <1>7 DEF Next, Listener

LEMMA IInvStutters == IInv /\ UNCHANGED vars => IInv'
<1>1. SUFFICES ASSUME IInv, UNCHANGED vars PROVE IInv'
  OBVIOUS
<1>2. UNCHANGED <<priority, parallel_execution, fresh, listener, commandQueue,
                  backgroundCommandQueue, stop_event, taskIdsToCancel, active_futures, main,
                  job, status, asked, extra>>
  BY <1>1 DEF vars, config, queues, history
<1>3. TypeOK'
  BY <1>1, <1>2 DEF IInv, TypeOK
<1>4. QueueInv'
  BY <1>1, <1>2, QueueKept DEF IInv
<1>5. JobInv' /\ FateInv'
  BY <1>1, <1>2 DEF IInv, JobInv, FateInv
<1>6. QED
  BY <1>3, <1>4, <1>5 DEF IInv

\* The conjuncts of IInv hold together in every state of the program: what the
\* threads of ActionQueue do keeps them, whatever the order.
THEOREM IInvHolds == Spec => []IInv
<1>1. IInv /\ [Next]_vars => IInv'
  BY IInvNext, IInvStutters
<1>2. QED
  BY <1>1, AtInit, PTL DEF Spec

\* The values the variables of ActionQueue take; in particular the pool of
\* process_command never has more than MAX_CONCURRENT_ACTIONS commands, and no
\* command is attempted more than max_attempts times.
THEOREM TypeCorrect == Spec => []TypeOK
<1>1. IInv => TypeOK
  BY DEF IInv
<1>2. QED
  BY <1>1, IInvHolds, PTL

\* A command the server sent is waiting in on_event, in one of the queues, or has
\* begun, as long as no two commands of commandQueue have the same priority: then
\* neither put nor get raises, and neither drops what it holds.
THEOREM NoneIsLost == Spec => []NothingLostWithoutTies
<1>1. Init => NothingLostWithoutTies
  BY DEF Init, NothingLostWithoutTies, NothingLost, Known
<1>2. IInv /\ NothingLostWithoutTies /\ [Next]_vars => NothingLostWithoutTies'
  <2>1. CASE Next
    BY <2>1, IInvNext DEF Keeps
  <2>2. CASE UNCHANGED vars
    <3>1. UNCHANGED <<priority, fresh, listener, commandQueue, backgroundCommandQueue, job>>
      BY <2>2 DEF vars, config, queues
    <3>2. QED
      BY <3>1 DEF NothingLostWithoutTies, NothingLost, Distinct, Known
  <2>3. QED
    BY <2>1, <2>2
<1>3. QED
  BY <1>1, <1>2, IInvHolds, PTL DEF Spec

\* heapq gives process_command the command of the least priority: what leaves the
\* queue comes before all that stay, whatever the number of commands.
THEOREM FirstIsTaken == Spec => TakesTheFirst
<1>1. IInv /\ [Next]_vars => [TakesFirst]_vars
  BY IInvNext
<1>2. QED
  BY <1>1, IInvHolds, PTL DEF Spec, TakesTheFirst, TakesFirst

\* A request to cancel reaches the command it is for: that command makes at most
\* the attempt that is about to start; and no other ends because of it.
THEOREM CancelIsItsOwn == Spec => []CancelsItsOwn
<1>1. IInv => CancelsItsOwn
  BY DEF IInv, FateInv, CancelsItsOwn, EndedAsAsked, CancelCut
<1>2. QED
  BY <1>1, IInvHolds, PTL

\* After COMPLETED or FAILED no status of that command is given to the reports.
THEOREM FinalStays == Spec => FinalIsLast
<1>1. ASSUME IInv, Next, NEW t \in Tasks \ Background, status[t] \in Final
      PROVE  status'[t] = status[t]
  <2>1. job[t].at = "done" /\ status \in [Tasks -> Status]
    BY <1>1 DEF IInv, FateInv, TypeOK
  <2>2. CASE \E u \in Tasks : JobStep(u)
    <3>1. PICK u \in Tasks : JobStep(u)
      BY <2>2
    <3>2. u = t => UNCHANGED status
      BY <2>1, <3>1 DEF JobStep, Begin, Discard, GiveUp, Check, Launch, Succeed, Fail, Delay, Report, Goes, history
    <3>3. u # t => status'[t] = status[t]
      BY <2>1, <3>1 DEF JobStep, Begin, Discard, GiveUp, Check, Launch, Succeed, Fail, Delay, Report, Goes, history
    <3>4. QED
      BY <3>2, <3>3
  <2>3. CASE Receive \/ Listener \/ MainStep \/ Stop
    BY <2>3 DEF Receive, Listener, Put, Cancel, MainStep, TakeBackground, MoreBackground,
                TakeSerial, TakeParallel, Finish, OnlyMain, Stop, config, history
  <2>4. QED
    BY <1>1, <2>2, <2>3 DEF Next
<1> DEFINE Step == \A t \in Tasks \ Background : status[t] \in Final => status'[t] = status[t]
<1>2. IInv /\ [Next]_vars => [Step]_vars
  BY <1>1
<1>3. QED
  BY <1>2, IInvHolds, PTL DEF Spec, FinalIsLast

=============================================================================
