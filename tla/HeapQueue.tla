----------------------------- MODULE HeapQueue -----------------------------
(***************************************************************************)
(* The binary heap of Python's heapq, on which PriorityQueue is built, as  *)
(* ActionQueue uses it: its items are pairs of a priority, key[x], and a   *)
(* dict, so that the comparison of two items of equal key raises.  An      *)
(* operation that raises leaves the heap as it is at that moment.          *)
(***************************************************************************)
EXTENDS Naturals, Sequences

\* A sift at work: the heap, the place of the item that moves, and whether a
\* comparison has raised.
Sift(h, i) == [heap |-> h, at |-> i, raised |-> FALSE]
Moved(s, j) ==
  [s EXCEPT !.heap = [@ EXCEPT ![s.at] = s.heap[j], ![j] = s.heap[s.at]], !.at = j]

\* The item moves one place towards the root, unless it is where it belongs.
Rise(key, s) ==
  LET h == s.heap
      parent == s.at \div 2
  IN IF s.at = 1 \/ key[h[s.at]] > key[h[parent]] THEN s
     ELSE IF key[h[s.at]] = key[h[parent]] THEN [s EXCEPT !.raised = TRUE]
     ELSE Moved(s, parent)

\* It moves one place towards the leaves, below the smaller child.
Sink(key, s) ==
  LET h == s.heap
      left == 2 * s.at
      two == left + 1 <= Len(h)
      child == IF two /\ key[h[left + 1]] < key[h[left]] THEN left + 1 ELSE left
  IN IF left > Len(h) THEN s
     ELSE IF two /\ key[h[left]] = key[h[left + 1]] THEN [s EXCEPT !.raised = TRUE]
     ELSE Moved(s, child)

\* Either goes on until nothing changes: there are fewer steps than items.
SiftDown(key, s) ==
  LET after[k \in 0..Len(s.heap)] == IF k = 0 THEN s ELSE Rise(key, after[k - 1])
  IN after[Len(s.heap)]
ToLeaf(key, s) ==
  LET after[k \in 0..Len(s.heap)] == IF k = 0 THEN s ELSE Sink(key, after[k - 1])
  IN after[Len(s.heap)]

\* To a leaf, and back to where the item belongs.
SiftUp(key, s) ==
  LET leaf == ToLeaf(key, s) IN IF leaf.raised THEN leaf ELSE SiftDown(key, leaf)

Push(key, h, x) == SiftDown(key, Sift(Append(h, x), Len(h) + 1))

\* The last item takes the place of the first, which heappop returns; when the
\* operation raises, the first is lost.
Pop(key, h) ==
  LET rest == SubSeq(h, 1, Len(h) - 1) IN
  IF rest = <<>> THEN Sift(rest, 1)
  ELSE SiftUp(key, Sift([rest EXCEPT ![1] = h[Len(h)]], 1))

=============================================================================
