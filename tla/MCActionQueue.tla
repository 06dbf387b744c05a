---------------------------- MODULE MCActionQueue ----------------------------
(***************************************************************************)
(* ActionQueue for TLC.  The heap is compared with its reference here, for *)
(* more items than the instance holds.                                     *)
(***************************************************************************)
EXTENDS ActionQueue

\* The commands of the PriorityQueue have one priority, or two different ones.
Foreground == Tasks \ Background
Maps == {[t \in Foreground |-> 10],
         [t \in Foreground |-> IF t \in Retryable THEN 1 ELSE 10]}

Perms(n) == {f \in [1..n -> 1..n] : \A i, j \in 1..n : f[i] = f[j] => i = j}

Pushed(key) == LET h[i \in 0..Len(key)] ==
                     IF i = 0 THEN [heap |-> <<>>, raised |-> FALSE]
                     ELSE LET p == Push(key, h[i - 1].heap, i)
                          IN [p EXCEPT !.raised = @ \/ h[i - 1].raised]
               IN h[Len(key)]

Popped(key) == LET n == Len(key)
                   h[i \in 0..n] == IF i = 0 THEN Pushed(key)
                                    ELSE LET p == Pop(key, h[i - 1].heap)
                                         IN [p EXCEPT !.raised = @ \/ h[i - 1].raised]
               IN [first |-> [i \in 1..n |-> key[h[i - 1].heap[1]]], raised |-> h[n].raised]

\* Items of distinct keys come out in the order of their keys, and nothing raises.
ASSUME HeapSorts == \A n \in 1..5 : \A key \in Perms(n) :
  Popped(key) = [first |-> [i \in 1..n |-> i], raised |-> FALSE]

=============================================================================
