--------------------------------- MODULE Lru ---------------------------------
(***************************************************************************)
(* container/list as the bounded caches of adminhttp use it: a sequence,   *)
(* most recently used first.                                               *)
(***************************************************************************)
EXTENDS Integers, Sequences

Remove(l, i) == [j \in 1..(Len(l) - 1) |-> IF j < i THEN l[j] ELSE l[j + 1]]
PushFront(l, x) == [j \in 1..(Len(l) + 1) |-> IF j = 1 THEN x ELSE l[j - 1]]

(* MoveToFront; x is the element as it is from now on. *)
MoveToFront(l, i, x) == PushFront(Remove(l, i), x)

(* Back is removed while there are more than n. *)
Capped(l, n) == [j \in 1..(IF Len(l) < n THEN Len(l) ELSE n) |-> l[j]]
=============================================================================
