------------------------------ MODULE BMWTree ------------------------------
(***************************************************************************)
(* The balanced multi-way tree of the simulator (vPIFO_trace.cpp): a node  *)
(* has two slots, each with the least pair of the subtree below it, and    *)
(* counts what went down on either side.  A tree is a function on the      *)
(* paths of its nodes; those in its domain have been made by get_son, and  *)
(* stay.                                                                   *)
(***************************************************************************)
EXTENDS Integers, Sequences, FiniteSetsExt, TLC

inf == 1000000007   \* 1e9 + 7

\* Mutant: of one rank the later packet is the smaller.
Less_newer(a, b) == a[1] < b[1] \/ (a[1] = b[1] /\ a[2] > b[2])

\* Pairs of a rank and a value are compared by rank, then by value.
Less(a, b) == a[1] < b[1] \/ (a[1] = b[1] /\ a[2] < b[2])

Slot == {0, 1}
NewNode == [min |-> [d \in Slot |-> <<inf, 0>>], num |-> [d \in Slot |-> 0]]
NewTree == << >> :> NewNode

IsEmpty(n, d) == n.min[d][1] = inf

\* Mutant: the first slot that is not empty.
SlotOf_first(n) == IF IsEmpty(n, 0) THEN 1 ELSE 0

\* The slot with the smaller pair; an empty one keeps its old value.
SlotOf(n) == IF Less(n.min[1], n.min[0]) THEN 1 ELSE 0

top(tree) == tree[<< >>].min[SlotOf(tree[<< >>])]

get_son(tree, root, d) ==
  IF Append(root, d) \in DOMAIN tree THEN tree ELSE (Append(root, d) :> NewNode) @@ tree

RECURSIVE push(_, _, _), pop(_, _)

push(tree, root, val) ==
  LET n == tree[root]
      go_down == IF n.num[0] > n.num[1] THEN 1 ELSE 0
      smaller == Less(val, n.min[go_down])
      filled(d) == [tree EXCEPT ![root].min[d] = val]
      passed == [tree EXCEPT ![root].min[go_down] = IF smaller THEN val ELSE @,
                             ![root].num[go_down] = @ + 1]
  IN  IF IsEmpty(n, 0) THEN filled(0)
      ELSE IF IsEmpty(n, 1) THEN filled(1)
      ELSE push(get_son(passed, root, go_down), Append(root, go_down),
                IF smaller THEN n.min[go_down] ELSE val)

\* A slot is filled again from its son.  A son that was drained is still there
\* and is counted down all the same.
pop(tree, root) ==
  LET d == SlotOf(tree[root])
      son == Append(root, d)
      taken == [tree EXCEPT ![root].min[d] = <<inf, @[2]>>]
  IN  IF son \notin DOMAIN tree THEN taken
      ELSE [pop(tree, son) EXCEPT ![root].min[d] = tree[son].min[SlotOf(tree[son])],
                                  ![root].num[d] = @ - 1]

-----------------------------------------------------------------------------
(* What a tree stands for: a queue of its pairs, the smallest first. *)
Insert(q, pair) ==
  SelectSeq(q, LAMBDA p : ~Less(pair, p)) \o <<pair>> \o SelectSeq(q, LAMBDA p : Less(pair, p))

Held(tree) == {at \in (DOMAIN tree) \X Slot : ~IsEmpty(tree[at[1]], at[2])}
Queue(tree) == FoldSet(LAMBDA at, q : Insert(q, tree[at[1]].min[at[2]]), << >>, Held(tree))
=============================================================================
