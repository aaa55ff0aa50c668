-------------------------------- MODULE PIFO --------------------------------
(***************************************************************************)
(* What the pipeline promises: every tree is a priority queue.  A push     *)
(* that is started adds its word to the tree; a pop that is started shows, *)
(* on the RPU it was started on and in the very next cycle, a word of the  *)
(* smallest rank in the tree, which leaves the tree, or the empty word     *)
(* when there is none.  That is so although earlier operations are still   *)
(* on their way through the levels below.                                  *)
(***************************************************************************)
EXTENDS Naturals, Bags

CONSTANTS RPU, TreeId, Rank(_), EmptyWord

VARIABLES issue,   \* operations being started, one per RPU
          bag,     \* the words each tree holds
          out      \* the answers

NoAnswer == [tree |-> 0, word |-> EmptyWord, valid |-> FALSE]

Init == /\ issue = [i \in RPU |-> [op |-> "NONE"]]
        /\ bag = [t \in TreeId |-> EmptyBag]
        /\ out = [i \in RPU |-> NoAnswer]

First(b) == IF b = EmptyBag THEN {EmptyWord}
            ELSE {w \in BagToSet(b) : \A v \in BagToSet(b) : Rank(w) <= Rank(v)}

Pushed(t) == {i \in RPU : issue[i].op = "PUSH" /\ issue[i].tree = t}
Popped(t) == {i \in RPU : issue[i].op = "POP" /\ issue[i].tree = t}

Answer(i) ==
  IF issue[i].op = "POP"
  THEN \E w \in First(bag[issue[i].tree]) :
         out'[i] = [tree |-> issue[i].tree, word |-> w, valid |-> TRUE]
  ELSE out'[i] = NoAnswer

\* At most one operation is started on a tree at a time.
Content(t) ==
  CASE Pushed(t) # {} -> bag[t] (+) SetToBag({issue[i].data : i \in Pushed(t)})
    [] Popped(t) # {} -> bag[t] (-) SetToBag({out'[i].word : i \in Popped(t)})
    [] OTHER -> bag[t]

Next == /\ \A i \in RPU : Answer(i)
        /\ bag' = [t \in TreeId |-> Content(t)]

Spec == Init /\ [][Next]_<<issue, bag, out>>
=============================================================================
