------------------------------ MODULE TaskLists ------------------------------
(***************************************************************************)
(* What the task path promises its writers: every RPU has a list of tasks, *)
(* and the operations of a list are started one at a time, in the order in *)
(* which they were written, a task's push before its pop, each once.       *)
(*                                                                         *)
(* pend[i] is what is left to start of list i; issue[i] the operations     *)
(* being started on RPU i, with their operands.                            *)
(***************************************************************************)
EXTENDS Naturals, Sequences

CONSTANTS List, Task, NoTask, Capacity

VARIABLES pend, issue

Nothing == [op |-> "NONE"]

Push(task) == [op |-> "PUSH", tree |-> task.push_tree, data |-> task.data]
Pop(task)  == [op |-> "POP", tree |-> task.pop_tree]

Init == /\ pend = [i \in List |-> << >>]
        /\ issue = [i \in List |-> Nothing]

\* Starting the first operation of a list: what is started, what is left.
Started(l) == IF Head(l).push THEN Push(Head(l)) ELSE Pop(Head(l))
Left(l) == IF Head(l).push /\ Head(l).pop
           THEN <<[Head(l) EXCEPT !.push = FALSE]>> \o Tail(l)
           ELSE Tail(l)

\* A word written to a list is kept, unless Capacity words wait already.
Written(l, rest, w, new) ==
  \/ new = IF w = NoTask THEN rest ELSE Append(rest, w)
  \/ new = rest /\ Len(l) >= Capacity

\* One step of list l with w written to it: op is started, new is left.
ListStep(l, op, w, new) ==
  \/ op = Nothing /\ Written(l, l, w, new)
  \/ l # << >> /\ op = Started(l) /\ Written(l, Left(l), w, new)

Step(in) == \A i \in List : ListStep(pend[i], issue'[i], in[i], pend'[i])

Next == \A i \in List :
          LET l == pend[i]  op == issue'[i]  new == pend'[i]
          IN  \E w \in Task \cup {NoTask} : ListStep(l, op, w, new)

Spec == Init /\ [][Next]_<<pend, issue>>
=============================================================================
