---------------------------- MODULE BoundedQueue ----------------------------
(***************************************************************************)
(* What a task FIFO promises: a queue of at most Capacity words, read and  *)
(* written at once if need be, whose output register `out` shows the word  *)
(* taken by the last step's read, and Zero when there was none.  A word    *)
(* written to a full queue that is not being read is lost, and nothing     *)
(* else ever is.                                                           *)
(***************************************************************************)
EXTENDS Naturals, Sequences

CONSTANTS Capacity, Data, Zero

VARIABLES q, out

Init == q = << >> /\ out = Zero

Take == q # << >> /\ out' = Head(q)

Read         == Take /\ q' = Tail(q)
ReadWrite(d) == Take /\ q' = Append(Tail(q), d)
Write(d)     == Len(q) < Capacity /\ out' = Zero /\ q' = Append(q, d)
Overflow     == Len(q) = Capacity /\ out' = Zero /\ q' = q
Idle         == out' = Zero /\ q' = q

\* What one step does when asked to write d (wr) and to read (rd).
Step(wr, rd, d) ==
  CASE wr /\ rd   -> ReadWrite(d)
    [] wr /\ ~rd  -> Write(d) \/ Overflow
    [] ~wr /\ rd  -> Read
    [] ~wr /\ ~rd -> Idle

Next == \E wr, rd \in BOOLEAN, d \in Data : Step(wr, rd, d)

Spec == Init /\ [][Next]_<<q, out>>
=============================================================================
