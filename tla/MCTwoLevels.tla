----------------------------- MODULE MCTwoLevels -----------------------------
(***************************************************************************)
(* The stimulus of TC_SRAM_NEW5.sv: two RPUs, a tree of two levels on      *)
(* each, pushed full with ascending words, a word per cycle, and popped as *)
(* many times after a cycle's pause.                                       *)
(***************************************************************************)
EXTENDS PIFO_SRAM_TOP

CONSTANT Cycles   \* bound: clock edges of the run

VARIABLE cycle

FullTree == 2 ^ (LEVEL + 1) - 2

Stimulus(k) ==
  [j \in RPU |->
     CASE k < FullTree -> [NoTask EXCEPT !.push = TRUE, !.push_tree = j, !.data = k]
       [] k \in FullTree + 1 .. 2 * FullTree ->
            [NoTask EXCEPT !.pop = TRUE, !.pop_tree = j]
       [] OTHER -> NoTask]

TestInit == TopInit /\ written = 0 /\ cycle = 0

TestNext == /\ cycle < Cycles /\ cycle' = cycle + 1
            /\ TopClock(Stimulus(cycle))
            /\ UNCHANGED written

TestSpec == TestInit /\ [][TestNext]_<<topVars, written, cycle>>
=============================================================================
