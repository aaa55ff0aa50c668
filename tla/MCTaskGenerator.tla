--------------------------- MODULE MCTaskGenerator ---------------------------
(* A packet each for the trees 1 and 2, the later tree with the smaller    *)
(* priority.  A list gets at most two words for every request, so with     *)
(* FIFO_SIZE >= 2 * MaxTasks no FIFO overflows.                            *)
EXTENDS TaskGenerator

MCTreeId == 0 .. LEVEL - 1
MCWords  == 0 .. 2 ^ (MTW + PTW) - 1
MCPacket == {[tree |-> 1, priority |-> 1, data |-> 5],
             [tree |-> 2, priority |-> 0, data |-> 8]}

\* One packet each for the trees 1 and 3, whose RPUs are not neighbours.
TwoPackets == {[tree |-> t, priority |-> 0, data |-> t - 1] : t \in {1, 3}}
=============================================================================
