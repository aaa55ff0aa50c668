------------------------------ MODULE PIFO_SRAM ------------------------------
(***************************************************************************)
(* One ranking processing unit (RPU), PIFO_SRAM.sv: what its registers and *)
(* outputs become, as functions of its registers r, the node that its SRAM *)
(* shows and the command `up` on its input ports.  A word is a number, its *)
(* low PTW bits the rank; a node has two slots, each with a word and the   *)
(* number of words in the subtree that hangs on it.  A slot whose rank is  *)
(* all ones is empty.                                                      *)
(***************************************************************************)
EXTENDS Naturals

CONSTANTS LEVEL, TreeId, PTW, MTW, CTW

Rank(w)   == w % 2 ^ PTW
RankOnes  == 2 ^ PTW - 1
AllOnes   == 2 ^ (MTW + PTW) - 1

Slot == {0, 1}

\* The value all of an SRAM is initialised to.
EmptyNode == [size |-> [b \in Slot |-> 0], val |-> [b \in Slot |-> AllOnes]]

\* cur_level + 1 keeps clog2(LEVEL) bits.
LevelSpan == CHOOSE n \in 1 .. 2 * LEVEL :
               /\ \E k \in 0 .. LEVEL : n = 2 ^ k
               /\ n >= LEVEL /\ n < 2 * LEVEL

ResetRegisters == [fsm |-> "IDLE", latch |-> 0, addr |-> 0, level |-> 0, tree |-> 0]

RPU_nxt(r, up) ==
  CASE r.fsm = "POP" -> [r EXCEPT !.fsm = "WB"]
    [] r.fsm # "POP" /\ up.push /\ ~up.pop ->
         [fsm |-> "PUSH", latch |-> up.data, addr |-> up.addr,
          level |-> up.level, tree |-> up.tree]
    [] r.fsm # "POP" /\ ~up.push /\ up.pop ->
         [fsm |-> "POP", latch |-> 0, addr |-> up.addr,
          level |-> up.level, tree |-> up.tree]
    [] OTHER -> ResetRegisters

-----------------------------------------------------------------------------
(* Where the nodes of a tree's level begin in the SRAM of the RPU that     *)
(* works on that level: groups of LEVEL trees follow each other, and in a  *)
(* group each tree follows those whose first level is on an earlier RPU.   *)
\* The loop sets one bit in a turn, and never the same one twice.
lo(level) ==
  LET after[i \in 0 .. LEVEL - 1] ==
        IF i = 0 THEN 0 ELSE after[i - 1] + 2 ^ ((i + level) % LEVEL)
  IN  after

offset == [tree \in TreeId |-> [level \in 0 .. LEVEL - 1 |->
             (tree \div LEVEL) * (2 ^ LEVEL - 1) + lo(level)[tree % LEVEL]]]

min_sub_tree(node)  == IF node.size[0] <= node.size[1] THEN 0 ELSE 1
min_data_port(node) == IF Rank(node.val[0]) <= Rank(node.val[1]) THEN 0 ELSE 1

Popping(r) == r.fsm \in {"POP", "WB"}

\* The slot an operation works on.
port(r, node) == IF Popping(r) THEN min_data_port(node) ELSE min_sub_tree(node)

pop_data(r, node) == IF Popping(r) THEN node.val[min_data_port(node)] ELSE AllOnes

\* Of the word pushed and the word in the slot, the smaller rank stays.
Displaces(r, word) == Rank(word) = RankOnes \/ Rank(r.latch) < Rank(word)

\* Mutant: a pop leaves the subtree sizes alone.
wdata_uncounted(r, node, i_pop_data) ==
  LET b == port(r, node)
  IN  CASE Popping(r) /\ node.size[b] # 0 -> [node EXCEPT !.val[b] = i_pop_data]
        [] r.fsm = "PUSH" ->
             [node EXCEPT !.size[b] = (@ + 1) % 2 ^ CTW,
                          !.val[b] = IF Displaces(r, @) THEN r.latch ELSE @]
        [] OTHER -> node

\* What becomes of the node; i_pop_data is the answer of the RPU after.
wdata(r, node, i_pop_data) ==
  LET b == port(r, node)
  IN  CASE Popping(r) /\ node.size[b] # 0 ->
             [node EXCEPT !.size[b] = @ - 1, !.val[b] = i_pop_data]
        [] r.fsm = "PUSH" ->
             [node EXCEPT !.size[b] = (@ + 1) % 2 ^ CTW,
                          !.val[b] = IF Displaces(r, @) THEN r.latch ELSE @]
        [] OTHER -> node

\* Mutant: a pop is not handed on below an empty slot.
down_lazy(r, node) ==
  LET b    == port(r, node)
      word == node.val[b]
      push == r.fsm = "PUSH" /\ Rank(word) # RankOnes
  IN  [push  |-> push /\ r.level < LEVEL - 1,
       pop   |-> Popping(r) /\ r.level < LEVEL - 1 /\ node.size[b] > 1,
       data  |-> IF ~push THEN 0
                 ELSE IF Displaces(r, word) THEN word ELSE r.latch,
       addr  |-> IF r.fsm = "IDLE" THEN 2 ^ (LEVEL - 1) - 1
                 ELSE (2 * r.addr + b) % 2 ^ (LEVEL - 1),
       level |-> (r.level + 1) % LevelSpan,
       tree  |-> r.tree]

\* The command for the RPU after.
down(r, node) ==
  LET b    == port(r, node)
      word == node.val[b]
      push == r.fsm = "PUSH" /\ Rank(word) # RankOnes
  IN  [push  |-> push /\ r.level < LEVEL - 1,
       pop   |-> Popping(r) /\ r.level < LEVEL - 1,
       data  |-> IF ~push THEN 0
                 ELSE IF Displaces(r, word) THEN word ELSE r.latch,
       addr  |-> IF r.fsm = "IDLE" THEN 2 ^ (LEVEL - 1) - 1
                 ELSE (2 * r.addr + b) % 2 ^ (LEVEL - 1),
       level |-> (r.level + 1) % LevelSpan,
       tree  |-> r.tree]

read(r, up)  == (up.push \/ up.pop) /\ r.fsm # "POP"
write(r)     == r.fsm # "IDLE"

is_level0_pop(r) == r.level = 0 /\ r.fsm = "POP"
=============================================================================
