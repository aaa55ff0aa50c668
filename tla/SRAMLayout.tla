----------------------------- MODULE SRAMLayout -----------------------------
(***************************************************************************)
(* The allocation loop of gen_SRAM_layout.py: the levels of every tree,    *)
(* trees in the order of their identifiers, are given room in the SRAMs in *)
(* turn.  The input, a depth for each tree, is any function in Forests;    *)
(* trees that the input does not name have depth 0.                        *)
(***************************************************************************)
EXTENDS Naturals

CONSTANTS
  SRAM_NUM,   \* number of SRAMs, at least every depth
  MaxTree,    \* bound: largest tree identifier
  Forests     \* the inputs: a set of functions from 0..MaxTree to depths

Tree  == 0 .. MaxTree
Level == 0 .. SRAM_NUM - 1
SRAM  == 0 .. SRAM_NUM - 1

ASSUME SRAMNumAssumption == SRAM_NUM \in Nat \ {0} /\ MaxTree \in Nat
ASSUME ForestsAssumption == Forests \subseteq [Tree -> 0 .. SRAM_NUM]

VARIABLES
  depth,           \* the input
  tree_id, i,      \* the loops' positions
  cur_level_size,  \* nodes of level i
  start_addr,      \* first free address of each SRAM
  start_addr_dict  \* where each level placed so far begins

vars == <<depth, tree_id, i, cur_level_size, start_addr, start_addr_dict>>

DEGREE == 2

Init ==
  /\ depth \in Forests
  /\ tree_id = 0 /\ i = 0 /\ cur_level_size = 1
  /\ start_addr = [s \in SRAM |-> 0]
  /\ start_addr_dict = [e \in {} |-> 0]

\* Mutant: all levels of a tree go to one SRAM.
SRAM_id_fixed(t, l) == t % SRAM_NUM

SRAM_id(t, l) == (t + l) % SRAM_NUM

\* Mutant: the room of a level is that of a single node.
Reserve_one(s) == start_addr' = [start_addr EXCEPT ![s] = @ + 1]

Reserve(s) == start_addr' = [start_addr EXCEPT ![s] = @ + cur_level_size]

Grow == cur_level_size' = cur_level_size * DEGREE

MoreLevels == i < depth[tree_id]

\* The body of the inner loop.  The script's entries hold the SRAM and the
\* address; the size is kept beside them to state what they have room for.
PlaceLevel ==
  LET s == SRAM_id(tree_id, i)
  IN  /\ tree_id \in Tree /\ MoreLevels
      /\ start_addr_dict' =
           [e \in DOMAIN start_addr_dict \cup {<<tree_id, i>>} |->
              IF e = <<tree_id, i>>
              THEN [sram |-> s, addr |-> start_addr[s], size |-> cur_level_size]
              ELSE start_addr_dict[e]]
      /\ Reserve(s) /\ Grow
      /\ i' = i + 1
      /\ UNCHANGED <<depth, tree_id>>

\* The next turn of the outer loop.
NextTree ==
  /\ tree_id \in Tree /\ ~MoreLevels
  /\ tree_id' = tree_id + 1 /\ i' = 0 /\ cur_level_size' = 1
  /\ UNCHANGED <<depth, start_addr, start_addr_dict>>

Next == PlaceLevel \/ NextTree

Spec == Init /\ [][Next]_vars

-----------------------------------------------------------------------------
(* Type invariant of the loops' variables; i never passes the depth.       *)
TypeOK ==
  /\ depth \in [Tree -> 0 .. SRAM_NUM]
  /\ tree_id \in 0 .. MaxTree + 1 /\ i \in 0 .. SRAM_NUM
  /\ cur_level_size \in Nat \ {0}
  /\ start_addr \in [SRAM -> Nat]
  /\ start_addr_dict \in
       [DOMAIN start_addr_dict -> [sram : SRAM, addr : Nat, size : Nat \ {0}]]
  /\ DOMAIN start_addr_dict \subseteq Tree \X Level

\* The node addresses of two entries have none in common.
Apart(e, f) == \/ e.sram # f.sram
               \/ e.addr + e.size <= f.addr
               \/ f.addr + f.size <= e.addr

(* No node of one tree shares its address with a node of another, or of    *)
(* another level of its own tree, whatever the forest.                     *)
LayoutDisjoint ==
  \A d, e \in DOMAIN start_addr_dict :
    d # e => Apart(start_addr_dict[d], start_addr_dict[e])

-----------------------------------------------------------------------------
(* The hardware computes addresses by a formula instead of reading the     *)
(* table: PIFO_SRAM.sv with LEVEL = SRAM_NUM.                              *)
RPUs == INSTANCE PIFO_SRAM WITH LEVEL <- SRAM_NUM, TreeId <- Tree,
          PTW <- 1, MTW <- 0, CTW <- 1

\* The input names the trees 0, 1, 2, ... without a gap, all of full depth.
FullForest == \A t \in Tree : depth[t] \in {0, SRAM_NUM}
                /\ (t > 0 /\ depth[t] > 0 => depth[t - 1] > 0)

(* For a full forest the table and the formula agree on every address, so  *)
(* what was laid out in software is where the RPUs look.                   *)
HardwareAgrees ==
  FullForest => \A e \in DOMAIN start_addr_dict :
                  start_addr_dict[e].addr = RPUs!offset[e[1]][e[2]]
=============================================================================
