--------------------------- MODULE TaskDistribute ---------------------------
(***************************************************************************)
(* The dispatcher of hardware/BMW_PIFO_SRAM_vPIFO/TaskDistribute.sv.       *)
(*                                                                         *)
(* LEVEL RPUs form a ring.  An operation starts at level 0 of a tree on    *)
(* the tree's own RPU and moves one RPU and one level on with every cycle. *)
(* A pop keeps an RPU for two cycles (POP, WB) and an RPU in POP is deaf.  *)
(* The dispatcher sees no feedback: it starts tasks by predicting, in      *)
(* rpu_state and rpu_level, what every RPU will be doing.                  *)
(*                                                                         *)
(* One step is one rising edge of i_clk.  Registers nothing reads          *)
(* (rpu_push_inherit) or whose effect is truncated away                    *)
(* (i_TaskFIFO_empty_last) are left out.                                   *)
(***************************************************************************)
EXTENDS Naturals

CONSTANTS
  LEVEL,      \* levels of a tree = number of RPUs
  TreeId,     \* tree identifiers, among them 0
  PushData    \* words to push, among them 0

ASSUME LevelAssumption == LEVEL \in Nat /\ LEVEL >= 2
ASSUME ZeroWordAssumption == 0 \in TreeId /\ 0 \in PushData

VARIABLES
  rpu_state, rpu_level,           \* predicted state and tree level of each RPU
  rpu_push, rpu_pop,              \* command each RPU gets, new or inherited
  rpu_pop_inherit,                \* that command is a pop from the RPU before
  rpu_push_new, rpu_pop_new,      \* command each RPU gets from the dispatcher
  rpu_treeId, rpu_push_data,      \* with its operands
  TaskHead_last,                  \* task taken off each FIFO, what is left of it
  pop_TaskFIFO_last               \* each FIFO was read in the last cycle

shadowVars == <<rpu_state, rpu_level, rpu_push, rpu_pop, rpu_pop_inherit>>
issueVars  == <<rpu_push_new, rpu_pop_new, rpu_treeId, rpu_push_data>>
headVars   == <<TaskHead_last, pop_TaskFIFO_last>>
tdVars     == <<shadowVars, issueVars, headVars>>

RPU == 0 .. LEVEL - 1

Pred(i) == IF i = 0 THEN LEVEL - 1 ELSE i - 1

\* { push_bit, pop_bit, push tree, pop tree, push data }
Task == [push : BOOLEAN, pop : BOOLEAN,
         push_tree : TreeId, pop_tree : TreeId, data : PushData]

NoTask == [push |-> FALSE, pop |-> FALSE,
           push_tree |-> 0, pop_tree |-> 0, data |-> 0]

Init ==
  /\ rpu_state = [i \in RPU |-> "IDLE"]
  /\ rpu_level = [i \in RPU |-> 0]
  /\ rpu_push = [i \in RPU |-> FALSE] /\ rpu_pop = [i \in RPU |-> FALSE]
  /\ rpu_pop_inherit = [i \in RPU |-> FALSE]
  /\ rpu_push_new = [i \in RPU |-> FALSE] /\ rpu_pop_new = [i \in RPU |-> FALSE]
  /\ rpu_treeId = [i \in RPU |-> 0] /\ rpu_push_data = [i \in RPU |-> 0]
  /\ TaskHead_last = [i \in RPU |-> NoTask]
  /\ pop_TaskFIFO_last = [i \in RPU |-> FALSE]

-----------------------------------------------------------------------------
(* The state machine that predicted and real RPUs share.  Simultaneous     *)
(* push and pop are both dropped; in POP every command is ignored.         *)
FsmNext(state, push, pop) ==
  CASE state = "POP" -> "WB"
    [] state # "POP" /\ push /\ ~pop -> "PUSH"
    [] state # "POP" /\ ~push /\ pop -> "POP"
    [] OTHER -> "IDLE"

\* Mutant: a push is handed on from the last level too.
rpu_push_inherit_nxt_endless(i) == rpu_push[Pred(i)]

rpu_push_inherit_nxt(i) == rpu_push[Pred(i)] /\ rpu_level[Pred(i)] < LEVEL - 1
rpu_pop_inherit_nxt(i)  == rpu_pop[Pred(i)] /\ rpu_level[Pred(i)] < LEVEL - 1

\* The wire has clog2(LEVEL) bits.  LEVEL, the one value that could wrap, is
\* never stored (TypeOK) and, wrapped or not, differs from LEVEL - 1.
rpu_level_nxt(i) ==
  IF rpu_push_inherit_nxt(i) \/ rpu_pop_inherit_nxt(i) \/ rpu_pop_inherit[i]
  THEN rpu_level[Pred(i)] + 1 ELSE 0

\* Where the RPU will be if nothing new is started on it.
rpu_state_mid(i) ==
  FsmNext(rpu_state[i], rpu_push_inherit_nxt(i), rpu_pop_inherit_nxt(i))

rpu_ready_nxt(i) ==
  \/ rpu_state_mid(i) = "IDLE"
  \/ rpu_state_mid(i) # "POP" /\ rpu_level_nxt(i) = LEVEL - 1

-----------------------------------------------------------------------------
(* The task at the head of each list: data is the FIFOs' output.           *)
TaskHead(data) ==
  [i \in RPU |-> IF pop_TaskFIFO_last[i] THEN data[i] ELSE TaskHead_last[i]]

\* Mutant: a push is started on an RPU that inherits an operation.
rpu_push_new_nxt_over(head, pop_new, i) ==
  (i = LEVEL - 1 => ~pop_new[0]) /\ head[i].push

\* Mutant: a pop does not look at what starts on the RPU before it.
rpu_pop_new_nxt_eager(head, pop_new, i) ==
  /\ rpu_state_mid(i) = "IDLE"
  /\ rpu_ready_nxt(Pred(i))
  /\ head[i].pop /\ ~head[i].push

\* Mutant: a pop does not look at what the RPU before it will hand on.
rpu_pop_new_nxt_blind(head, pop_new, i) ==
  /\ rpu_state_mid(i) = "IDLE"
  /\ i # 0 => ~pop_new[i - 1]
  /\ i = LEVEL - 1 => ~pop_new[0]
  /\ head[i].pop /\ ~head[i].push

\* Mutant: a pop waits until the list before it has no pop to start.
rpu_pop_new_nxt_polite(head, pop_new, i) ==
  /\ rpu_state_mid(i) = "IDLE"
  /\ rpu_ready_nxt(Pred(i))
  /\ ~head[Pred(i)].pop /\ ~head[Pred(i)].push
  /\ head[i].pop /\ ~head[i].push

(* The start wires.  The pop wire of RPU 0 outranks the wires of the last  *)
(* RPU; apart from that a start depends on the starts of the RPU before.   *)
rpu_push_new_nxt(head, pop_new, i) ==
  /\ rpu_state_mid(i) = "IDLE"
  /\ i = LEVEL - 1 => ~pop_new[0]
  /\ head[i].push

rpu_pop_new_nxt(head, pop_new, i) ==
  /\ rpu_state_mid(i) = "IDLE"
  /\ rpu_ready_nxt(Pred(i))
  /\ i # 0 => ~pop_new[i - 1] /\ ~rpu_push_new_nxt(head, pop_new, i - 1)
  /\ i = LEVEL - 1 => ~pop_new[0]
  /\ head[i].pop /\ ~head[i].push

(* The combinational network has settled when every wire has the value of  *)
(* its assignment.                                                         *)
Settled(head, pop_new) ==
  \A i \in RPU : pop_new[i] = rpu_pop_new_nxt(head, pop_new, i)

\* Mutant: starting a task's push clears its pop bit as well.
TaskHead_after_cleared(head, push_new, pop_new) ==
  [i \in RPU |-> IF push_new[i] THEN [head[i] EXCEPT !.push = ~@, !.pop = FALSE]
                 ELSE IF pop_new[i] THEN [head[i] EXCEPT !.pop = ~@]
                 ELSE head[i]]

TaskHead_after(head, push_new, pop_new) ==
  [i \in RPU |-> IF push_new[i] THEN [head[i] EXCEPT !.push = ~@]
                 ELSE IF pop_new[i] THEN [head[i] EXCEPT !.pop = ~@]
                 ELSE head[i]]

-----------------------------------------------------------------------------
Commands(push_new, pop_new) ==
  LET push == [i \in RPU |-> push_new[i] \/ rpu_push_inherit_nxt(i)]
      pop  == [i \in RPU |-> pop_new[i] \/ rpu_pop_inherit_nxt(i)]
  IN  /\ rpu_push' = push
      /\ rpu_pop' = pop
      /\ rpu_pop_inherit' = [i \in RPU |-> rpu_pop_inherit_nxt(i)]
      /\ rpu_state' = [i \in RPU |-> FsmNext(rpu_state[i], push[i], pop[i])]
      /\ rpu_level' = [i \in RPU |->
                         IF rpu_state[i] = "POP" THEN rpu_level[i]
                         ELSE IF push[i] # pop[i] THEN rpu_level_nxt(i)
                         ELSE 0]

Operands(head, push_new, pop_new) ==
  /\ rpu_push_new' = push_new
  /\ rpu_pop_new' = pop_new
  /\ rpu_push_data' = [i \in RPU |-> head[i].data]
  /\ rpu_treeId' = [i \in RPU |-> IF push_new[i] THEN head[i].push_tree
                                  ELSE IF pop_new[i] THEN head[i].pop_tree
                                  ELSE 0]

(* One clock edge, given the FIFOs' outputs and empty flags.  The FIFOs    *)
(* read in this cycle (o_pop_TaskFIFO) are pop_TaskFIFO_last'.             *)
Clock(data, empty) ==
  \E pop_new \in [RPU -> BOOLEAN] :
    LET head     == TaskHead(data)
        push_new == [i \in RPU |-> rpu_push_new_nxt(head, pop_new, i)]
        after    == TaskHead_after(head, push_new, pop_new)
    IN  /\ Settled(head, pop_new)
        /\ Commands(push_new, pop_new)
        /\ Operands(head, push_new, pop_new)
        /\ TaskHead_last' = after
        /\ pop_TaskFIFO_last' = [i \in RPU |->
                 ~after[i].push /\ ~after[i].pop /\ ~empty[i]]

-----------------------------------------------------------------------------
(* The dispatcher with any FIFOs at all: a FIFO read in the last cycle     *)
(* shows some task, one that was not shows zeros.                          *)
FIFOData == {data \in [RPU -> Task] : \A i \in RPU :
               IF pop_TaskFIFO_last[i] THEN data[i].push \/ data[i].pop
                                       ELSE data[i] = NoTask}

Next == \E data \in FIFOData, empty \in [RPU -> BOOLEAN] : Clock(data, empty)

Spec == Init /\ [][Next]_tdVars

-----------------------------------------------------------------------------
(* Type invariant of the dispatcher's registers; levels never leave        *)
(* 0..LEVEL-1, so their clog2(LEVEL) bits suffice.                         *)
TypeOK ==
  /\ rpu_state \in [RPU -> {"IDLE", "PUSH", "POP", "WB"}]
  /\ rpu_level \in [RPU -> RPU]
  /\ rpu_push \in [RPU -> BOOLEAN] /\ rpu_pop \in [RPU -> BOOLEAN]
  /\ rpu_pop_inherit \in [RPU -> BOOLEAN]
  /\ rpu_push_new \in [RPU -> BOOLEAN] /\ rpu_pop_new \in [RPU -> BOOLEAN]
  /\ rpu_treeId \in [RPU -> TreeId] /\ rpu_push_data \in [RPU -> PushData]
  /\ TaskHead_last \in [RPU -> Task]
  /\ pop_TaskFIFO_last \in [RPU -> BOOLEAN]

(* Every command reaches an RPU that takes it: no RPU gets a push together *)
(* with a pop (both would be dropped) and none gets a command while it is  *)
(* in POP (it would be ignored).  In both cases an operation under way     *)
(* would lose the rest of its path and leave the tree broken.              *)
EveryCommandTaken ==
  \A i \in RPU : /\ rpu_push[i] <=> rpu_state[i] = "PUSH"
                 /\ rpu_pop[i]  <=> rpu_state[i] = "POP"

(* While an RPU is in POP, and so deaf, the RPU before it has nothing to   *)
(* hand on: it is not running a command above its last level.              *)
PopUndisturbed ==
  \A i \in RPU : rpu_state[i] = "POP"
                  => ~rpu_push_inherit_nxt(i) /\ ~rpu_pop_inherit_nxt(i)

(* A started operation visits all its levels without a stop: from an RPU   *)
(* that is not at the last level it goes on to the next RPU, one level     *)
(* down, in the very next cycle, and nothing new is started over it.       *)
Advance(cmd, new, other) ==
  \A i \in RPU :
    cmd[Pred(i)] /\ rpu_level[Pred(i)] < LEVEL - 1
      => /\ cmd'[i] /\ ~new'[i] /\ ~other'[i]
         /\ rpu_level'[i] = rpu_level[Pred(i)] + 1

OperationsAdvance ==
  [][/\ Advance(rpu_push, rpu_push_new, rpu_pop)
     /\ Advance(rpu_pop, rpu_pop_new, rpu_push)]_tdVars
=============================================================================
