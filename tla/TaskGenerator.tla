--------------------------- MODULE TaskGenerator ---------------------------
(***************************************************************************)
(* TaskGenerator.sv: the two-level scheduler on top of the pipeline.  A    *)
(* packet is pushed into its own tree and, at the same time, its tree's    *)
(* identifier is pushed into the root tree 0 under the packet's priority.  *)
(* A pop request pops the root; the identifier it yields becomes a pop of  *)
(* that tree, whose answer is the packet.  Only the root's FIFO is shown   *)
(* to the outside as full.                                                 *)
(*                                                                         *)
(* The request of a cycle is a record req: push, tree, priority, data, pop. *)
(***************************************************************************)
EXTENDS PIFO_SRAM_TOP

CONSTANTS
  TREE_NUM_BITS,  \* bits of a tree identifier, at most MTW
  Packet          \* what may be pushed: records [tree, priority, data]

ASSUME TreeBitsAssumption == TREE_NUM_BITS \in Nat /\ TREE_NUM_BITS <= MTW
ASSUME DataAssumption == PushData = StoredWord
\* The identifier fits its bits, and no packet is for a tree of the root's RPU,
\* which "should not be pushed by i_push" (TaskGenerator.sv:92).
ASSUME PacketAssumption ==
  \A p \in Packet : /\ p.tree \in TreeId /\ p.tree < 2 ^ TREE_NUM_BITS /\ p.tree % LEVEL # 0
                    /\ p.priority \in 0 .. 2 ^ PTW - 1 /\ p.data \in StoredWord

VARIABLE backlog  \* packets requested in, less packets requested out

genVars == <<topVars, written, backlog>>

ROOT == 0

\* The tree identifier takes the top bits of the metadata.
TreeSpan == 2 ^ (MTW + PTW - TREE_NUM_BITS)
RootWord(tree, priority) == tree * TreeSpan + priority

\* Mutant: the root's answer is also taken in its write-back cycle.
pop_tree_id_twice ==
  IF rpu[ROOT].level = 0 /\ Popping(rpu[ROOT])
  THEN pop_data(rpu[ROOT], rdata[ROOT]) \div TreeSpan ELSE ROOT

\* Mutant: any pop that passes the root's RPU is taken for one of the root.
pop_tree_id_any_level ==
  IF rpu[ROOT].fsm = "POP"
  THEN pop_data(rpu[ROOT], rdata[ROOT]) \div TreeSpan ELSE ROOT

\* The tree that the root's answer, if there is one, names.
pop_tree_id ==
  IF is_level0_pop(rpu[ROOT])
  THEN pop_data(rpu[ROOT], rdata[ROOT]) \div TreeSpan ELSE ROOT

\* The input ports of list i.
Port(req, i) ==
  LET push == req.push /\ (i = ROOT \/ i = req.tree % LEVEL)
      pop  == IF i = ROOT THEN req.pop ELSE i = pop_tree_id % LEVEL
  IN  [push |-> push, pop |-> pop,
       push_tree |-> IF i # ROOT /\ i = req.tree % LEVEL THEN req.tree ELSE ROOT,
       pop_tree  |-> IF i # ROOT /\ pop THEN pop_tree_id ELSE ROOT,
       data |-> CASE ~push -> AllOnes
                  [] push /\ i = ROOT -> RootWord(req.tree, req.priority)
                  [] push /\ i # ROOT -> req.data]

Ports(req) == [i \in RPU |-> Port(req, i)]

o_task_fifo_full == TaskFIFO_full(ROOT)

\* The packet shown to the outside: the loop keeps the last one it meets.
AnswerRPUs == {i \in RPU \ {ROOT} : is_level0_pop(rpu[i])}
o_pop == IF AnswerRPUs = {} THEN Queues!NoAnswer
         ELSE Out(CHOOSE i \in AnswerRPUs : \A j \in AnswerRPUs : j <= i)

GenInit == TopInit /\ written = 0 /\ backlog = 0

GenClock(req) == TopClock(Ports(req))

-----------------------------------------------------------------------------
(* The outside.  It asks for nothing while o_task_fifo_full, and for a     *)
(* packet only if there is one.  At most MaxTasks requests.                *)
Idle == [push |-> FALSE, tree |-> 0, priority |-> 0, data |-> AllOnes, pop |-> FALSE]

Requests ==
  {[push |-> TRUE, tree |-> p.tree, priority |-> p.priority, data |-> p.data,
    pop |-> b] : p \in Packet, b \in BOOLEAN} \cup {Idle, [Idle EXCEPT !.pop = TRUE]}

Asked(b) == IF b THEN 1 ELSE 0

Request(req) ==
  /\ req # Idle => ~o_task_fifo_full /\ written < MaxTasks
  /\ req.pop => backlog + Asked(req.push) > 0
  /\ written' = written + Asked(req # Idle)
  /\ backlog' = (backlog + Asked(req.push)) - Asked(req.pop)

GenNext == /\ DispatcherClock
           /\ \E req \in Requests : Request(req) /\ FIFOClock(Ports(req))
           /\ RPUClock
           /\ History

GenSpec == GenInit /\ [][GenNext]_genVars

-----------------------------------------------------------------------------
(* A pop of a packet's tree never comes before the packet: the push and    *)
(* the pop reach the tree by different ways, one straight, the other       *)
(* through the root's list, its tree and back into the tree's list.        *)
PopsFindPackets ==
  \A i \in RPU : is_level0_pop(rpu[i]) => Out(i).word # AllOnes

(* Every packet that leaves its tree is seen outside: there is one output  *)
(* port for all RPUs, so no two of them may answer in the same cycle.      *)
EveryAnswerShown == \A i \in AnswerRPUs : o_pop = Out(i)

\* No FIFO is full, so no word is dropped.  The outside sees only the root's.
NoneFull == \A i \in RPU : ~TaskFIFO_full(i)

\* Nothing waits and nothing is under way.
Quiet == \A i \in RPU : /\ Waiting(i) = << >> /\ Issue(i).op = "NONE"
                        /\ rpu[i].fsm = "IDLE"

(* Whenever the scheduler has come to rest, the root holds one identifier  *)
(* for every packet and the trees hold the packets asked in and not out:   *)
(* no packet is lost, none is left without its identifier.                 *)
PacketsAccounted ==
  Quiet =>
    /\ backlog = Cardinality(Copies(bag[ROOT]))
    /\ \A t \in TreeId \ {ROOT} :
         Cardinality(Copies(bag[t])) =
           Cardinality({c \in Copies(bag[ROOT]) : c[1] \div TreeSpan = t})

-----------------------------------------------------------------------------
(* "so only one is_level0_pop will be 1 per cycle" (TaskGenerator.sv:125): *)
(* at most one packet is answered in a cycle.                              *)
OnlyOneLevel0Pop == Cardinality(AnswerRPUs) <= 1

(* "ROOT_RPU_ID's task_fifo has the largest length so it will be full      *)
(* first" (TaskGenerator.sv:141): while o_task_fifo_full is low no other   *)
(* FIFO is full, so no word is lost.                                       *)
RootFullFirst == (\E i \in RPU : TaskFIFO_full(i)) => o_task_fifo_full
=============================================================================
