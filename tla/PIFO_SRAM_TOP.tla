--------------------------- MODULE PIFO_SRAM_TOP ---------------------------
(***************************************************************************)
(* PIFO_SRAM_TOP.sv: the ring of LEVEL RPUs, each with its own SRAM, fed   *)
(* by the task path.  Level k of tree t lives on RPU (t + k) % LEVEL, so   *)
(* an operation moves one RPU on with every level, a pop's answers come    *)
(* back from the RPU after, and operations of many trees are under way at  *)
(* once.  One step is one clock edge of everything.                        *)
(***************************************************************************)
EXTENDS TaskPath, Bags

CONSTANTS
  PTW, MTW, CTW   \* widths of rank, metadata and subtree size

ASSUME WidthAssumption == PTW \in Nat \ {0} /\ MTW \in Nat /\ CTW \in Nat \ {0}

VARIABLES
  rpu,            \* registers of each RPU
  sram, rdata,    \* its memory and the node the memory shows
  level_wb,       \* level at its input ports in the last cycle
  bag             \* history: the words each tree should hold

rpuVars == <<rpu, sram, rdata, level_wb>>
topVars == <<tdVars, fifoVars, rpuVars, bag>>

INSTANCE PIFO_SRAM

\* Words fit their width; trees are numbered and there are finitely many.
StoredWord == 0 .. AllOnes

ASSUME WordAssumption == PushData \subseteq StoredWord
ASSUME TreeIdAssumption == TreeId \subseteq Nat /\ IsFiniteSet(TreeId)

Succ(i) == IF i = LEVEL - 1 THEN 0 ELSE i + 1

Group == {t \div LEVEL : t \in TreeId}
SRAMAddr == 0 .. (CHOOSE g \in Group : \A h \in Group : h <= g) * (2 ^ LEVEL - 1)
                 + 2 ^ LEVEL - 2

\* The node registers have no reset; nothing looks at them before a read.
TopInit ==
  /\ Init /\ FIFOInit
  /\ rpu = [i \in RPU |-> ResetRegisters]
  /\ sram = [i \in RPU |-> [a \in SRAMAddr |-> EmptyNode]]
  /\ rdata = [i \in RPU |-> EmptyNode]
  /\ level_wb = [i \in RPU |-> 0]
  /\ bag = [t \in TreeId |-> EmptyBag]

\* Mutant: a new command keeps the address on the wires from the RPU before.
Up_stale_addr(i) ==
  LET dn  == down(rpu[Pred(i)], rdata[Pred(i)])
      new == rpu_push_new[i] \/ rpu_pop_new[i]
  IN  [push  |-> rpu_push_new[i] \/ dn.push,
       pop   |-> rpu_pop_new[i] \/ dn.pop,
       data  |-> IF rpu_push_new[i] THEN rpu_push_data[i] ELSE dn.data,
       addr  |-> dn.addr,
       level |-> IF new THEN 0 ELSE dn.level,
       tree  |-> IF new THEN rpu_treeId[i] ELSE dn.tree]

\* The input ports of RPU i: a new command, or what the RPU before hands on.
Up(i) ==
  LET dn  == down(rpu[Pred(i)], rdata[Pred(i)])
      new == rpu_push_new[i] \/ rpu_pop_new[i]
  IN  [push  |-> rpu_push_new[i] \/ dn.push,
       pop   |-> rpu_pop_new[i] \/ dn.pop,
       data  |-> IF rpu_push_new[i] THEN rpu_push_data[i] ELSE dn.data,
       addr  |-> IF new THEN 0 ELSE dn.addr,
       level |-> IF new THEN 0 ELSE dn.level,
       tree  |-> IF new THEN rpu_treeId[i] ELSE dn.tree]

\* What RPU i hears from the RPU after it; below the last level, nothing.
pop_data_dn(i) == IF level_wb[i] = LEVEL - 1 THEN AllOnes
                  ELSE pop_data(rpu[Succ(i)], rdata[Succ(i)])

\* Mutant: a read of the address being written shows the old node.
SRAM_read_old(i, up, mem) ==
  IF read(rpu[i], up) THEN sram[i][offset[up.tree][up.level] + up.addr] ELSE rdata[i]

\* A read of the address being written shows the new node.
SRAM_read(i, up, mem) ==
  IF read(rpu[i], up) THEN mem[offset[up.tree][up.level] + up.addr] ELSE rdata[i]

SRAM_write(i) ==
  LET r == rpu[i]
  IN  IF write(r)
      THEN [sram[i] EXCEPT ![offset[r.tree][r.level] + r.addr] =
              wdata(r, rdata[i], pop_data_dn(i))]
      ELSE sram[i]

RPUClock ==
  LET up  == [i \in RPU |-> Up(i)]
      mem == [i \in RPU |-> SRAM_write(i)]
  IN  /\ rpu' = [i \in RPU |-> RPU_nxt(rpu[i], up[i])]
      /\ sram' = mem
      /\ rdata' = [i \in RPU |-> SRAM_read(i, up[i], mem[i])]
      /\ level_wb' = [i \in RPU |-> up[i].level]

-----------------------------------------------------------------------------
(* The outputs and the priority queues they should be answers of.  The     *)
(* word and tree ports are live in every cycle; they mean something while  *)
(* o_is_level0_pop is up, and only then are they looked at.                *)
Out(i) == [tree  |-> IF is_level0_pop(rpu[i]) THEN rpu[i].tree ELSE 0,
           word  |-> IF is_level0_pop(rpu[i]) THEN pop_data(rpu[i], rdata[i]) ELSE AllOnes,
           valid |-> is_level0_pop(rpu[i])]

Queues == INSTANCE PIFO WITH
            EmptyWord <- AllOnes,
            issue <- [i \in RPU |-> Issue(i)],
            out <- [i \in RPU |-> Out(i)]

History == bag' = [t \in TreeId |-> Queues!Content(t)]

\* One clock edge with in[i] on the input ports of list i.
TopClock(in) == DispatcherClock /\ FIFOClock(in) /\ RPUClock /\ History

\* The engine with writers that write what they like, as often as they like.
TopNext == \E in \in Inputs : TopClock(in)

TopSpec == TopInit /\ [][TopNext]_topVars

\* The words of a bag, each as often as it is in it.
Copies(B) == UNION {{w} \X (1 .. B[w]) : w \in DOMAIN B}

(* A push that is started fits: its rank is not the mark of an empty slot, *)
(* and the tree has a slot left.  The RPUs check neither.                  *)
Fits == \A i \in RPU : Issue(i).op = "PUSH" =>
          /\ Rank(Issue(i).data) # RankOnes
          /\ Cardinality(Copies(bag[Issue(i).tree])) < 2 ^ (LEVEL + 1) - 2

-----------------------------------------------------------------------------
(* Type invariant: an RPU that works is the one that its tree's level is   *)
(* on, it addresses a node of that level, and no word or size outgrows its *)
(* width anywhere.                                                         *)
Node == [size : [Slot -> 0 .. 2 ^ CTW - 1], val : [Slot -> StoredWord]]

TopTypeOK ==
  /\ \A i \in RPU :
       /\ rpu[i] \in [fsm : {"IDLE", "PUSH", "POP", "WB"}, latch : StoredWord,
                      addr : Nat, level : RPU, tree : TreeId]
       /\ rpu[i].addr < 2 ^ rpu[i].level
       /\ rpu[i].fsm # "IDLE" => (rpu[i].tree + rpu[i].level) % LEVEL = i
  /\ sram \in [RPU -> [SRAMAddr -> Node]] /\ rdata \in [RPU -> Node]
  /\ level_wb \in [RPU -> 0 .. LevelSpan - 1]

(* The pipeline implements the priority queues: each pop that is started   *)
(* is answered in the next cycle with a word of the smallest rank.         *)
ImplementsPIFO == Queues!Spec

(* "2 LEVEL push to full and pop to empty" (TC_SRAM_NEW5.sv:35): pops go   *)
(* on finding words until the tree is empty.                               *)
PopToEmpty ==
  \A i \in RPU : Out(i).valid /\ Out(i).word = AllOnes
                  => bag[Out(i).tree] = EmptyBag

(* The dispatcher has no feedback from the RPUs.  Its prediction is right  *)
(* all the same: an RPU pops and writes back exactly when predicted and at *)
(* the predicted level, and it pushes only when predicted (a real push     *)
(* ends at the first free slot; the predicted one goes to the last level). *)
PredictionHolds ==
  [][\A i \in RPU :
       /\ rpu'[i].fsm \in {"POP", "WB"} \/ rpu_state[i] \in {"POP", "WB"}
            => rpu'[i].fsm = rpu_state[i]
       /\ rpu'[i].fsm = "PUSH" => rpu_state[i] = "PUSH"
       /\ rpu'[i].fsm # "IDLE" => rpu'[i].level = rpu_level[i]]_topVars

-----------------------------------------------------------------------------
(* The trees in the SRAMs.                                                 *)
Position == {p \in RPU \X (0 .. 2 ^ (LEVEL - 1) - 1) : p[2] < 2 ^ p[1]}

NodeAt(t, p) == sram[(t + p[1]) % LEVEL][offset[t][p[1]] + p[2]]

\* The positions in the subtree that hangs on slot b of the node at p.
Below(p, b) == {q \in Position : /\ q[1] > p[1]
                                 /\ q[2] \div 2 ^ (q[1] - p[1] - 1) = 2 * p[2] + b}

Filled(node, b) == Rank(node.val[b]) # RankOnes

\* No operation on tree t is being started or under way.
AtRest(t) == \A i \in RPU : /\ rpu[i].fsm # "IDLE" => rpu[i].tree # t
                            /\ Issue(i).op # "NONE" => Issue(i).tree # t

FilledSlots(t, P) == {s \in P \X Slot : Filled(NodeAt(t, s[1]), s[2])}

(* When a tree is at rest, whatever mix of pipelined operations made it:   *)
(* it holds exactly the words pushed and not popped, every slot has the    *)
(* smallest rank of its subtree, and every size counts its subtree, so     *)
(* that a later push is sent where there is room.                          *)
TreesInOrder ==
  \A t \in TreeId : AtRest(t) =>
    /\ bag[t] = LET S == FilledSlots(t, Position)
                    V(s) == NodeAt(t, s[1]).val[s[2]]
                IN  [w \in {V(s) : s \in S} |-> Cardinality({s \in S : V(s) = w})]
    /\ \A p \in Position, b \in Slot :
         LET node == NodeAt(t, p)
             S    == FilledSlots(t, Below(p, b))
         IN  /\ node.size[b] = Cardinality(S) + (IF Filled(node, b) THEN 1 ELSE 0)
             /\ \A s \in S : Rank(node.val[b]) <= Rank(NodeAt(t, s[1]).val[s[2]])
=============================================================================
