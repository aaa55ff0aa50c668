--------------------------- MODULE EngineProofs -----------------------------
(***************************************************************************)
(* The PIFO engine, for every number of levels, every set of trees and     *)
(* everything the writers may write.                                       *)
(*                                                                         *)
(* 1. The dispatcher's prediction of the RPUs is right.  The real RPUs run *)
(* one cycle behind the predicted ones.  What ties them together is stated *)
(* between two clock edges: the command an RPU is about to hear is the one *)
(* the dispatcher has just predicted for it.  The RPU before repeats a pop *)
(* in WB, and nobody predicts that; but then the RPU itself is in POP, and *)
(* deaf.                                                                   *)
(*                                                                         *)
(* 2. With it, every register, memory word and address of the engine keeps *)
(* its type: an RPU that is told to work on a level looks into an SRAM     *)
(* where that level of that tree has room.                                 *)
(*                                                                         *)
(* 3. The engine implements one priority queue per tree.  A tree is        *)
(* scattered over all SRAMs and its operations over all RPUs, so the       *)
(* argument is made on a machine for one tree alone: a cell per node, with *)
(* the node as it will be, as it is seen, and what it hands down           *)
(* (NextTree).  Its invariant, TreeOK, is inductive; what it holds changes *)
(* as a bag does, because every word of it has one place before and one    *)
(* after a step; and its first node has the smallest rank.                 *)
(* ClockIsTreeStep shows that a clock edge of the engine is a step of      *)
(* every tree's machine at once: different nodes have different addresses, *)
(* and the RPU of a node hears exactly what the machine gives the node.    *)
(*                                                                         *)
(* 4. On top of it the two-level scheduler accounts for its packets.  A    *)
(* request puts a packet on its tree's list and the tree's name on the     *)
(* root's; the name goes through list and tree of the root and comes back  *)
(* as a pop.  The invariant, GenInv, counts: at every point of a list what *)
(* was put into a tree before covers what is taken from it (Covered), and  *)
(* a tree is due as many packets as there are names of it on the way       *)
(* (Ahead(t) = Tokens(t)), so the pop a name turns into is covered too.    *)
(***************************************************************************)
EXTENDS TaskGenerator, TaskPathProofs, ArithmeticLemmas

Registers == {"fsm", "latch", "addr", "level", "tree"}

\* The registers of the RPUs: their names, the states, and levels in range.
RPUsTyped == \A i \in RPU : /\ DOMAIN rpu[i] = Registers
                            /\ rpu[i].fsm \in {"IDLE", "PUSH", "POP", "WB"}
                            /\ rpu[i].level \in RPU

\* RPU i, in state s, has an operation to hand on to the RPU after it.
HandsOn(i, s) == rpu[i].fsm = s /\ rpu[i].level < LEVEL - 1

\* RPU i is one cycle behind its prediction.
Behind(i) == /\ rpu[i].fsm = "POP" <=> rpu_state[i] = "WB"
             /\ rpu[i].fsm = "POP" => rpu_level[i] = rpu[i].level

\* A new command is among those predicted, at the first level.
NewPredicted(i) == /\ rpu_push_new[i] => rpu_push[i] /\ rpu_level[i] = 0
                   /\ rpu_pop_new[i] => rpu_pop[i] /\ rpu_level[i] = 0

\* What the RPU before hands on is predicted, one level down, and a predicted
\* pop has a source.  A pop that it repeats in WB falls on deaf ears.
HandedPredicted(i) ==
  LET p == Pred(i)
  IN  /\ HandsOn(p, "PUSH") => rpu_push[i] /\ rpu_level[i] = rpu[p].level + 1
      /\ HandsOn(p, "POP") => rpu_pop[i] /\ rpu_level[i] = rpu[p].level + 1
      /\ rpu_pop[i] => rpu_pop_new[i] \/ HandsOn(p, "POP")
      /\ HandsOn(p, "WB") => rpu[i].fsm = "POP"

InStep == \A i \in RPU : Behind(i) /\ NewPredicted(i) /\ HandedPredicted(i)

TopInv == PathInv /\ RPUsTyped /\ InStep

\* What PredictionHolds says of RPU i.
Predicted(i) ==
  /\ rpu'[i].fsm \in {"POP", "WB"} \/ rpu_state[i] \in {"POP", "WB"}
       => rpu'[i].fsm = rpu_state[i]
  /\ rpu'[i].fsm = "PUSH" => rpu_state[i] = "PUSH"
  /\ rpu'[i].fsm # "IDLE" => rpu'[i].level = rpu_level[i]

-----------------------------------------------------------------------------
(* The width of a level: clog2 is defined.                                 *)
LEMMA LevelSpanRange == LevelSpan \in LEVEL .. 2 * LEVEL - 1
<1> DEFINE P(n) == (\E k \in 0 .. LEVEL : n = 2 ^ k) /\ n >= LEVEL /\ n < 2 * LEVEL
<1>1. PICK k \in 0 .. LEVEL : LEVEL <= 2 ^ k /\ 2 ^ k < 2 * LEVEL
  BY LevelAssumption, PowerBetween
<1>2. 2 ^ k \in 1 .. 2 * LEVEL /\ P(2 ^ k)
  BY <1>1, LevelAssumption, PowerSucc
<1>3. \E n \in 1 .. 2 * LEVEL : P(n)
  BY <1>2
<1>4. LevelSpan = CHOOSE n \in 1 .. 2 * LEVEL : P(n)
  BY DEF LevelSpan
<1> HIDE DEF P
<1>5. LevelSpan \in 1 .. 2 * LEVEL /\ P(LevelSpan)
  BY <1>3, <1>4
<1>. QED
  BY <1>5, LevelAssumption DEF P

-----------------------------------------------------------------------------
(* The state machine of an RPU.                                            *)
LEMMA NxtRegisters ==
  ASSUME NEW r, NEW up, DOMAIN r = Registers
  PROVE  LET n == RPU_nxt(r, up)
         IN  /\ DOMAIN n = Registers
             /\ r.fsm = "POP" => /\ n.fsm = "WB" /\ n.level = r.level
                                 /\ n.tree = r.tree /\ n.addr = r.addr
             /\ r.fsm # "POP" /\ up.push /\ ~up.pop =>
                  /\ n.fsm = "PUSH" /\ n.level = up.level
                  /\ n.tree = up.tree /\ n.addr = up.addr
             /\ r.fsm # "POP" /\ ~up.push /\ up.pop =>
                  /\ n.fsm = "POP" /\ n.level = up.level
                  /\ n.tree = up.tree /\ n.addr = up.addr
             /\ r.fsm # "POP" /\ (up.push <=> up.pop) => n = ResetRegisters
<1>1. CASE r.fsm = "POP"
  BY <1>1 DEF RPU_nxt, Registers
<1>2. CASE r.fsm # "POP" /\ up.push /\ ~up.pop
  BY <1>2 DEF RPU_nxt, Registers
<1>3. CASE r.fsm # "POP" /\ ~up.push /\ up.pop
  BY <1>3 DEF RPU_nxt, Registers
<1>4. CASE r.fsm # "POP" /\ (up.push <=> up.pop)
  BY <1>4 DEF RPU_nxt, Registers, ResetRegisters
<1>. QED
  BY <1>1, <1>2, <1>3, <1>4

\* What RPU i is about to hear is what was predicted, unless it is deaf.
LEMMA HeardIsPredicted ==
  ASSUME TopInv, NEW i \in RPU, rpu[i].fsm # "POP"
  PROVE  /\ Up(i).push => rpu_push[i] /\ Up(i).level = rpu_level[i]
         /\ Up(i).pop => Up(i).level = rpu_level[i]
         /\ Up(i).pop <=> rpu_pop[i]
<1> DEFINE p  == Pred(i)
           dn == down(rpu[p], rdata[p])
<1>1. p \in RPU
  BY PredRPU
<1>2. RPU \subseteq Nat /\ 0 \in RPU
  BY LevelAssumption DEF RPU
<1>3. /\ dn.push => HandsOn(p, "PUSH")
      /\ dn.pop <=> HandsOn(p, "POP") \/ HandsOn(p, "WB")
      /\ dn.level = (rpu[p].level + 1) % LevelSpan
  BY DEF down, HandsOn, Popping
<1>4. rpu[p].level < LEVEL - 1 => dn.level = rpu[p].level + 1
  <2>1. rpu[p].level \in 0 .. LEVEL - 1 /\ LevelSpan \in Nat /\ LevelSpan >= LEVEL
    BY <1>1, LevelAssumption, LevelSpanRange DEF TopInv, RPUsTyped, RPU
  <2>. QED
    BY <1>3, <2>1, LevelAssumption, ModSmall
<1>5. ~HandsOn(p, "WB")
  BY DEF TopInv, InStep, HandedPredicted
<1>6. /\ rpu[p].level \in Nat /\ rpu_level[i] \in Nat
      /\ NewPredicted(i) /\ HandedPredicted(i)
  BY <1>1, <1>2 DEF TopInv, RPUsTyped, InStep, PathInv, IInv, TypeOK
<1>7. /\ Up(i).push <=> rpu_push_new[i] \/ dn.push
      /\ Up(i).pop <=> rpu_pop_new[i] \/ dn.pop
      /\ Up(i).level = IF rpu_push_new[i] \/ rpu_pop_new[i] THEN 0 ELSE dn.level
  BY DEF Up
<1>8. dn.push \/ dn.pop => rpu[p].level < LEVEL - 1
  BY <1>3 DEF HandsOn
<1> HIDE DEF dn
<1>. QED
  BY <1>3, <1>4, <1>5, <1>6, <1>7, <1>8 DEF NewPredicted, HandedPredicted

\* One clock edge of an RPU.
LEMMA RPUStep ==
  ASSUME TopInv, RPUClock, NEW i \in RPU
  PROVE  /\ rpu'[i] = RPU_nxt(rpu[i], Up(i))
         /\ Predicted(i)
         /\ DOMAIN rpu'[i] = Registers
         /\ rpu'[i].fsm \in {"IDLE", "PUSH", "POP", "WB"}
         /\ rpu'[i].level \in RPU
<1>1. rpu'[i] = RPU_nxt(rpu[i], Up(i))
  BY DEF RPUClock
<1>2. /\ DOMAIN rpu[i] = Registers /\ rpu[i].level \in RPU
      /\ rpu_level[i] \in RPU /\ 0 \in RPU
      /\ Behind(i)
      /\ rpu_push[i] <=> rpu_state[i] = "PUSH"
      /\ rpu_pop[i] <=> rpu_state[i] = "POP"
      /\ rpu_push[i] \in BOOLEAN /\ rpu_pop[i] \in BOOLEAN
  BY LevelAssumption DEF TopInv, RPUsTyped, InStep, PathInv, IInv, TypeOK,
                         EveryCommandTaken, RPU
<1>3. CASE rpu[i].fsm = "POP"
  BY <1>1, <1>2, <1>3, NxtRegisters DEF Predicted, Behind
<1>4. CASE rpu[i].fsm # "POP"
  <2>1. /\ Up(i).push => rpu_push[i] /\ Up(i).level = rpu_level[i]
        /\ Up(i).pop => Up(i).level = rpu_level[i]
        /\ Up(i).pop <=> rpu_pop[i]
    BY <1>4, HeardIsPredicted
  <2>2. CASE Up(i).push /\ ~Up(i).pop
    BY <1>1, <1>2, <1>4, <2>1, <2>2, NxtRegisters DEF Predicted, Behind
  <2>3. CASE ~Up(i).push /\ Up(i).pop
    BY <1>1, <1>2, <1>4, <2>1, <2>3, NxtRegisters DEF Predicted, Behind
  <2>4. CASE Up(i).push <=> Up(i).pop
    <3>1. rpu'[i] = ResetRegisters
      BY <1>1, <1>2, <1>4, <2>4, NxtRegisters
    <3>2. rpu_state[i] # "POP" /\ rpu_state[i] # "WB"
      BY <1>2, <1>4, <2>1, <2>4 DEF Behind
    <3>. QED
      BY <1>1, <3>1, <3>2, <1>2 DEF Predicted, ResetRegisters, Registers
  <2>. QED
    BY <2>2, <2>3, <2>4
<1>. QED
  BY <1>1, <1>3, <1>4

\* One clock edge of the dispatcher and the RPUs keeps them in step.
LEMMA KeepInStep ==
  ASSUME TopInv, PathInv', RPUClock,
         NEW push_new \in [RPU -> BOOLEAN], NEW pop_new \in [RPU -> BOOLEAN],
         StartsAllowed(push_new, pop_new), Commands(push_new, pop_new),
         rpu_push_new' = push_new, rpu_pop_new' = pop_new
  PROVE  InStep'
<1> SUFFICES ASSUME NEW i \in RPU
             PROVE  Behind(i)' /\ NewPredicted(i)' /\ HandedPredicted(i)'
  BY DEF InStep
<1> DEFINE p == Pred(i)
<1>1. p \in RPU
  BY PredRPU
<1>2. Predicted(i) /\ Predicted(p)
  BY <1>1, RPUStep
<1>3. \A j \in RPU :
        /\ rpu_push'[j] = (push_new[j] \/ rpu_push_inherit_nxt(j))
        /\ rpu_pop'[j] = (pop_new[j] \/ rpu_pop_inherit_nxt(j))
        /\ rpu_state'[j] = FsmNext(rpu_state[j], push_new[j] \/ rpu_push_inherit_nxt(j),
                                                 pop_new[j] \/ rpu_pop_inherit_nxt(j))
        /\ rpu_level'[j] = IF rpu_state[j] = "POP" THEN rpu_level[j]
                           ELSE IF rpu_push'[j] # rpu_pop'[j] THEN rpu_level_nxt(j)
                           ELSE 0
  BY DEF Commands
<1>4. \A j \in RPU : /\ rpu_push[j] <=> rpu_state[j] = "PUSH"
                     /\ rpu_pop[j] <=> rpu_state[j] = "POP"
                     /\ rpu_level[j] \in 0 .. LEVEL - 1
                     /\ rpu_push[j] \in BOOLEAN /\ rpu_pop[j] \in BOOLEAN
                     /\ rpu_pop_inherit[j] => rpu_pop[j]
  BY DEF TopInv, PathInv, IInv, TypeOK, EveryCommandTaken, InheritedIsTaken, RPU
<1>5. Behind(i)'
  <2>1. rpu_state'[i] = "WB" <=> rpu_state[i] = "POP"
    BY <1>3 DEF FsmNext
  <2>2. rpu'[i].fsm = "POP" <=> rpu_state[i] = "POP"
    BY <1>2 DEF Predicted
  <2>3. rpu_state[i] = "POP" => rpu_level'[i] = rpu_level[i]
    BY <1>3
  <2>. QED
    BY <1>2, <2>1, <2>2, <2>3 DEF Behind, Predicted
<1>6. /\ rpu_push_inherit_nxt(i) \/ rpu_pop_inherit_nxt(i) =>
           /\ rpu_state[i] # "POP"
           /\ ~(rpu_push_inherit_nxt(i) /\ rpu_pop_inherit_nxt(i))
           /\ ~push_new[i] /\ ~pop_new[i]
      /\ push_new[i] \/ pop_new[i] =>
           /\ rpu_state[i] # "POP" /\ ~(push_new[i] /\ pop_new[i])
           /\ ~rpu_push_inherit_nxt(i) /\ ~rpu_pop_inherit_nxt(i)
  BY MidFacts DEF TopInv, PathInv, IInv, PopUndisturbed, StartsAllowed
<1>7. NewPredicted(i)'
  <2>1. push_new[i] \/ pop_new[i] => rpu_level'[i] = 0
    BY <1>3, <1>4, <1>6 DEF rpu_level_nxt
  <2>. QED
    BY <1>3, <2>1 DEF NewPredicted
<1>8. rpu_push_inherit_nxt(i) \/ rpu_pop_inherit_nxt(i)
        => rpu_level'[i] = rpu_level[p] + 1
  BY <1>3, <1>6 DEF rpu_level_nxt
<1>9. /\ rpu_push_inherit_nxt(i) <=> rpu_push[p] /\ rpu_level[p] < LEVEL - 1
      /\ rpu_pop_inherit_nxt(i) <=> rpu_pop[p] /\ rpu_level[p] < LEVEL - 1
  BY DEF rpu_push_inherit_nxt, rpu_pop_inherit_nxt
<1>10. /\ HandsOn(p, "PUSH")' => rpu_push_inherit_nxt(i)
       /\ HandsOn(p, "POP")' <=> rpu_pop_inherit_nxt(i)
       /\ HandsOn(p, "PUSH")' \/ HandsOn(p, "POP")' => rpu'[p].level = rpu_level[p]
  BY <1>1, <1>2, <1>4, <1>9 DEF HandsOn, Predicted
<1>11. HandsOn(p, "WB")' => rpu'[i].fsm = "POP"
  <2> SUFFICES ASSUME HandsOn(p, "WB")' PROVE rpu'[i].fsm = "POP"
    OBVIOUS
  <2>1. rpu_state[p] = "WB" /\ rpu'[p].level = rpu_level[p] /\ rpu'[p].level < LEVEL - 1
    BY <1>2 DEF HandsOn, Predicted
  <2>2. Behind(p) /\ HandedPredicted(i)
    BY <1>1 DEF TopInv, InStep
  <2>3. HandsOn(p, "POP")
    BY <2>1, <2>2 DEF Behind, HandsOn
  <2>4. rpu_pop[i]
    BY <2>2, <2>3 DEF HandedPredicted
  <2>. QED
    BY <1>2, <1>4, <2>4 DEF Predicted
<1>12. HandedPredicted(i)'
  <2>1. rpu_pop'[i] => rpu_pop_new'[i] \/ rpu_pop_inherit_nxt(i)
    BY <1>3
  <2>2. /\ rpu_push_inherit_nxt(i) => rpu_push'[i]
        /\ rpu_pop_inherit_nxt(i) => rpu_pop'[i]
    BY <1>3
  <2>. QED
    BY <1>8, <1>10, <1>11, <2>1, <2>2 DEF HandedPredicted
<1>. QED
  BY <1>5, <1>7, <1>12

\* One clock edge of the engine keeps the invariant.
LEMMA TopStep ==
  ASSUME TopInv, NEW in, Wellformed(in), TopClock(in)
  PROVE  TopInv'
<1>1. PathInv'
  BY PathStep DEF TopInv, TopClock, PathClock
<1>2. RPUsTyped'
  BY RPUStep DEF RPUsTyped, TopClock
<1>3. fifo_out \in [RPU -> Task]
  BY DEF TopInv, PathInv, FIFOData
<1>4. InStep'
  <2>1. PICK push_new \in [RPU -> BOOLEAN], pop_new \in [RPU -> BOOLEAN] :
          /\ StartsAllowed(push_new, pop_new)
          /\ Commands(push_new, pop_new)
          /\ rpu_push_new' = push_new /\ rpu_pop_new' = pop_new
    BY <1>3, ClockSettles DEF TopInv, PathInv, TopClock, DispatcherClock
  <2>. QED
    BY <1>1, <2>1, KeepInStep DEF TopClock
<1>. QED
  BY <1>1, <1>2, <1>4 DEF TopInv

\* So does a step that changes nothing.
LEMMA TopStutter == TopInv /\ UNCHANGED topVars => TopInv'
<1> SUFFICES ASSUME TopInv, UNCHANGED topVars PROVE TopInv'
  OBVIOUS
<1>1. UNCHANGED <<tdVars, fifo, fifo_out, rpu>>
  BY DEF topVars, fifoVars, rpuVars
<1>2. IInv'
  BY <1>1, StutterIInv DEF TopInv, PathInv
<1>3. PathInv'
  BY <1>1, <1>2 DEF TopInv, PathInv, FIFOData, tdVars, headVars
<1>4. RPUsTyped'
  BY <1>1 DEF TopInv, RPUsTyped
<1>5. InStep'
  BY <1>1 DEF TopInv, InStep, Behind, NewPredicted, HandedPredicted, HandsOn,
              tdVars, shadowVars, issueVars
<1>. QED
  BY <1>3, <1>4, <1>5 DEF TopInv

\* The engine starts in step.
LEMMA TopInitInv == TopInit => TopInv
<1> SUFFICES ASSUME TopInit PROVE TopInv
  OBVIOUS
<1>1. PathInv
  BY InitIInv, NoTaskType, EmptySeq DEF TopInit, FIFOInit, PathInv, FIFOData, Init
<1>2. RPUsTyped
  BY LevelAssumption DEF TopInit, RPUsTyped, ResetRegisters, Registers, RPU
<1>3. InStep
  BY PredRPU DEF TopInit, Init, InStep, Behind, NewPredicted, HandedPredicted,
                 HandsOn, ResetRegisters
<1>. QED
  BY <1>1, <1>2, <1>3 DEF TopInv

\* The inductive invariant holds in every reachable state.
LEMMA TopInvInvariant == TopSpec => []TopInv
<1>1. TopInv /\ [TopNext]_topVars => TopInv'
  BY TopStep, TopStutter, InputsWellformed DEF TopNext
<1>. QED
  BY <1>1, TopInitInv, PTL DEF TopSpec

(* The prediction of the dispatcher, which hears nothing from the RPUs, is *)
(* right for every LEVEL, every set of trees and every input: each RPU of  *)
(* PIFO_SRAM_TOP.sv pops and writes back exactly when predicted, at the    *)
(* predicted level, and pushes only when predicted.                        *)
THEOREM PredictionIsRight == TopSpec => PredictionHolds
<1>1. TopInv /\ TopNext => \A i \in RPU : Predicted(i)
  BY RPUStep DEF TopNext, TopClock
<1>2. TopInv /\ [TopNext]_topVars => [\A i \in RPU : Predicted(i)]_topVars
  BY <1>1
<1>. QED
  BY <1>2, TopInvInvariant, PTL DEF TopSpec, PredictionHolds, Predicted

-----------------------------------------------------------------------------
(* Addresses.                                                              *)
LEMMA LoIsLoop == \A l \in RPU : LoopDef(LEVEL, l, lo(l))
<1> SUFFICES ASSUME NEW l \in RPU PROVE LoopDef(LEVEL, l, lo(l))
  OBVIOUS
<1>1. LEVEL \in Nat \ {0} /\ l \in 0 .. LEVEL - 1
  BY LevelAssumption DEF RPU
<1>2. lo(l) = CHOOSE f : LoopDef(LEVEL, l, f)
  BY DEF lo, LoopDef
<1>3. \E f : LoopDef(LEVEL, l, f)
  BY <1>1, LoopExists
<1>. QED
  BY <1>2, <1>3

\* Some group of trees is the last.
LEMMA LastGroup ==
  \E g \in Group : (\A h \in Group : h <= g) /\ g \in Nat
                     /\ SRAMAddr = 0 .. g * (2 ^ LEVEL - 1) + 2 ^ LEVEL - 2
<1>1. Group \subseteq Nat /\ Group # {}
  <2>1. LEVEL \in Nat \ {0}
    BY LevelAssumption
  <2>2. \A t \in Nat : t \div LEVEL \in Nat
    BY <2>1, DivMod
  <2>. QED
    BY <2>2, TreeIdAssumption, ZeroWordAssumption DEF Group
<1>2. IsFiniteSet(Group)
  <2> DEFINE f == [t \in TreeId |-> t \div LEVEL]
  <2>1. f \in Surjection(TreeId, Group)
    BY DEF Surjection, Group
  <2>. QED
    BY <2>1, TreeIdAssumption, FS_Surjection
<1> DEFINE Last(g) == \A h \in Group : h <= g
<1>3. \E g \in Group : Last(g)
  BY <1>1, <1>2, LargestElement
<1> DEFINE g == CHOOSE g \in Group : Last(g)
<1>4. g \in Group /\ Last(g)
  BY <1>3
<1>5. SRAMAddr = 0 .. g * (2 ^ LEVEL - 1) + 2 ^ LEVEL - 2
  BY DEF SRAMAddr
<1> HIDE DEF g
<1>. QED
  BY <1>1, <1>4, <1>5

\* A node of a level of a tree has its address in the memory.
LEMMA AddrInRange ==
  ASSUME NEW t \in TreeId, NEW l \in RPU, NEW a \in Nat, a < 2 ^ l
  PROVE  offset[t][l] + a \in SRAMAddr
<1> DEFINE h == t \div LEVEL
           k == t % LEVEL
           w == 2 ^ LEVEL - 1
<1>1. LEVEL \in Nat \ {0} /\ l \in 0 .. LEVEL - 1 /\ t \in Nat
  BY LevelAssumption, TreeIdAssumption DEF RPU
<1>2. h \in Nat /\ k \in 0 .. LEVEL - 1 /\ h \in Group
  BY <1>1, DivMod DEF Group
<1>3. lo(l)[k] \in Nat /\ lo(l)[k] + 2 ^ l <= w
  BY <1>1, <1>2, LoIsLoop, LoopBound
<1>4. 2 ^ l \in Nat /\ 2 ^ LEVEL \in Nat \ {0} /\ w \in Nat
  BY <1>1, PowerSucc
<1>5. offset[t][l] = h * w + lo(l)[k]
  BY <1>1 DEF offset
<1>6. PICK g \in Group : (\A x \in Group : x <= g) /\ g \in Nat
                           /\ SRAMAddr = 0 .. g * w + 2 ^ LEVEL - 2
  BY LastGroup
<1> HIDE DEF h, k, w
<1>7. h * w <= g * w /\ h * w \in Nat /\ g * w \in Nat
  <2>1. g - h \in Nat /\ (g - h) * w \in Nat /\ g * w = h * w + (g - h) * w
    BY <1>2, <1>4, <1>6
  <2>. QED
    BY <1>2, <1>4, <1>6, <2>1
<1>8. w = 2 ^ LEVEL - 1
  BY DEF w
<1> DEFINE x == lo(l)[k]
           y == h * w
           z == g * w
<1>9. x \in Nat /\ x + 2 ^ l <= w /\ y \in Nat /\ z \in Nat /\ y <= z
  BY <1>3, <1>7
<1>10. offset[t][l] = y + x /\ SRAMAddr = 0 .. z + 2 ^ LEVEL - 2
  BY <1>5, <1>6
<1> HIDE DEF x, y, z
<1>. QED
  BY <1>4, <1>8, <1>9, <1>10

-----------------------------------------------------------------------------
(* Tasks stay on the list of the RPU their trees begin on.                 *)
AtHome(w, i) == /\ w.push => w.push_tree % LEVEL = i
                /\ w.pop => w.pop_tree % LEVEL = i

HomeTask(i) == {w \in Task : AtHome(w, i)}

HomeInv == \A i \in RPU : /\ TaskHead(fifo_out)[i] \in HomeTask(i)
                          /\ fifo[i] \in Seq(HomeTask(i))
                          /\ Issue(i).op # "NONE" => Issue(i).tree % LEVEL = i

\* What is on the input ports: tasks at home.
AllAtHome(in) == Wellformed(in) /\ \A i \in RPU : AtHome(in[i], i)

\* The writers put each task on the list it belongs to.
LEMMA InputsAtHome == \A in \in Inputs : AllAtHome(in)
<1> SUFFICES ASSUME NEW in \in Inputs, NEW i \in RPU PROVE AtHome(in[i], i)
  BY InputsWellformed DEF AllAtHome
<1>1. in[i] = NoTask \/ in[i] \in TaskFor[i]
  BY DEF Inputs
<1>2. AtHome(NoTask, i)
  BY DEF AtHome, NoTask
<1>3. \A w \in TaskFor[i] : AtHome(w, i)
  BY DEF TaskFor, AtHome
<1>. QED
  BY <1>1, <1>2, <1>3

\* One clock edge keeps the tasks at home.
LEMMA StayHome ==
  ASSUME PathInv, HomeInv, NEW in, AllAtHome(in), PathClock(in)
  PROVE  HomeInv'
<1> SUFFICES ASSUME NEW i \in RPU
             PROVE  /\ TaskHead(fifo_out)'[i] \in HomeTask(i)
                    /\ fifo'[i] \in Seq(HomeTask(i))
                    /\ Issue(i)'.op # "NONE" => Issue(i)'.tree % LEVEL = i
  BY DEF HomeInv, HomeTask, AtHome, Task
<1> DEFINE h == TaskHead(fifo_out)[i]
<1>1. PICK p \in BOOLEAN, q \in BOOLEAN, rd \in BOOLEAN :
        LET a == Rest(h, p, q)
            r == IF rd THEN Tail(fifo[i]) ELSE fifo[i]
        IN  /\ (p => h.push) /\ (q => h.pop /\ ~h.push)
            /\ rd <=> ~Busy(a) /\ fifo[i] # << >>
            /\ Issue(i)' = Starts(h, p, q)
            /\ TaskHead(fifo_out)'[i] = IF rd THEN Head(fifo[i]) ELSE a
            /\ fifo'[i] = IF Busy(in[i]) /\ (rd \/ Len(fifo[i]) # FIFO_SIZE)
                          THEN Append(r, in[i]) ELSE r
  BY ClockIsEdge DEF Edge
<1>2. h \in HomeTask(i) /\ fifo[i] \in Seq(HomeTask(i))
  BY DEF HomeInv
<1> HIDE DEF h
<1>4. in[i] \in HomeTask(i)
  BY DEF AllAtHome, Wellformed, HomeTask
<1>5. Rest(h, p, q) \in HomeTask(i)
  <2>1. h \in Task /\ AtHome(h, i)
    BY <1>2 DEF HomeTask
  <2>2. CASE p
    BY <1>1, <2>1, <2>2 DEF Rest, HomeTask, AtHome, Task
  <2>3. CASE ~p /\ q
    BY <1>1, <2>1, <2>3 DEF Rest, HomeTask, AtHome, Task
  <2>4. CASE ~p /\ ~q
    BY <1>2, <2>4 DEF Rest
  <2>. QED
    BY <2>2, <2>3, <2>4
<1>6. fifo[i] # << >> => Head(fifo[i]) \in HomeTask(i) /\ Tail(fifo[i]) \in Seq(HomeTask(i))
  BY <1>2, HeadTail
<1>7. TaskHead(fifo_out)'[i] \in HomeTask(i)
  BY <1>1, <1>5, <1>6
<1>8. fifo'[i] \in Seq(HomeTask(i))
  <2> DEFINE r == IF rd THEN Tail(fifo[i]) ELSE fifo[i]
  <2>1. r \in Seq(HomeTask(i))
    BY <1>1, <1>2, <1>6
  <2>2. fifo'[i] = r \/ (Busy(in[i]) /\ fifo'[i] = Append(r, in[i]))
    BY <1>1
  <2> HIDE DEF r
  <2>. QED
    BY <1>4, <2>1, <2>2, AppendProperties
<1>9. Issue(i)'.op # "NONE" => Issue(i)'.tree % LEVEL = i
  <2>1. AtHome(h, i)
    BY <1>2 DEF HomeTask
  <2>2. CASE p
    BY <1>1, <2>1, <2>2 DEF Starts, AtHome
  <2>3. CASE ~p /\ q
    BY <1>1, <2>1, <2>3 DEF Starts, AtHome
  <2>4. CASE ~p /\ ~q
    BY <1>1, <2>4 DEF Starts
  <2>. QED
    BY <2>2, <2>3, <2>4
<1>. QED
  BY <1>7, <1>8, <1>9

\* At first there is none, and nothing is started.
LEMMA HomeInit == TopInit => HomeInv
<1> SUFFICES ASSUME TopInit, NEW i \in RPU
             PROVE  /\ TaskHead(fifo_out)[i] \in HomeTask(i)
                    /\ fifo[i] \in Seq(HomeTask(i))
                    /\ Issue(i).op # "NONE" => Issue(i).tree % LEVEL = i
  BY DEF HomeInv
<1>1. TaskHead(fifo_out)[i] = NoTask
  BY DEF TopInit, FIFOInit, Init, TaskHead
<1>2. NoTask \in HomeTask(i)
  BY NoTaskType DEF HomeTask, AtHome, NoTask
<1>3. Issue(i).op = "NONE"
  BY DEF TopInit, Init, Issue
<1>. QED
  BY <1>1, <1>2, <1>3, EmptySeq DEF TopInit, FIFOInit

-----------------------------------------------------------------------------
(* The types of the engine: what TopTypeOK says, RPU by RPU.               *)
RegistersOK(i) ==
  /\ rpu[i] \in [fsm : {"IDLE", "PUSH", "POP", "WB"}, latch : StoredWord,
                 addr : Nat, level : RPU, tree : TreeId]
  /\ rpu[i].addr < 2 ^ rpu[i].level
  /\ rpu[i].fsm # "IDLE" => (rpu[i].tree + rpu[i].level) % LEVEL = i

\* The type invariant, with what makes it inductive.
TypeInv == TopInv /\ HomeInv /\ TopTypeOK

\* The words: 0 and all ones are among them, sizes have at least one bit.
LEMMA WordRange == /\ AllOnes \in StoredWord /\ 0 \in StoredWord
                   /\ 2 ^ CTW \in Nat \ {0} /\ EmptyNode \in Node
<1>1. 2 ^ (MTW + PTW) \in Nat \ {0} /\ 2 ^ CTW \in Nat \ {0}
  BY WidthAssumption, PowerSucc
<1>2. AllOnes \in StoredWord /\ 0 \in StoredWord
  BY <1>1 DEF AllOnes, StoredWord
<1>. QED
  BY <1>1, <1>2 DEF EmptyNode, Node

\* The slots an RPU chooses exist.
LEMMA PortSlot == \A r, node : port(r, node) \in Slot /\ min_data_port(node) \in Slot
  BY DEF port, min_data_port, min_sub_tree, Slot

\* What an RPU writes is a node again.
LEMMA NodeWritten ==
  ASSUME NEW r, r.latch \in StoredWord, NEW node \in Node, NEW w \in StoredWord
  PROVE  wdata(r, node, w) \in Node
<1> DEFINE b == port(r, node)
<1>1. b \in Slot
  BY PortSlot
<1> HIDE DEF b
<1>2. 2 ^ CTW \in Nat \ {0}
  BY WordRange
<1>3. node.size \in [Slot -> 0 .. 2 ^ CTW - 1] /\ node.val \in [Slot -> StoredWord]
  BY DEF Node
<1>4. CASE Popping(r) /\ node.size[b] # 0
  <2>1. wdata(r, node, w) = [node EXCEPT !.size[b] = @ - 1, !.val[b] = w]
    BY <1>4 DEF wdata, b, Popping
  <2>2. node.size[b] - 1 \in 0 .. 2 ^ CTW - 1
    BY <1>1, <1>2, <1>3, <1>4
  <2>3. [node.size EXCEPT ![b] = @ - 1] \in [Slot -> 0 .. 2 ^ CTW - 1]
        /\ [node.val EXCEPT ![b] = w] \in [Slot -> StoredWord]
    BY <1>1, <1>3, <2>2
  <2>. QED
    BY <2>1, <2>3 DEF Node
<1>5. CASE ~(Popping(r) /\ node.size[b] # 0) /\ r.fsm = "PUSH"
  <2>1. wdata(r, node, w) =
          [node EXCEPT !.size[b] = (@ + 1) % 2 ^ CTW,
                       !.val[b] = IF Displaces(r, @) THEN r.latch ELSE @]
    BY <1>5 DEF wdata, b, Popping
  <2>2. (node.size[b] + 1) % 2 ^ CTW \in 0 .. 2 ^ CTW - 1
    <3>1. node.size[b] + 1 \in Nat
      BY <1>1, <1>2, <1>3
    <3>. QED
      BY <1>2, <3>1, DivMod
  <2> DEFINE v == IF Displaces(r, node.val[b]) THEN r.latch ELSE node.val[b]
  <2>3. v \in StoredWord
    BY <1>1, <1>3
  <2>4. [node.size EXCEPT ![b] = (@ + 1) % 2 ^ CTW] \in [Slot -> 0 .. 2 ^ CTW - 1]
        /\ [node.val EXCEPT ![b] = v] \in [Slot -> StoredWord]
    BY <1>1, <1>3, <2>2, <2>3
  <2>. QED
    BY <2>1, <2>4 DEF Node
<1>6. CASE ~(Popping(r) /\ node.size[b] # 0) /\ r.fsm # "PUSH"
  BY <1>6 DEF wdata, b
<1>. QED
  BY <1>4, <1>5, <1>6

\* What an RPU hears from the one after it is a word.
LEMMA AnswerIsWord ==
  ASSUME TopTypeOK, NEW i \in RPU
  PROVE  pop_data_dn(i) \in StoredWord
<1>1. Succ(i) \in RPU
  BY LevelAssumption DEF Succ, RPU
<1>2. \A r, node : node \in Node => pop_data(r, node) \in StoredWord
  BY WordRange, PortSlot DEF pop_data, Node
<1>. QED
  BY <1>1, <1>2, WordRange DEF pop_data_dn, TopTypeOK

\* Its memory after a write.
LEMMA MemoryWritten ==
  ASSUME TopTypeOK, NEW i \in RPU
  PROVE  SRAM_write(i) \in [SRAMAddr -> Node]
<1>1. sram[i] \in [SRAMAddr -> Node] /\ rdata[i] \in Node /\ rpu[i].latch \in StoredWord
  BY DEF TopTypeOK
<1>2. wdata(rpu[i], rdata[i], pop_data_dn(i)) \in Node
  BY <1>1, NodeWritten, AnswerIsWord
<1>. QED
  BY <1>1, <1>2 DEF SRAM_write

-----------------------------------------------------------------------------
(* The command on the input ports.                                         *)
CommandOK(i, up) ==
  up.push \/ up.pop =>
    /\ up.level \in RPU /\ up.tree \in TreeId
    /\ up.addr \in Nat /\ up.addr < 2 ^ up.level
    /\ (up.tree + up.level) % LEVEL = i

\* One that the dispatcher starts is at the root of a tree that begins here.
LEMMA NewCommandOK ==
  ASSUME TypeInv, NEW i \in RPU, rpu_push_new[i] \/ rpu_pop_new[i]
  PROVE  CommandOK(i, Up(i))
<1>1. Up(i).level = 0 /\ Up(i).addr = 0 /\ Up(i).tree = rpu_treeId[i]
  BY DEF Up
<1>2. rpu_treeId[i] \in TreeId
  BY DEF TypeInv, TopInv, PathInv, IInv, TypeOK
<1>3. Issue(i).op # "NONE" /\ Issue(i).tree = rpu_treeId[i]
  BY DEF Issue
<1>4. rpu_treeId[i] % LEVEL = i
  BY <1>3 DEF TypeInv, HomeInv
<1>5. 0 \in RPU /\ rpu_treeId[i] + 0 = rpu_treeId[i]
  <2>1. rpu_treeId[i] \in Nat
    BY <1>2, TreeIdAssumption
  <2>. QED
    BY <2>1, LevelAssumption DEF RPU
<1>6. 0 < 2 ^ 0
  BY PowerZero
<1>. QED
  BY <1>1, <1>2, <1>4, <1>5, <1>6 DEF CommandOK

\* One that is handed on is at a child of the node it was at.
LEMMA HandedCommandOK ==
  ASSUME TypeInv, NEW i \in RPU, ~rpu_push_new[i], ~rpu_pop_new[i]
  PROVE  CommandOK(i, Up(i))
<1> DEFINE p == Pred(i)
           r == rpu[p]
           b == port(r, rdata[p])
           dn == down(r, rdata[p])
<1> SUFFICES ASSUME Up(i).push \/ Up(i).pop
             PROVE  /\ Up(i).level \in RPU /\ Up(i).tree \in TreeId
                    /\ Up(i).addr \in Nat /\ Up(i).addr < 2 ^ Up(i).level
                    /\ (Up(i).tree + Up(i).level) % LEVEL = i
  BY DEF CommandOK
<1>1. p \in RPU /\ (IF p = LEVEL - 1 THEN i = 0 ELSE i = p + 1)
  BY LevelAssumption DEF Pred, RPU
<1>2. /\ Up(i).level = dn.level /\ Up(i).addr = dn.addr /\ Up(i).tree = dn.tree
      /\ dn.push \/ dn.pop
  BY DEF Up
<1>3. RegistersOK(p) /\ r.level \in 0 .. LEVEL - 1 /\ r.addr \in Nat /\ r.tree \in TreeId
  BY <1>1 DEF TypeInv, TopTypeOK, RegistersOK, RPU
<1>4. r.fsm # "IDLE" /\ r.level < LEVEL - 1
  BY <1>2 DEF down, Popping
<1>5. dn.level = r.level + 1
  <2>1. r.level + 1 \in 0 .. LevelSpan - 1 /\ LevelSpan \in Nat \ {0}
    BY <1>3, <1>4, LevelSpanRange, LevelAssumption
  <2>. QED
    BY <2>1, ModSmall DEF down
<1>6. dn.addr = (2 * r.addr + b) % 2 ^ (LEVEL - 1) /\ dn.tree = r.tree
  BY <1>4 DEF down
<1>7. b \in {0, 1}
  BY PortSlot DEF Slot
<1> HIDE DEF p, r, b, dn
<1>8. 2 * r.addr + b < 2 ^ (r.level + 1) /\ 2 * r.addr + b \in Nat
  <2>1. r.addr < 2 ^ r.level
    BY <1>3 DEF RegistersOK, r
  <2>2. 2 ^ (r.level + 1) = 2 * 2 ^ r.level /\ 2 ^ r.level \in Nat
    BY <1>3, PowerSucc
  <2>. QED
    BY <1>3, <1>7, <2>1, <2>2
<1>9. dn.addr \in Nat /\ dn.addr < 2 ^ (r.level + 1)
  <2>1. r.level + 1 \in Nat /\ LEVEL - 1 \in Nat /\ r.level + 1 <= LEVEL - 1
    BY <1>3, <1>4, LevelAssumption
  <2>2. 2 ^ (r.level + 1) <= 2 ^ (LEVEL - 1) /\ 2 ^ (LEVEL - 1) \in Nat \ {0}
        /\ 2 ^ (r.level + 1) \in Nat
    BY <2>1, PowerMonotone, PowerSucc
  <2>3. 2 * r.addr + b \in 0 .. 2 ^ (LEVEL - 1) - 1
    BY <1>8, <2>2
  <2>. QED
    BY <1>6, <1>8, <2>2, <2>3, ModSmall
<1>10. (r.tree + (r.level + 1)) % LEVEL = i
  <2>1. (r.tree + r.level) % LEVEL = p
    BY <1>3, <1>4 DEF RegistersOK, r
  <2>2. r.tree + r.level \in Nat /\ LEVEL \in Nat \ {0}
        /\ r.tree + (r.level + 1) = (r.tree + r.level) + 1
    <3>1. r.tree \in Nat
      BY <1>3, TreeIdAssumption
    <3>. QED
      BY <1>3, <3>1, LevelAssumption
  <2>3. p < LEVEL - 1 \/ p = LEVEL - 1
    BY <1>1, LevelAssumption DEF RPU
  <2>. QED
    BY <1>1, <2>1, <2>2, <2>3, ModSucc
<1>11. r.level + 1 \in RPU
  BY <1>3, <1>4, LevelAssumption DEF RPU
<1>. QED
  BY <1>2, <1>3, <1>5, <1>6, <1>9, <1>10, <1>11

\* The word on the ports, and the level, which the ports show in any case.
LEMMA PortsTyped ==
  ASSUME TypeInv, NEW i \in RPU
  PROVE  Up(i).data \in StoredWord /\ Up(i).level \in 0 .. LevelSpan - 1
<1> DEFINE p == Pred(i)
<1>1. p \in RPU
  BY PredRPU
<1>2. rpu[p].latch \in StoredWord /\ rdata[p] \in Node /\ rpu[p].level \in 0 .. LEVEL - 1
  BY <1>1 DEF TypeInv, TopTypeOK, RPU
<1>3. rpu_push_data[i] \in StoredWord
  BY WordAssumption DEF TypeInv, TopInv, PathInv, IInv, TypeOK
<1>4. down(rpu[p], rdata[p]).data \in StoredWord
  BY <1>2, WordRange, PortSlot DEF down, Node
<1>5. LevelSpan \in Nat \ {0}
  BY LevelSpanRange, LevelAssumption
<1>6. down(rpu[p], rdata[p]).level \in 0 .. LevelSpan - 1
  <2>1. rpu[p].level + 1 \in Nat
    BY <1>2
  <2>. QED
    BY <1>5, <2>1, DivMod DEF down
<1>. QED
  BY <1>3, <1>4, <1>5, <1>6 DEF Up

-----------------------------------------------------------------------------
(* One clock edge.                                                         *)
RegisterType == [fsm : {"IDLE", "PUSH", "POP", "WB"}, latch : StoredWord,
                 addr : Nat, level : RPU, tree : TreeId]

\* A clock edge leaves typed registers in every RPU ...
LEMMA RegistersStep ==
  ASSUME TypeInv, RPUClock, NEW i \in RPU
  PROVE  RegistersOK(i)'
<1> DEFINE r == rpu[i]
           up == Up(i)
           n == RPU_nxt(r, up)
<1>1. rpu'[i] = n
  BY DEF RPUClock
<1>2. /\ r \in RegisterType /\ r.addr < 2 ^ r.level
      /\ r.fsm # "IDLE" => (r.tree + r.level) % LEVEL = i
  BY DEF TypeInv, TopTypeOK, RegisterType
<1>3. CommandOK(i, up)
  BY NewCommandOK, HandedCommandOK
<1>4. up.data \in StoredWord
  BY PortsTyped
<1> HIDE DEF r, up
<1>5. /\ n \in RegisterType /\ n.addr < 2 ^ n.level
      /\ n.fsm # "IDLE" => (n.tree + n.level) % LEVEL = i
  <2>1. CASE r.fsm = "POP"
    <3>1. n = [r EXCEPT !.fsm = "WB"]
      BY <2>1 DEF RPU_nxt
    <3>. QED
      BY <1>2, <2>1, <3>1 DEF RegisterType
  <2>2. CASE r.fsm # "POP" /\ up.push /\ ~up.pop
    <3>1. n = [fsm |-> "PUSH", latch |-> up.data, addr |-> up.addr,
               level |-> up.level, tree |-> up.tree]
      BY <2>2 DEF RPU_nxt
    <3>. QED
      BY <1>3, <1>4, <2>2, <3>1 DEF RegisterType, CommandOK
  <2>3. CASE r.fsm # "POP" /\ ~up.push /\ up.pop
    <3>1. n = [fsm |-> "POP", latch |-> 0, addr |-> up.addr,
               level |-> up.level, tree |-> up.tree]
      BY <2>3 DEF RPU_nxt
    <3>. QED
      BY <1>3, <2>3, <3>1, WordRange DEF RegisterType, CommandOK
  <2>4. CASE ~(r.fsm = "POP") /\ ~(up.push /\ ~up.pop) /\ ~(~up.push /\ up.pop)
    <3>1. n = ResetRegisters
      BY <2>4 DEF RPU_nxt
    <3>2. 0 \in RPU /\ 0 < 2 ^ 0 /\ 0 \in Nat
      BY PowerZero, LevelAssumption DEF RPU
    <3>. QED
      BY <3>1, <3>2, WordRange, ZeroWordAssumption DEF RegisterType, ResetRegisters
  <2>. QED
    BY <2>1, <2>2, <2>3, <2>4
<1> HIDE DEF n
<1>. QED
  BY <1>1, <1>5 DEF RegistersOK, RegisterType, StoredWord, RPU

\* ... and nodes in the SRAMs and on their read ports.
LEMMA MemoryStep ==
  ASSUME TypeInv, RPUClock
  PROVE  /\ sram' \in [RPU -> [SRAMAddr -> Node]] /\ rdata' \in [RPU -> Node]
         /\ level_wb' \in [RPU -> 0 .. LevelSpan - 1]
<1>1. TopTypeOK
  BY DEF TypeInv
<1>2. sram' = [i \in RPU |-> SRAM_write(i)]
  BY DEF RPUClock
<1>3. rdata' = [i \in RPU |-> SRAM_read(i, Up(i), SRAM_write(i))]
  BY DEF RPUClock
<1>4. level_wb' = [i \in RPU |-> Up(i).level]
  BY DEF RPUClock
<1>5. ASSUME NEW i \in RPU
      PROVE  SRAM_read(i, Up(i), SRAM_write(i)) \in Node
  <2>1. CASE read(rpu[i], Up(i))
    <3>1. Up(i).push \/ Up(i).pop
      BY <2>1 DEF read
    <3>2. CommandOK(i, Up(i))
      BY NewCommandOK, HandedCommandOK
    <3>3. offset[Up(i).tree][Up(i).level] + Up(i).addr \in SRAMAddr
      BY <3>1, <3>2, AddrInRange DEF CommandOK
    <3>. QED
      BY <1>1, <2>1, <3>3, MemoryWritten DEF SRAM_read
  <2>2. CASE ~read(rpu[i], Up(i))
    BY <1>1, <2>2 DEF SRAM_read, TopTypeOK
  <2>. QED
    BY <2>1, <2>2
<1>. QED
  BY <1>1, <1>2, <1>3, <1>4, <1>5, MemoryWritten, PortsTyped

\* The invariant survives a clock edge, a step that changes nothing, and holds
\* after reset.
LEMMA TypeStep ==
  ASSUME TypeInv, NEW in, AllAtHome(in), TopClock(in)
  PROVE  TypeInv'
<1>1. TopInv'
  BY TopStep DEF TypeInv, AllAtHome
<1>2. HomeInv'
  BY StayHome DEF TypeInv, TopInv, TopClock, PathClock
<1>3. \A i \in RPU : RegistersOK(i)'
  BY RegistersStep DEF TopClock
<1>4. TopTypeOK'
  BY <1>3, MemoryStep DEF TopTypeOK, RegistersOK, TopClock
<1>. QED
  BY <1>1, <1>2, <1>4 DEF TypeInv

LEMMA TypeStutter == TypeInv /\ UNCHANGED topVars => TypeInv'
<1> SUFFICES ASSUME TypeInv, UNCHANGED topVars PROVE TypeInv'
  OBVIOUS
<1>1. TopInv'
  BY TopStutter DEF TypeInv
<1>2. TopTypeOK'
  BY DEF TypeInv, TopTypeOK, topVars, rpuVars
<1>3. /\ UNCHANGED <<fifo, fifo_out, rpu_push_new, rpu_pop_new, rpu_treeId, rpu_push_data>>
      /\ UNCHANGED headVars
  BY DEF topVars, fifoVars, tdVars, issueVars
<1>4. TaskHead(fifo_out)' = TaskHead(fifo_out) /\ \A i \in RPU : Issue(i)' = Issue(i)
  BY <1>3 DEF TaskHead, Issue, headVars
<1>5. HomeInv'
  BY <1>3, <1>4 DEF TypeInv, HomeInv, HomeTask, AtHome, Task
<1>. QED
  BY <1>1, <1>2, <1>5 DEF TypeInv

LEMMA TypeInit == TopInit => TypeInv
<1> SUFFICES ASSUME TopInit PROVE TypeInv
  OBVIOUS
<1>1. TopInv /\ HomeInv
  BY TopInitInv, HomeInit
<1>2. 0 \in RPU /\ 0 < 2 ^ 0 /\ 0 \in Nat
  BY PowerZero, LevelAssumption DEF RPU
<1>3. 0 \in 0 .. LevelSpan - 1
  BY LevelSpanRange, LevelAssumption
<1>4. \A i \in RPU : RegistersOK(i)
  BY <1>2, WordRange, ZeroWordAssumption DEF TopInit, RegistersOK, ResetRegisters
<1>5. TopTypeOK
  BY <1>3, <1>4, WordRange DEF TopInit, TopTypeOK, RegistersOK
<1>. QED
  BY <1>1, <1>5 DEF TypeInv

(* Whatever mix of operations is under way: an RPU works on a tree's level *)
(* only where PIFO_SRAM_TOP.sv put that level, at a node of the level, no  *)
(* address leaves the memory and no word or subtree size outgrows its      *)
(* width, for every LEVEL, every width and every set of trees.             *)
THEOREM EngineTyped == TopSpec => []TopTypeOK
<1>1. TypeInv /\ [TopNext]_topVars => TypeInv'
  BY TypeStep, TypeStutter, InputsAtHome DEF TopNext
<1>2. TypeInv => TopTypeOK
  BY DEF TypeInv
<1>. QED
  BY <1>1, <1>2, TypeInit, PTL DEF TopSpec

-----------------------------------------------------------------------------
(* One tree as a machine of its own.                                       *)
\* The positions of a tree's nodes: the first, and the one below slot b.
Root == <<0, 0>>
Child(p, b) == <<p[1] + 1, 2 * p[2] + b>>

\* The node above, the slot of it that p hangs on, and whether p has children.
Parent(p) == <<p[1] - 1, p[2] \div 2>>
Side(p) == p[2] % 2
Inner(p) == p[1] < LEVEL - 1

\* What a push of d does to a node (PIFO_SRAM.sv, state PUSH): the slot with the
\* fewer words counts one more and keeps the smaller of its word and d ...
Yields(word, d) == Rank(word) = RankOnes \/ Rank(d) < Rank(word)
AfterPush(n, d) ==
  [n EXCEPT !.size[min_sub_tree(n)] = (@ + 1) % 2 ^ CTW,
            !.val[min_sub_tree(n)] = IF Yields(@, d) THEN d ELSE @]

\* ... and the other one is handed on.
HandedOn(n, d) == LET w == n.val[min_sub_tree(n)] IN IF Yields(w, d) THEN w ELSE d

\* What a pop does, until WB brings a word up: the slot of the smallest rank
\* counts one less and is open.
AfterPop(n) ==
  LET b == min_data_port(n)
  IN  IF n.size[b] = 0 THEN n ELSE [n EXCEPT !.size[b] = @ - 1, !.val[b] = AllOnes]

\* The word a pop of the node answers.
Least(n) == n.val[min_data_port(n)]

\* A cell of the tree: its node with the operations it has heard done (eff), as
\* its neighbours see it (seen: a pop in progress still shows the word it takes),
\* and the operation, slot and word it hands down.  First a node at rest ...
RestCell(n) == [eff |-> n, seen |-> n, mode |-> "NONE", slot |-> 0, word |-> AllOnes]

\* ... then one in POP ...
PopCell(n) == [eff |-> AfterPop(n), seen |-> n, mode |-> "POP",
               slot |-> min_data_port(n), word |-> AllOnes]

\* ... and one that has taken a push, which goes on below a filled slot.
GoesOn(n, p) == Filled(n, min_sub_tree(n)) /\ Inner(p)
PushCell(n, d, p) ==
  [eff |-> AfterPush(n, d), seen |-> AfterPush(n, d),
   mode |-> IF GoesOn(n, p) THEN "PUSH" ELSE "NONE", slot |-> min_sub_tree(n),
   word |-> IF GoesOn(n, p) THEN HandedOn(n, d) ELSE AllOnes]

\* The operation that reaches node p, from the ports or from the node above it,
\* and the word that comes with a push.
Given(X, cmd, p) ==
  IF p = Root THEN cmd.op
  ELSE IF X[Parent(p)].slot = Side(p) THEN X[Parent(p)].mode ELSE "NONE"
GivenWord(X, cmd, p) == IF p = Root THEN cmd.data ELSE X[Parent(p)].word

\* A node in WB: the open slot takes the word the child below it answers.
Refilled(X, p) ==
  LET c == X[p]
  IN  IF c.seen.size[c.slot] = 0 THEN c.eff
      ELSE [c.eff EXCEPT !.val[c.slot] =
              IF Inner(p) THEN Least(X[Child(p, c.slot)].eff) ELSE AllOnes]
Rested(X, p) == IF X[p].mode = "POP" THEN Refilled(X, p) ELSE X[p].eff

\* One clock edge, for a node and for the whole tree.
NextCell(X, cmd, p) ==
  CASE Given(X, cmd, p) = "PUSH" -> PushCell(X[p].eff, GivenWord(X, cmd, p), p)
    [] Given(X, cmd, p) = "POP" -> PopCell(X[p].eff)
    [] OTHER -> RestCell(Rested(X, p))
NextTree(X, cmd) == [p \in Position |-> NextCell(X, cmd, p)]

\* The words in slot b of a node, and those below the slot.
Count(n, b) == IF Filled(n, b) THEN 1 ELSE 0
SizeBelow(X, p, b) ==
  IF Inner(p)
  THEN X[Child(p, b)].eff.size[0] + X[Child(p, b)].eff.size[1]
         + (IF X[p].mode = "PUSH" /\ X[p].slot = b THEN 1 ELSE 0)
  ELSE 0

\* What holds of node p of a tree: what its mode means for it; a slot is filled
\* when its count says so; a count is the number of the words in the slot and
\* below, and in bounds; and no word below a slot is smaller than the one in it.
CellOK(X, p) ==
  LET c == X[p] IN
  /\ c.mode # "POP" => c.seen = c.eff
  /\ c.mode = "POP" => c.slot = min_data_port(c.seen) /\ c.eff = AfterPop(c.seen)
  /\ c.mode = "PUSH" => /\ Inner(p) /\ Filled(c.eff, c.slot) /\ Rank(c.word) # RankOnes
                        /\ Rank(c.eff.val[c.slot]) <= Rank(c.word)
  /\ c.mode # "PUSH" => c.word = AllOnes
  /\ \A b \in Slot :
       /\ Filled(c.seen, b) <=> c.seen.size[b] # 0
       /\ ~Filled(c.seen, b) => c.seen.val[b] = AllOnes
       /\ c.eff.size[b] = Count(c.eff, b) + SizeBelow(X, p, b)
       /\ c.eff.size[b] <= 2 ^ (LEVEL - p[1]) - 1
       /\ Inner(p) => \A e \in Slot : Rank(c.seen.val[b]) <= Rank(X[Child(p, b)].seen.val[e])

\* The inductive invariant of a tree.
TreeOK(X) == \A p \in Position : CellOK(X, p)

\* The RPU that works on node p of tree t, and whether it does so now.
Host(t, p) == (t + p[1]) % LEVEL
On(t, p) == LET r == rpu[Host(t, p)]
            IN  r.fsm # "IDLE" /\ r.tree = t /\ r.level = p[1] /\ r.addr = p[2]

\* The cell of node p of tree t, read off the RPU that works on it, or else the
\* SRAM.
Cell(t, p) ==
  LET i == Host(t, p)
      r == rpu[i]
  IN  CASE On(t, p) /\ r.fsm = "PUSH" -> PushCell(rdata[i], r.latch, p)
        [] On(t, p) /\ r.fsm = "POP" -> PopCell(rdata[i])
        [] On(t, p) /\ r.fsm = "WB" -> RestCell(wdata(r, rdata[i], pop_data_dn(i)))
        [] ~On(t, p) -> RestCell(NodeAt(t, p))

\* Tree t, and the command that is started on it.
Tree(t) == [p \in Position |-> Cell(t, p)]
Cmd(t) == IF Issue(t % LEVEL).op # "NONE" /\ Issue(t % LEVEL).tree = t
          THEN Issue(t % LEVEL) ELSE [op |-> "NONE"]
-----------------------------------------------------------------------------
\* The type of a cell.
CellType == [eff : Node, seen : Node, mode : {"NONE", "PUSH", "POP"},
             slot : Slot, word : StoredWord]

\* Ranks.
LEMMA RankRange ==
  /\ RankOnes \in Nat /\ Rank(AllOnes) = RankOnes /\ AllOnes \in StoredWord
  /\ \A w \in StoredWord : Rank(w) \in 0 .. RankOnes
<1>1. 2 ^ PTW \in Nat \ {0} /\ 2 ^ MTW \in Nat \ {0} /\ 2 ^ (MTW + PTW) = 2 ^ MTW * 2 ^ PTW
  BY WidthAssumption, PowerSucc, PowerAdd
<1>2. \A w \in Nat : w % 2 ^ PTW \in 0 .. 2 ^ PTW - 1
  BY <1>1, DivMod
<1> DEFINE a == 2 ^ PTW
           m == 2 ^ MTW
<1>3. m \in Nat /\ a \in Nat \ {0} /\ m - 1 \in Nat /\ a - 1 \in 0 .. a - 1 /\ m * a \in Nat \ {0}
  BY <1>1
<1>4. m * a - 1 = a * (m - 1) + (a - 1)
  <2> HIDE DEF a, m
  <2>1. m \in Int /\ a \in Int
    BY <1>3
  <2>2. a * (m - 1) = m * a - a
    BY <2>1
  <2>. QED
    BY <1>3, <2>1, <2>2
<1>5. (m * a - 1) % a = a - 1
  <2> HIDE DEF a, m
  <2>1. (a * (m - 1) + (a - 1)) % a = a - 1
    BY <1>3, DivModUnique
  <2>. QED
    BY <1>4, <2>1
<1>6. AllOnes = m * a - 1 /\ AllOnes \in StoredWord
  BY <1>1, <1>3 DEF AllOnes, StoredWord
<1>7. StoredWord \subseteq Nat
  BY <1>6, <1>3 DEF StoredWord
<1>. QED
  BY <1>1, <1>2, <1>3, <1>5, <1>6, <1>7 DEF Rank, RankOnes

\* The positions of a tree.
LEMMA Positions ==
  /\ Root \in Position
  /\ \A p \in Position : p[1] \in 0 .. LEVEL - 1 /\ p[2] \in Nat /\ p[2] < 2 ^ p[1] /\ p = <<p[1], p[2]>>
  /\ \A k \in 0 .. LEVEL - 1, a \in Nat : a < 2 ^ k => <<k, a>> \in Position
<1>1. \A k \in 0 .. LEVEL - 1 : 2 ^ k \in Nat /\ 2 ^ k <= 2 ^ (LEVEL - 1)
  <2> SUFFICES ASSUME NEW k \in 0 .. LEVEL - 1 PROVE 2 ^ k \in Nat /\ 2 ^ k <= 2 ^ (LEVEL - 1)
    OBVIOUS
  <2>1. k \in Nat /\ LEVEL - 1 \in Nat /\ k <= LEVEL - 1
    BY LevelAssumption
  <2>. QED
    BY <2>1, PowerMonotone, PowerSucc
<1>2. 2 ^ (LEVEL - 1) \in Nat
  BY LevelAssumption, PowerSucc
<1>3. \A p \in Position : p[1] \in 0 .. LEVEL - 1 /\ p[2] \in Nat /\ p[2] < 2 ^ p[1] /\ p = <<p[1], p[2]>>
  BY <1>2 DEF Position, RPU
<1>4. \A k \in 0 .. LEVEL - 1, a \in Nat : a < 2 ^ k => <<k, a>> \in Position
  BY <1>1, <1>2 DEF Position, RPU
<1>5. Root \in Position
  <2>1. 0 \in 0 .. LEVEL - 1 /\ 0 < 2 ^ 0 /\ 0 \in Nat
    BY LevelAssumption, PowerZero
  <2>. QED
    BY <2>1, <1>4 DEF Root
<1>. QED
  BY <1>3, <1>4, <1>5

\* Below an inner position there are two.
LEMMA ChildPosition ==
  ASSUME NEW p \in Position, NEW b \in Slot, Inner(p)
  PROVE  /\ Child(p, b) \in Position /\ Child(p, b) # Root
         /\ Parent(Child(p, b)) = p /\ Side(Child(p, b)) = b
         /\ Child(p, b)[1] = p[1] + 1
<1>1. p[1] \in 0 .. LEVEL - 1 /\ p[2] \in Nat /\ p[2] < 2 ^ p[1] /\ p = <<p[1], p[2]>>
  BY Positions
<1>2. p[1] + 1 \in 0 .. LEVEL - 1 /\ b \in {0, 1}
  BY <1>1, LevelAssumption DEF Inner, Slot
<1>3. 2 ^ (p[1] + 1) = 2 * 2 ^ p[1] /\ 2 ^ p[1] \in Nat
  BY <1>1, PowerSucc
<1>4. 2 * p[2] + b \in Nat /\ 2 * p[2] + b < 2 ^ (p[1] + 1)
  BY <1>1, <1>2, <1>3
<1>5. Child(p, b) \in Position
  BY <1>2, <1>4, Positions DEF Child
<1>6. (2 * p[2] + b) \div 2 = p[2] /\ (2 * p[2] + b) % 2 = b
  BY <1>1, <1>2
<1>. QED
  BY <1>1, <1>2, <1>5, <1>6 DEF Child, Parent, Side, Root

\* Above every position but the root there is one.
LEMMA ParentPosition ==
  ASSUME NEW p \in Position, p # Root
  PROVE  /\ Parent(p) \in Position /\ Side(p) \in Slot /\ Inner(Parent(p))
         /\ p = Child(Parent(p), Side(p))
<1>1. p[1] \in 0 .. LEVEL - 1 /\ p[2] \in Nat /\ p[2] < 2 ^ p[1] /\ p = <<p[1], p[2]>>
  BY Positions
<1>2. p[1] # 0
  <2>1. p[1] = 0 => p[2] < 1
    BY <1>1, PowerZero
  <2>2. p[1] = 0 => p[2] = 0
    BY <1>1, <2>1
  <2>. QED
    BY <1>1, <2>2 DEF Root
<1>3. p[1] - 1 \in 0 .. LEVEL - 1 /\ p[1] - 1 < LEVEL - 1 /\ (p[1] - 1) + 1 = p[1] /\ p[1] - 1 \in Nat
  BY <1>1, <1>2, LevelAssumption
<1>4. 2 ^ ((p[1] - 1) + 1) = 2 * 2 ^ (p[1] - 1) /\ 2 ^ (p[1] - 1) \in Nat
  BY <1>3, PowerSucc
<1>5. p[2] = 2 * (p[2] \div 2) + (p[2] % 2) /\ p[2] \div 2 \in Nat /\ p[2] % 2 \in {0, 1}
  BY <1>1
<1>6. p[2] \div 2 < 2 ^ (p[1] - 1)
  BY <1>1, <1>3, <1>4, <1>5
<1>7. Parent(p) \in Position
  BY <1>3, <1>5, <1>6, Positions DEF Parent
<1>. QED
  BY <1>1, <1>3, <1>5, <1>7 DEF Parent, Side, Inner, Child, Slot

-----------------------------------------------------------------------------
(* Nodes.                                                                  *)
Sz(n) == n.size[0] + n.size[1]

\* The parts of a node.
LEMMA NodeType ==
  ASSUME NEW n \in Node
  PROVE  /\ \A b \in Slot : n.size[b] \in 0 .. 2 ^ CTW - 1 /\ n.size[b] \in Nat
                             /\ n.val[b] \in StoredWord /\ Rank(n.val[b]) \in 0 .. RankOnes
         /\ Sz(n) \in Nat /\ 2 ^ CTW \in Nat \ {0}
<1>1. 2 ^ CTW \in Nat \ {0}
  BY WidthAssumption, PowerSucc
<1>2. n.size \in [Slot -> 0 .. 2 ^ CTW - 1] /\ n.val \in [Slot -> StoredWord]
  BY DEF Node
<1>3. \A b \in Slot : n.size[b] \in 0 .. 2 ^ CTW - 1 /\ n.val[b] \in StoredWord
  BY <1>2
<1>4. n.size[0] \in Nat /\ n.size[1] \in Nat
  BY <1>1, <1>3 DEF Slot
<1>. QED
  BY <1>1, <1>3, <1>4, RankRange DEF Sz

\* A node with one slot changed.
WithSlot(n, b, s, v) == [n EXCEPT !.size[b] = s, !.val[b] = v]

\* Its other slot is what it was.
LEMMA SlotChanged ==
  ASSUME NEW n \in Node, NEW b \in Slot, NEW s \in 0 .. 2 ^ CTW - 1, NEW v \in StoredWord,
         NEW m, m = WithSlot(n, b, s, v)
  PROVE  /\ m \in Node /\ m.size[b] = s /\ m.val[b] = v
         /\ \A c \in Slot : c # b => m.size[c] = n.size[c] /\ m.val[c] = n.val[c]
<1>1. n.size \in [Slot -> 0 .. 2 ^ CTW - 1] /\ n.val \in [Slot -> StoredWord]
  BY DEF Node
<1>2. /\ [n.size EXCEPT ![b] = s] \in [Slot -> 0 .. 2 ^ CTW - 1]
      /\ [n.val EXCEPT ![b] = v] \in [Slot -> StoredWord]
  BY <1>1
<1>3. m.size = [n.size EXCEPT ![b] = s] /\ m.val = [n.val EXCEPT ![b] = v]
  BY DEF Node, WithSlot
<1>4. m \in Node
  BY <1>2 DEF Node, WithSlot
<1>. QED
  BY <1>1, <1>3, <1>4

\* min_sub_tree and min_data_port are what their names say.
LEMMA MinSubTree ==
  ASSUME NEW n \in Node
  PROVE  /\ min_sub_tree(n) \in Slot
         /\ \A c \in Slot : n.size[min_sub_tree(n)] <= n.size[c]
  BY NodeType DEF min_sub_tree, Slot

\* The slot a pop takes has the smaller rank.
LEMMA MinDataPort ==
  ASSUME NEW n \in Node
  PROVE  /\ min_data_port(n) \in Slot
         /\ \A c \in Slot : Rank(n.val[min_data_port(n)]) <= Rank(n.val[c])
<1>1. Rank(n.val[0]) \in Nat /\ Rank(n.val[1]) \in Nat
  BY NodeType, RankRange DEF Slot
<1>. QED
  BY <1>1 DEF min_data_port, Slot

\* A push changes one slot.
LEMMA AfterPushNode ==
  ASSUME NEW n \in Node, NEW d \in StoredWord
  PROVE  LET m == AfterPush(n, d)
             b == min_sub_tree(n)
         IN  /\ m \in Node /\ b \in Slot
             /\ m.size[b] = (n.size[b] + 1) % 2 ^ CTW
             /\ m.val[b] = IF Yields(n.val[b], d) THEN d ELSE n.val[b]
             /\ \A c \in Slot : c # b => m.size[c] = n.size[c] /\ m.val[c] = n.val[c]
<1> DEFINE b == min_sub_tree(n)
           s == (n.size[b] + 1) % 2 ^ CTW
           v == IF Yields(n.val[b], d) THEN d ELSE n.val[b]
<1>1. b \in Slot
  BY MinSubTree
<1>2. s \in 0 .. 2 ^ CTW - 1
  <2>1. n.size[b] + 1 \in Nat /\ 2 ^ CTW \in Nat \ {0}
    BY <1>1, NodeType
  <2>. QED
    BY <2>1, DivMod
<1>3. v \in StoredWord
  BY <1>1, NodeType
<1> DEFINE m == AfterPush(n, d)
<1>4. m = WithSlot(n, b, s, v)
  BY DEF AfterPush, WithSlot
<1> HIDE DEF b, s, v, m
<1>5.     /\ m \in Node /\ m.size[b] = s /\ m.val[b] = v
          /\ \A c \in Slot : c # b => m.size[c] = n.size[c] /\ m.val[c] = n.val[c]
  BY <1>1, <1>2, <1>3, <1>4, SlotChanged
<1>. QED
  BY <1>1, <1>5 DEF b, s, v, m

\* A pop changes one slot, unless it is empty.
LEMMA AfterPopNode ==
  ASSUME NEW n \in Node
  PROVE  LET m == AfterPop(n)
             b == min_data_port(n)
         IN  /\ m \in Node /\ b \in Slot
             /\ n.size[b] = 0 => m = n
             /\ n.size[b] # 0 => m.size[b] = n.size[b] - 1 /\ m.val[b] = AllOnes
             /\ \A c \in Slot : c # b => m.size[c] = n.size[c] /\ m.val[c] = n.val[c]
<1> DEFINE b == min_data_port(n)
           m == AfterPop(n)
<1>1. b \in Slot
  BY MinDataPort
<1>2. CASE n.size[b] = 0
  <2>1. m = n
    BY <1>2 DEF AfterPop
  <2>. QED
    BY <1>1, <1>2, <2>1
<1>3. CASE n.size[b] # 0
  <2> DEFINE s == n.size[b] - 1
  <2>1. s \in 0 .. 2 ^ CTW - 1
    BY <1>1, <1>3, NodeType
  <2>2. m = WithSlot(n, b, s, AllOnes)
    BY <1>3 DEF AfterPop, WithSlot
  <2>3. AllOnes \in StoredWord
    BY RankRange
  <2> HIDE DEF s, m, b
  <2>4. /\ m \in Node /\ m.size[b] = s /\ m.val[b] = AllOnes
        /\ \A c \in Slot : c # b => m.size[c] = n.size[c] /\ m.val[c] = n.val[c]
    BY <1>1, <2>1, <2>2, <2>3, SlotChanged
  <2>. QED
    BY <1>1, <1>3, <2>4 DEF s, m, b
<1>. QED
  BY <1>2, <1>3

-----------------------------------------------------------------------------
(* What reaches a node, and what that makes of it.                         *)
\* A tree and a command that it can take.
CanStep(X, cmd) ==
  /\ LEVEL <= CTW
  /\ X \in [Position -> CellType] /\ TreeOK(X)
  /\ cmd.op \in {"NONE", "PUSH", "POP"}
  /\ \A p \in Position : X[p].mode = "POP" => Given(X, cmd, p) = "NONE"
  /\ cmd.op = "PUSH" => /\ cmd.data \in StoredWord /\ Rank(cmd.data) # RankOnes
                        /\ Sz(X[Root].eff) < 2 ^ (LEVEL + 1) - 2

\* The parts of a cell.
LEMMA CellTyped ==
  ASSUME NEW X \in [Position -> CellType], NEW p \in Position
  PROVE  /\ X[p].eff \in Node /\ X[p].seen \in Node /\ X[p].mode \in {"NONE", "PUSH", "POP"}
         /\ X[p].slot \in Slot /\ X[p].word \in StoredWord
<1>1. X[p] \in CellType
  OBVIOUS
<1>. QED
  BY <1>1 DEF CellType

\* Room in a subtree.
LEMMA Capacity ==
  ASSUME LEVEL <= CTW, NEW p \in Position
  PROVE  /\ 2 ^ (LEVEL - p[1]) \in Nat \ {0} /\ 2 ^ (LEVEL - p[1]) <= 2 ^ CTW
         /\ Inner(p) => \A b \in Slot : 2 ^ (LEVEL - p[1]) = 2 * 2 ^ (LEVEL - Child(p, b)[1])
         /\ ~Inner(p) => 2 ^ (LEVEL - p[1]) = 2
<1>1. p[1] \in 0 .. LEVEL - 1
  BY Positions
<1>2. LEVEL - p[1] \in Nat /\ LEVEL - p[1] <= CTW /\ CTW \in Nat
  BY <1>1, LevelAssumption, WidthAssumption
<1>3. 2 ^ (LEVEL - p[1]) \in Nat \ {0} /\ 2 ^ (LEVEL - p[1]) <= 2 ^ CTW
  BY <1>2, PowerSucc, PowerMonotone
<1>4. ASSUME Inner(p), NEW b \in Slot PROVE 2 ^ (LEVEL - p[1]) = 2 * 2 ^ (LEVEL - Child(p, b)[1])
  <2>1. Child(p, b)[1] = p[1] + 1
    BY <1>4, ChildPosition
  <2>2. LEVEL - (p[1] + 1) \in Nat /\ (LEVEL - (p[1] + 1)) + 1 = LEVEL - p[1]
    BY <1>1, LevelAssumption
  <2>3. 2 ^ ((LEVEL - (p[1] + 1)) + 1) = 2 * 2 ^ (LEVEL - (p[1] + 1))
    BY <2>2, PowerSucc
  <2>. QED
    BY <2>1, <2>2, <2>3
<1>5. ASSUME ~Inner(p) PROVE 2 ^ (LEVEL - p[1]) = 2
  <2> DEFINE k == 2 ^ (LEVEL - p[1])
  <2>1. LEVEL - p[1] = 1
    BY <1>1, <1>5, LevelAssumption DEF Inner
  <2>2. 2 ^ (0 + 1) = 2 * 2 ^ 0 /\ 2 ^ 0 = 1
    BY PowerZero, PowerSucc
  <2>3. 0 + 1 = 1
    OBVIOUS
  <2>4. k = 2 ^ (0 + 1)
    BY <2>1, <2>3
  <2> HIDE DEF k
  <2>5. k = 2
    BY <2>2, <2>4
  <2>. QED
    BY <2>5 DEF k
<1>. QED
  BY <1>3, <1>4, <1>5

\* What a cell is given; from the node above, or from outside.
LEMMA GivenFacts ==
  ASSUME NEW X, NEW cmd, CanStep(X, cmd), NEW p \in Position
  PROVE  /\ Given(X, cmd, p) \in {"NONE", "PUSH", "POP"}
         /\ Given(X, cmd, p) # "NONE" => X[p].mode # "POP" /\ X[p].seen = X[p].eff
         /\ Given(X, cmd, p) = "PUSH" => GivenWord(X, cmd, p) \in StoredWord
                                         /\ Rank(GivenWord(X, cmd, p)) # RankOnes
<1>1. X \in [Position -> CellType] /\ CellOK(X, p)
  BY DEF CanStep, TreeOK
<1>2. Given(X, cmd, p) # "NONE" => X[p].mode # "POP"
  BY DEF CanStep
<1>3. Given(X, cmd, p) # "NONE" => X[p].seen = X[p].eff
  BY <1>1, <1>2 DEF CellOK
<1>4. CASE p = Root
  BY <1>2, <1>3, <1>4 DEF Given, GivenWord, CanStep
<1>5. CASE p # Root
  <2>1. Parent(p) \in Position
    BY <1>5, ParentPosition
  <2>2. X[Parent(p)].mode \in {"NONE", "PUSH", "POP"} /\ X[Parent(p)].word \in StoredWord
    BY <1>1, <2>1, CellTyped
  <2>3. X[Parent(p)].mode = "PUSH" => Rank(X[Parent(p)].word) # RankOnes
    BY <2>1 DEF CanStep, TreeOK, CellOK
  <2>. QED
    BY <1>2, <1>3, <1>5, <2>2, <2>3 DEF Given, GivenWord
<1>. QED
  BY <1>4, <1>5

\* A child is given what its parent hands on.
LEMMA GivenChild ==
  ASSUME NEW X, NEW cmd, NEW p \in Position, Inner(p), NEW b \in Slot
  PROVE  /\ Given(X, cmd, Child(p, b)) = IF X[p].slot = b THEN X[p].mode ELSE "NONE"
         /\ GivenWord(X, cmd, Child(p, b)) = X[p].word
  BY ChildPosition DEF Given, GivenWord

\* A push that comes to a node finds room in the smaller subtree.
LEMMA RoomHere ==
  ASSUME NEW X, NEW cmd, CanStep(X, cmd), NEW p \in Position, Given(X, cmd, p) = "PUSH"
  PROVE  LET n == X[p].eff
             b == min_sub_tree(n)
         IN  /\ n.size[b] + 1 <= 2 ^ (LEVEL - p[1]) - 1
             /\ (n.size[b] + 1) % 2 ^ CTW = n.size[b] + 1
             /\ ~Inner(p) => ~Filled(n, b)
<1> DEFINE n == X[p].eff
           b == min_sub_tree(n)
           k == 2 ^ (LEVEL - p[1])
<1>1. X \in [Position -> CellType] /\ CellOK(X, p) /\ LEVEL <= CTW
  BY DEF CanStep, TreeOK
<1>2. n \in Node /\ b \in Slot /\ \A c \in Slot : n.size[b] <= n.size[c]
  BY <1>1, CellTyped, MinSubTree
<1>3. n.size[0] \in Nat /\ n.size[1] \in Nat /\ n.size[b] \in Nat /\ 2 ^ CTW \in Nat \ {0}
  BY <1>2, NodeType DEF Slot
<1>4. n.size[b] <= n.size[0] /\ n.size[b] <= n.size[1]
  BY <1>2 DEF Slot
<1>5. k \in Nat \ {0} /\ k <= 2 ^ CTW /\ (~Inner(p) => k = 2)
  BY <1>1, Capacity
<1>6. n.size[0] + n.size[1] < 2 * k - 2
  <2>1. CASE p = Root
    <3>1. Sz(n) < 2 ^ (LEVEL + 1) - 2
      BY <2>1 DEF CanStep, Given
    <3>2. 2 ^ (LEVEL + 1) = 2 * 2 ^ LEVEL /\ LEVEL - 0 = LEVEL
      BY LevelAssumption, PowerSucc
    <3>3. p[1] = 0
      BY <2>1 DEF Root
    <3>4. k = 2 ^ LEVEL
      BY <3>2, <3>3
    <3>. QED
      BY <3>1, <3>2, <3>4 DEF Sz
  <2>2. CASE p # Root
    <3> DEFINE q == Parent(p)
               e == Side(p)
    <3>1. q \in Position /\ e \in Slot /\ Inner(q) /\ p = Child(q, e)
      BY <2>2, ParentPosition
    <3>2. X[q].slot = e /\ X[q].mode = "PUSH"
      BY <2>2 DEF Given
    <3>3. CellOK(X, q)
      BY <3>1 DEF CanStep, TreeOK
    <3> HIDE DEF q, e
    <3>4. Count(X[q].eff, e) = 1
      BY <3>2, <3>3 DEF CellOK, Count
    <3>5. X[q].eff.size[e] = 1 + SizeBelow(X, q, e)
      BY <3>1, <3>3, <3>4 DEF CellOK
    <3>6. SizeBelow(X, q, e) = (n.size[0] + n.size[1]) + 1
      BY <3>1, <3>2 DEF SizeBelow
    <3>7. X[q].eff.size[e] <= 2 ^ (LEVEL - q[1]) - 1
      BY <3>1, <3>3 DEF CellOK
    <3>8. 2 ^ (LEVEL - q[1]) = 2 * k
      BY <1>1, <3>1, Capacity
    <3> HIDE DEF n, k
    <3>. QED
      BY <1>3, <1>5, <3>5, <3>6, <3>7, <3>8
  <2>. QED
    BY <2>1, <2>2
<1> HIDE DEF k
<1>7. n.size[b] + 1 <= k - 1
  BY <1>3, <1>4, <1>5, <1>6
<1>8. (n.size[b] + 1) % 2 ^ CTW = n.size[b] + 1
  <2>1. n.size[b] + 1 \in 0 .. 2 ^ CTW - 1
    BY <1>3, <1>5, <1>7
  <2>. QED
    BY <1>3, <2>1, ModSmall
<1>9. ASSUME ~Inner(p) PROVE ~Filled(n, b)
  <2>1. n.size[b] = 0
    BY <1>3, <1>5, <1>7, <1>9
  <2>2. X[p].seen = n
    BY GivenFacts
  <2>. QED
    BY <1>1, <1>2, <2>1, <2>2 DEF CellOK
<1>. QED
  BY <1>7, <1>8, <1>9 DEF k

\* A cell that is given a push.
LEMMA PushArrives ==
  ASSUME NEW X, NEW cmd, CanStep(X, cmd), NEW p \in Position, Given(X, cmd, p) = "PUSH",
         NEW n, n = X[p].eff, NEW b, b = min_sub_tree(n), NEW d, d = GivenWord(X, cmd, p),
         NEW c, c = NextCell(X, cmd, p)
  PROVE  /\ n \in Node /\ b \in Slot /\ d \in StoredWord /\ Rank(d) # RankOnes
         /\ X[p].mode # "POP" /\ X[p].seen = n
         /\ c.eff \in Node /\ c.seen = c.eff /\ c.slot = b
         /\ c.mode = IF Filled(n, b) /\ Inner(p) THEN "PUSH" ELSE "NONE"
         /\ c.word = IF Filled(n, b) /\ Inner(p) THEN (IF Yields(n.val[b], d) THEN n.val[b] ELSE d) ELSE AllOnes
         /\ c.eff.size[b] = n.size[b] + 1 /\ n.size[b] + 1 <= 2 ^ (LEVEL - p[1]) - 1
         /\ c.eff.val[b] = IF Yields(n.val[b], d) THEN d ELSE n.val[b]
         /\ \A e \in Slot : e # b => c.eff.size[e] = n.size[e] /\ c.eff.val[e] = n.val[e]
         /\ ~Inner(p) => ~Filled(n, b)
         /\ c \in CellType
<1>1. c = PushCell(n, d, p)
  BY DEF NextCell
<1>2. n \in Node /\ X[p].mode # "POP" /\ X[p].seen = n /\ d \in StoredWord /\ Rank(d) # RankOnes
  BY CellTyped, GivenFacts DEF CanStep
<1>3. b \in Slot
  BY <1>2, MinSubTree
<1>4. /\ n.size[b] + 1 <= 2 ^ (LEVEL - p[1]) - 1
      /\ (n.size[b] + 1) % 2 ^ CTW = n.size[b] + 1
      /\ ~Inner(p) => ~Filled(n, b)
  BY RoomHere
<1>5. LET m == AfterPush(n, d)
      IN  /\ m \in Node
          /\ m.size[b] = (n.size[b] + 1) % 2 ^ CTW
          /\ m.val[b] = IF Yields(n.val[b], d) THEN d ELSE n.val[b]
          /\ \A e \in Slot : e # b => m.size[e] = n.size[e] /\ m.val[e] = n.val[e]
  BY <1>2, AfterPushNode
<1> DEFINE on == Filled(n, b) /\ Inner(p)
           out == IF Yields(n.val[b], d) THEN n.val[b] ELSE d
<1>a. GoesOn(n, p) = on /\ HandedOn(n, d) = out
  BY DEF GoesOn, HandedOn
<1>b. n.val[b] \in StoredWord /\ AllOnes \in StoredWord
  BY <1>2, <1>3, NodeType, RankRange
<1>c. out \in StoredWord
  BY <1>2, <1>b
<1>6. c = [eff |-> AfterPush(n, d), seen |-> AfterPush(n, d),
           mode |-> IF on THEN "PUSH" ELSE "NONE", slot |-> b,
           word |-> IF on THEN out ELSE AllOnes]
  BY <1>1, <1>a DEF PushCell
<1> HIDE DEF on, out
<1>7. c.eff = AfterPush(n, d) /\ c.seen = AfterPush(n, d) /\ c.slot = b
      /\ c.mode = (IF on THEN "PUSH" ELSE "NONE")
      /\ c.word = (IF on THEN out ELSE AllOnes)
  BY <1>6
<1>8. c \in CellType
  BY <1>3, <1>5, <1>6, <1>b, <1>c DEF CellType
<1> DEFINE m == AfterPush(n, d)
<1>9. m \in Node /\ m.size[b] = n.size[b] + 1
      /\ m.val[b] = (IF Yields(n.val[b], d) THEN d ELSE n.val[b])
      /\ \A e \in Slot : e # b => m.size[e] = n.size[e] /\ m.val[e] = n.val[e]
  BY <1>4, <1>5
<1>10. c.eff = m /\ c.seen = m
  BY <1>7
<1> HIDE DEF m
<1>11. /\ c.eff \in Node /\ c.seen = c.eff /\ c.slot = b
       /\ c.eff.size[b] = n.size[b] + 1
       /\ c.eff.val[b] = (IF Yields(n.val[b], d) THEN d ELSE n.val[b])
       /\ \A e \in Slot : e # b => c.eff.size[e] = n.size[e] /\ c.eff.val[e] = n.val[e]
  BY <1>7, <1>9, <1>10
<1>12. c.mode = IF Filled(n, b) /\ Inner(p) THEN "PUSH" ELSE "NONE"
  BY <1>7 DEF on
<1>13. c.word = IF Filled(n, b) /\ Inner(p) THEN (IF Yields(n.val[b], d) THEN n.val[b] ELSE d) ELSE AllOnes
  BY <1>7 DEF on, out
<1>. QED
  BY <1>2, <1>3, <1>4, <1>8, <1>11, <1>12, <1>13

\* A cell that is given a pop.
LEMMA PopArrives ==
  ASSUME NEW X, NEW cmd, CanStep(X, cmd), NEW p \in Position, Given(X, cmd, p) = "POP",
         NEW n, n = X[p].eff, NEW b, b = min_data_port(n), NEW c, c = NextCell(X, cmd, p)
  PROVE  /\ n \in Node /\ b \in Slot /\ X[p].mode # "POP" /\ X[p].seen = n
         /\ c.seen = n /\ c.eff = AfterPop(n) /\ c.eff \in Node /\ c.slot = b /\ c.mode = "POP"
         /\ c.word = AllOnes
         /\ n.size[b] = 0 => c.eff = n
         /\ n.size[b] # 0 => c.eff.size[b] = n.size[b] - 1 /\ c.eff.val[b] = AllOnes
         /\ \A e \in Slot : e # b => c.eff.size[e] = n.size[e] /\ c.eff.val[e] = n.val[e]
         /\ \A e \in Slot : Rank(n.val[b]) <= Rank(n.val[e])
         /\ c \in CellType
<1>1. c = PopCell(n)
  BY DEF NextCell
<1>2. n \in Node /\ X[p].mode # "POP" /\ X[p].seen = n
  BY CellTyped, GivenFacts DEF CanStep
<1>3. b \in Slot /\ \A e \in Slot : Rank(n.val[b]) <= Rank(n.val[e])
  BY <1>2, MinDataPort
<1>4. LET m == AfterPop(n)
      IN  /\ m \in Node
          /\ n.size[b] = 0 => m = n
          /\ n.size[b] # 0 => m.size[b] = n.size[b] - 1 /\ m.val[b] = AllOnes
          /\ \A e \in Slot : e # b => m.size[e] = n.size[e] /\ m.val[e] = n.val[e]
  BY <1>2, AfterPopNode
<1>5. c.eff = AfterPop(n) /\ c.seen = n /\ c.slot = b /\ c.mode = "POP" /\ c.word = AllOnes
  BY <1>1 DEF PopCell
<1>6. c \in CellType
  BY <1>1, <1>2, <1>3, <1>4, RankRange DEF CellType, PopCell
<1>. QED
  BY <1>2, <1>3, <1>4, <1>5, <1>6

\* A cell that is given nothing and has no pop to end.
LEMMA NothingArrives ==
  ASSUME NEW X, NEW cmd, CanStep(X, cmd), NEW p \in Position, Given(X, cmd, p) = "NONE",
         X[p].mode # "POP", NEW c, c = NextCell(X, cmd, p)
  PROVE  /\ X[p].eff \in Node /\ X[p].seen = X[p].eff
         /\ c.eff = X[p].eff /\ c.seen = X[p].eff /\ c.mode = "NONE" /\ c.word = AllOnes
         /\ c \in CellType
<1>1. c = RestCell(X[p].eff)
  BY DEF NextCell, Rested
<1>2. X[p].eff \in Node /\ CellOK(X, p)
  BY CellTyped DEF CanStep, TreeOK
<1>. QED
  BY <1>1, <1>2, RankRange DEF RestCell, CellType, CellOK, Slot

\* A cell whose pop ends: the gap is filled with the least word below.
LEMMA PopEnds ==
  ASSUME NEW X, NEW cmd, CanStep(X, cmd), NEW p \in Position, X[p].mode = "POP",
         NEW n, n = X[p].seen, NEW b, b = X[p].slot, NEW c, c = NextCell(X, cmd, p)
  PROVE  /\ Given(X, cmd, p) = "NONE"
         /\ n \in Node /\ b \in Slot /\ b = min_data_port(n) /\ X[p].eff \in Node
         /\ c.seen = c.eff /\ c.eff \in Node /\ c.mode = "NONE" /\ c.word = AllOnes
         /\ n.size[b] = 0 => X[p].eff = n /\ c.eff = n
         /\ n.size[b] # 0 => /\ X[p].eff.size[b] = n.size[b] - 1 /\ X[p].eff.val[b] = AllOnes
                             /\ c.eff.size[b] = X[p].eff.size[b]
                             /\ c.eff.val[b] = IF Inner(p) THEN Least(X[Child(p, b)].eff) ELSE AllOnes
         /\ \A e \in Slot : e # b => /\ X[p].eff.size[e] = n.size[e] /\ X[p].eff.val[e] = n.val[e]
                                     /\ c.eff.size[e] = n.size[e] /\ c.eff.val[e] = n.val[e]
         /\ c \in CellType
<1>0. Given(X, cmd, p) = "NONE"
  BY DEF CanStep
<1>1. c = RestCell(Refilled(X, p))
  BY <1>0 DEF NextCell, Rested
<1>2. n \in Node /\ X[p].eff \in Node /\ CellOK(X, p) /\ X \in [Position -> CellType]
  BY CellTyped DEF CanStep, TreeOK
<1>3. b = min_data_port(n) /\ X[p].eff = AfterPop(n) /\ b \in Slot
  BY <1>2, CellTyped DEF CellOK
<1> DEFINE m == X[p].eff
<1>4. /\ m \in Node
      /\ n.size[b] = 0 => m = n
      /\ n.size[b] # 0 => m.size[b] = n.size[b] - 1 /\ m.val[b] = AllOnes
      /\ \A e \in Slot : e # b => m.size[e] = n.size[e] /\ m.val[e] = n.val[e]
  BY <1>2, <1>3, AfterPopNode
<1> DEFINE v == IF Inner(p) THEN Least(X[Child(p, b)].eff) ELSE AllOnes
<1>5. v \in StoredWord
  <2>1. ASSUME Inner(p) PROVE Least(X[Child(p, b)].eff) \in StoredWord
    <3>1. X[Child(p, b)].eff \in Node
      BY <1>2, <1>3, <2>1, CellTyped, ChildPosition
    <3>. QED
      BY <3>1, MinDataPort, NodeType DEF Least
  <2>. QED
    BY <2>1, RankRange
<1>6. CASE n.size[b] = 0
  <2>1. c = RestCell(m)
    BY <1>1, <1>6 DEF Refilled
  <2>. QED
    BY <1>0, <1>2, <1>3, <1>4, <1>6, <2>1, RankRange DEF RestCell, CellType, Slot
<1>7. CASE n.size[b] # 0
  <2> DEFINE f == Refilled(X, p)
  <2>1. f = [m EXCEPT !.val[b] = v]
    BY <1>7 DEF Refilled
  <2>2. m.size \in [Slot -> 0 .. 2 ^ CTW - 1] /\ m.val \in [Slot -> StoredWord]
    BY <1>2 DEF Node
  <2>3. f.size = m.size /\ f.val = [m.val EXCEPT ![b] = v]
    BY <1>2, <2>1 DEF Node
  <2>4. f \in Node
    BY <1>2, <1>3, <1>5, <2>1, <2>2 DEF Node
  <2>5. f.size[b] = m.size[b] /\ f.val[b] = v
        /\ \A e \in Slot : e # b => f.size[e] = m.size[e] /\ f.val[e] = m.val[e]
    BY <1>3, <2>2, <2>3
  <2>6. c.eff = f /\ c.seen = f /\ c.mode = "NONE" /\ c.word = AllOnes
    BY <1>1 DEF RestCell
  <2>7. c \in CellType
    BY <1>1, <2>4, RankRange DEF RestCell, CellType, Slot
  <2> HIDE DEF f, m
  <2>. QED
    BY <1>0, <1>2, <1>3, <1>4, <1>7, <2>4, <2>5, <2>6, <2>7 DEF m
<1>. QED
  BY <1>6, <1>7

-----------------------------------------------------------------------------
(* Sizes.  A step keeps the types, and counts the words of a node.         *)
\* The four things that can happen at a node.
LEMMA StepTyped ==
  ASSUME NEW X, NEW cmd, CanStep(X, cmd), NEW Y, Y = NextTree(X, cmd), NEW p \in Position
  PROVE  Y[p] = NextCell(X, cmd, p) /\ Y[p] \in CellType /\ Y \in [Position -> CellType]
<1>1. \A q \in Position : NextCell(X, cmd, q) \in CellType
  <2> SUFFICES ASSUME NEW q \in Position PROVE NextCell(X, cmd, q) \in CellType
    OBVIOUS
  <2>1. Given(X, cmd, q) \in {"NONE", "PUSH", "POP"}
    BY GivenFacts
  <2>2. CASE Given(X, cmd, q) = "PUSH"
    BY <2>2, PushArrives
  <2>3. CASE Given(X, cmd, q) = "POP"
    BY <2>3, PopArrives
  <2>4. CASE Given(X, cmd, q) = "NONE" /\ X[q].mode # "POP"
    BY <2>4, NothingArrives
  <2>5. CASE X[q].mode = "POP"
    BY <2>5, PopEnds
  <2>. QED
    BY <2>1, <2>2, <2>3, <2>4, <2>5
<1>. QED
  BY <1>1 DEF NextTree

\* A node at rest shows a least word just when it holds any.
LEMMA LeastFilled ==
  ASSUME NEW X \in [Position -> CellType], NEW p \in Position, CellOK(X, p), X[p].mode # "POP",
         NEW n, n = X[p].eff, NEW b, b = min_data_port(n)
  PROVE  /\ n \in Node /\ b \in Slot
         /\ Filled(n, b) <=> n.size[b] # 0
         /\ n.size[b] # 0 <=> Sz(n) # 0
         /\ ~Filled(n, b) => n.val[b] = AllOnes
<1>1. n \in Node /\ b \in Slot /\ \A e \in Slot : Rank(n.val[b]) <= Rank(n.val[e])
  BY CellTyped, MinDataPort
<1>2. \A e \in Slot : (Filled(n, e) <=> n.size[e] # 0) /\ (~Filled(n, e) => n.val[e] = AllOnes)
  BY DEF CellOK
<1>3. \A e \in Slot : n.size[e] \in Nat /\ Rank(n.val[e]) \in 0 .. RankOnes
  BY <1>1, NodeType
<1>4. RankOnes \in Nat
  BY RankRange
<1>5. ASSUME ~Filled(n, b) PROVE \A e \in Slot : ~Filled(n, e)
  BY <1>1, <1>3, <1>4, <1>5 DEF Filled
<1>6. n.size[b] = 0 => n.size[0] = 0 /\ n.size[1] = 0
  BY <1>1, <1>2, <1>5 DEF Slot
<1>7. n.size[b] # 0 => n.size[0] + n.size[1] # 0
  BY <1>1, <1>3 DEF Slot
<1>8. Sz(n) = n.size[0] + n.size[1]
  BY DEF Sz
<1>. QED
  BY <1>1, <1>2, <1>6, <1>7, <1>8

\* What a step does to the sizes of a node.
Plus(X, cmd, p) == IF Given(X, cmd, p) = "PUSH" THEN 1 ELSE 0
Minus(X, cmd, p) == IF Given(X, cmd, p) = "POP" /\ Sz(X[p].eff) # 0 THEN 1 ELSE 0

\* The words a node counts, in a step.
LEMMA SzStep ==
  ASSUME NEW X, NEW cmd, CanStep(X, cmd), NEW Y, Y = NextTree(X, cmd), NEW p \in Position
  PROVE  /\ Sz(Y[p].eff) = Sz(X[p].eff) + Plus(X, cmd, p) - Minus(X, cmd, p)
         /\ Sz(X[p].eff) \in Nat /\ Sz(Y[p].eff) \in Nat
<1>1. X \in [Position -> CellType] /\ CellOK(X, p)
  BY DEF CanStep, TreeOK
<1>2. Y[p] = NextCell(X, cmd, p) /\ Y \in [Position -> CellType]
  BY StepTyped
<1>3. X[p].eff \in Node /\ Y[p].eff \in Node
  BY <1>1, <1>2, CellTyped
<1>4. /\ X[p].eff.size[0] \in Nat /\ X[p].eff.size[1] \in Nat /\ Sz(X[p].eff) \in Nat
      /\ Y[p].eff.size[0] \in Nat /\ Y[p].eff.size[1] \in Nat /\ Sz(Y[p].eff) \in Nat
  BY <1>3, NodeType DEF Slot
<1>5. Sz(X[p].eff) = X[p].eff.size[0] + X[p].eff.size[1] /\ Sz(Y[p].eff) = Y[p].eff.size[0] + Y[p].eff.size[1]
  BY DEF Sz
<1>6. Given(X, cmd, p) \in {"NONE", "PUSH", "POP"}
  BY GivenFacts
<1>7. CASE Given(X, cmd, p) = "PUSH"
  <2> DEFINE b == min_sub_tree(X[p].eff)
  <2>1. b \in Slot /\ Y[p].eff.size[b] = X[p].eff.size[b] + 1
        /\ \A e \in Slot : e # b => Y[p].eff.size[e] = X[p].eff.size[e]
    BY <1>2, <1>7, PushArrives
  <2>2. Plus(X, cmd, p) = 1 /\ Minus(X, cmd, p) = 0
    BY <1>7 DEF Plus, Minus
  <2> HIDE DEF b
  <2>. QED
    BY <1>4, <1>5, <2>1, <2>2 DEF Slot
<1>8. CASE Given(X, cmd, p) = "POP"
  <2> DEFINE b == min_data_port(X[p].eff)
  <2>1. /\ b \in Slot
        /\ X[p].eff.size[b] = 0 => Y[p].eff = X[p].eff
        /\ X[p].eff.size[b] # 0 => Y[p].eff.size[b] = X[p].eff.size[b] - 1
        /\ \A e \in Slot : e # b => Y[p].eff.size[e] = X[p].eff.size[e]
        /\ X[p].mode # "POP"
    BY <1>2, <1>8, PopArrives
  <2>2. X[p].eff.size[b] # 0 <=> Sz(X[p].eff) # 0
    BY <1>1, <2>1, LeastFilled
  <2>3. Plus(X, cmd, p) = 0 /\ Minus(X, cmd, p) = IF X[p].eff.size[b] # 0 THEN 1 ELSE 0
    BY <1>8, <2>2 DEF Plus, Minus
  <2> HIDE DEF b
  <2>4. CASE X[p].eff.size[b] = 0
    BY <1>4, <2>1, <2>3, <2>4
  <2>5. CASE X[p].eff.size[b] # 0
    BY <1>4, <1>5, <2>1, <2>3, <2>5 DEF Slot
  <2>. QED
    BY <2>4, <2>5
<1>9. CASE Given(X, cmd, p) = "NONE"
  <2>1. Plus(X, cmd, p) = 0 /\ Minus(X, cmd, p) = 0
    BY <1>9 DEF Plus, Minus
  <2>2. Y[p].eff.size[0] = X[p].eff.size[0] /\ Y[p].eff.size[1] = X[p].eff.size[1]
    <3>1. CASE X[p].mode # "POP"
      BY <1>2, <1>9, <3>1, NothingArrives
    <3>2. CASE X[p].mode = "POP"
      <4> DEFINE b == X[p].slot
                 n == X[p].seen
      <4>1. /\ b \in Slot
            /\ n.size[b] = 0 => X[p].eff = n /\ Y[p].eff = n
            /\ n.size[b] # 0 => Y[p].eff.size[b] = X[p].eff.size[b]
            /\ \A e \in Slot : e # b => X[p].eff.size[e] = n.size[e] /\ Y[p].eff.size[e] = n.size[e]
        BY <1>2, <3>2, PopEnds
      <4> HIDE DEF b, n
      <4>. QED
        BY <4>1 DEF Slot
    <3>. QED
      BY <3>1, <3>2
  <2>. QED
    BY <1>4, <1>5, <2>1, <2>2
<1>. QED
  BY <1>4, <1>6, <1>7, <1>8, <1>9

-----------------------------------------------------------------------------
(* Sizes.  A slot counts the words below it.                               *)
\* The words below slot b of an inner node, in a step.
Handed(X, p, b) == IF X[p].mode = "PUSH" /\ X[p].slot = b THEN 1 ELSE 0
Raised(X, p, b) ==
  IF X[p].mode = "POP" /\ X[p].slot = b /\ Sz(X[Child(p, b)].eff) # 0 THEN 1 ELSE 0

\* What is below a slot grows by what is handed down, and shrinks by what is
\* raised.
LEMMA BelowStep ==
  ASSUME NEW X, NEW cmd, CanStep(X, cmd), NEW Y, Y = NextTree(X, cmd),
         NEW p \in Position, Inner(p), NEW b \in Slot
  PROVE  /\ SizeBelow(X, p, b) \in Nat /\ SizeBelow(Y, p, b) \in Nat
         /\ SizeBelow(X, p, b) = Sz(X[Child(p, b)].eff) + Handed(X, p, b)
         /\ SizeBelow(Y, p, b) = SizeBelow(X, p, b) + Handed(Y, p, b) - Raised(X, p, b)
<1> DEFINE q == Child(p, b)
<1>1. q \in Position
  BY ChildPosition
<1>2. /\ Sz(Y[q].eff) = Sz(X[q].eff) + Plus(X, cmd, q) - Minus(X, cmd, q)
      /\ Sz(X[q].eff) \in Nat /\ Sz(Y[q].eff) \in Nat
  BY <1>1, SzStep
<1>3. Plus(X, cmd, q) = Handed(X, p, b) /\ Minus(X, cmd, q) = Raised(X, p, b)
  BY GivenChild DEF Plus, Minus, Handed, Raised
<1>4. \A Z : SizeBelow(Z, p, b) = Sz(Z[q].eff) + Handed(Z, p, b)
  BY DEF SizeBelow, Sz, Handed
<1>5. \A Z : Handed(Z, p, b) \in {0, 1}
  BY DEF Handed
<1>6. Raised(X, p, b) \in {0, 1}
  BY DEF Raised
<1> HIDE DEF q
<1>7. SizeBelow(X, p, b) = Sz(X[q].eff) + Handed(X, p, b) /\ SizeBelow(Y, p, b) = Sz(Y[q].eff) + Handed(Y, p, b)
  BY <1>4
<1>8. Handed(X, p, b) \in {0, 1} /\ Handed(Y, p, b) \in {0, 1}
  BY <1>5
<1>9. SizeBelow(Y, p, b) = SizeBelow(X, p, b) + Handed(Y, p, b) - Raised(X, p, b)
  BY <1>2, <1>3, <1>6, <1>7, <1>8
<1>. QED
  BY <1>2, <1>7, <1>8, <1>9 DEF q

\* The node that a pop under way reads from below is at rest.
LEMMA RaisedFrom ==
  ASSUME NEW X, NEW cmd, CanStep(X, cmd), NEW p \in Position, Inner(p), X[p].mode = "POP",
         NEW b, b = X[p].slot, NEW q, q = Child(p, b)
  PROVE  /\ b \in Slot /\ q \in Position /\ Given(X, cmd, q) = "POP" /\ X[q].mode # "POP" /\ X[q].seen = X[q].eff
         /\ X[q].eff \in Node
         /\ Least(X[q].eff) \in StoredWord
         /\ Rank(Least(X[q].eff)) # RankOnes <=> Sz(X[q].eff) # 0
         /\ Rank(Least(X[q].eff)) = RankOnes => Least(X[q].eff) = AllOnes
         /\ \A e \in Slot : Rank(Least(X[q].eff)) <= Rank(X[q].eff.val[e])
         /\ \E e \in Slot : Least(X[q].eff) = X[q].eff.val[e]
<1>1. X \in [Position -> CellType]
  BY DEF CanStep
<1>2. b \in Slot
  BY <1>1, CellTyped
<1>3. q \in Position /\ Given(X, cmd, q) = "POP"
  BY <1>2, ChildPosition, GivenChild
<1>4. X[q].mode # "POP" /\ X[q].seen = X[q].eff
  BY <1>3, GivenFacts
<1>5. CellOK(X, q)
  BY <1>3 DEF CanStep, TreeOK
<1> DEFINE n == X[q].eff
           e == min_data_port(n)
<1>6. /\ n \in Node /\ e \in Slot
      /\ Filled(n, e) <=> n.size[e] # 0
      /\ n.size[e] # 0 <=> Sz(n) # 0
      /\ ~Filled(n, e) => n.val[e] = AllOnes
  BY <1>1, <1>3, <1>4, <1>5, LeastFilled
<1>7. Least(n) = n.val[e]
  BY DEF Least
<1>8. \A c \in Slot : Rank(n.val[e]) <= Rank(n.val[c])
  BY <1>6, MinDataPort
<1>9. n.val[e] \in StoredWord
  BY <1>6, NodeType
<1> HIDE DEF n, e
<1>. QED
  BY <1>2, <1>3, <1>4, <1>6, <1>7, <1>8, <1>9 DEF Filled, n

\* Sizes go on counting.
LEMMA SizesStep ==
  ASSUME NEW X, NEW cmd, CanStep(X, cmd), NEW Y, Y = NextTree(X, cmd),
         NEW p \in Position, NEW b \in Slot
  PROVE  /\ Y[p].eff.size[b] = Count(Y[p].eff, b) + SizeBelow(Y, p, b)
         /\ Y[p].eff.size[b] <= 2 ^ (LEVEL - p[1]) - 1
<1> DEFINE n == X[p].eff
           m == Y[p].eff
           k == 2 ^ (LEVEL - p[1])
<1>1. /\ X \in [Position -> CellType] /\ CellOK(X, p) /\ k \in Nat
      /\ n \in Node /\ n.size[b] \in Nat
      /\ n.size[b] = Count(n, b) + SizeBelow(X, p, b) /\ n.size[b] <= k - 1
      /\ Count(n, b) \in {0, 1}
  <2>1. X \in [Position -> CellType] /\ CellOK(X, p) /\ k \in Nat
    BY Capacity DEF CanStep, TreeOK
  <2>2. n \in Node
    BY <2>1, CellTyped
  <2>3. n.size[b] \in Nat
    BY <2>2, NodeType
  <2>. QED
    BY <2>1, <2>2, <2>3 DEF CellOK, Count
<1>2. Y[p] = NextCell(X, cmd, p)
  BY StepTyped
<1>3. Given(X, cmd, p) \in {"NONE", "PUSH", "POP"}
  BY GivenFacts
<1>4. ASSUME Inner(p)
      PROVE  /\ SizeBelow(X, p, b) \in Nat
             /\ SizeBelow(Y, p, b) = SizeBelow(X, p, b) + Handed(Y, p, b) - Raised(X, p, b)
  BY <1>4, BelowStep
<1>5. ASSUME ~Inner(p) PROVE SizeBelow(X, p, b) = 0 /\ SizeBelow(Y, p, b) = 0
  BY <1>5 DEF SizeBelow
<1>6. Handed(Y, p, b) \in {0, 1} /\ Raised(X, p, b) \in {0, 1} /\ SizeBelow(X, p, b) \in Nat
  BY <1>4, <1>5 DEF Handed, Raised
<1>7. CASE Given(X, cmd, p) = "PUSH"
  <2> DEFINE c == min_sub_tree(n)
             d == GivenWord(X, cmd, p)
  <2>1. /\ c \in Slot /\ Rank(d) # RankOnes /\ X[p].mode # "POP" /\ Y[p].slot = c
        /\ Y[p].mode = IF Filled(n, c) /\ Inner(p) THEN "PUSH" ELSE "NONE"
        /\ m.size[c] = n.size[c] + 1 /\ n.size[c] + 1 <= k - 1
        /\ m.val[c] = IF Yields(n.val[c], d) THEN d ELSE n.val[c]
        /\ \A e \in Slot : e # c => m.size[e] = n.size[e] /\ m.val[e] = n.val[e]
        /\ ~Inner(p) => ~Filled(n, c)
    BY <1>2, <1>7, PushArrives
  <2>2. Raised(X, p, b) = 0
    BY <2>1 DEF Raised
  <2> HIDE DEF c, d, n, m, k
  <2>3. CASE b = c
    <3>1. Count(m, b) = 1
      BY <2>1, <2>3 DEF Count, Filled, Yields
    <3>2. Inner(p) => Handed(Y, p, b) = Count(n, b)
      BY <2>1, <2>3 DEF Handed, Count
    <3>3. ~Inner(p) => Count(n, b) = 0
      BY <2>1, <2>3 DEF Count
    <3>4. m.size[b] = n.size[b] + 1 /\ n.size[b] + 1 <= k - 1
      BY <2>1, <2>3
    <3>. QED
      BY <1>1, <1>4, <1>5, <1>6, <2>2, <3>1, <3>2, <3>3, <3>4 DEF m, k
  <2>4. CASE b # c
    <3>1. Count(m, b) = Count(n, b) /\ m.size[b] = n.size[b]
      BY <2>1, <2>4 DEF Count, Filled
    <3>2. Handed(Y, p, b) = 0
      BY <2>1, <2>4 DEF Handed
    <3>. QED
      BY <1>1, <1>4, <1>5, <1>6, <2>2, <3>1, <3>2 DEF m, k
  <2>. QED
    BY <2>3, <2>4
<1>8. CASE Given(X, cmd, p) = "POP"
  <2> DEFINE c == min_data_port(n)
  <2>1. /\ c \in Slot /\ X[p].mode # "POP" /\ Y[p].mode = "POP"
        /\ n.size[c] = 0 => m = n
        /\ n.size[c] # 0 => m.size[c] = n.size[c] - 1 /\ m.val[c] = AllOnes
        /\ \A e \in Slot : e # c => m.size[e] = n.size[e] /\ m.val[e] = n.val[e]
    BY <1>2, <1>8, PopArrives
  <2>2. Raised(X, p, b) = 0 /\ Handed(Y, p, b) = 0
    BY <2>1 DEF Raised, Handed
  <2>3. Filled(n, c) <=> n.size[c] # 0
    BY <1>1, <2>1, LeastFilled
  <2> HIDE DEF c, n, m, k
  <2>4. CASE b = c /\ n.size[c] # 0
    <3>1. Count(n, b) = 1 /\ Count(m, b) = 0
      BY <2>1, <2>3, <2>4, RankRange DEF Count, Filled
    <3>2. m.size[b] = n.size[b] - 1
      BY <2>1, <2>4
    <3>. QED
      BY <1>1, <1>4, <1>5, <1>6, <2>2, <3>1, <3>2 DEF m, k
  <2>5. CASE b # c \/ n.size[c] = 0
    <3>1. Count(m, b) = Count(n, b) /\ m.size[b] = n.size[b]
      BY <2>1, <2>5 DEF Count, Filled
    <3>. QED
      BY <1>1, <1>4, <1>5, <1>6, <2>2, <3>1 DEF m, k
  <2>. QED
    BY <2>4, <2>5
<1>9. CASE Given(X, cmd, p) = "NONE" /\ X[p].mode # "POP"
  <2>1. m = n /\ Y[p].mode = "NONE"
    BY <1>2, <1>9, NothingArrives
  <2>2. Raised(X, p, b) = 0 /\ Handed(Y, p, b) = 0
    BY <1>9, <2>1 DEF Raised, Handed
  <2> HIDE DEF n, m, k
  <2>. QED
    BY <1>1, <1>4, <1>5, <1>6, <2>1, <2>2 DEF m, k
<1>10. CASE X[p].mode = "POP"
  <2> DEFINE s == X[p].seen
             c == X[p].slot
  <2>1. /\ c \in Slot /\ Y[p].mode = "NONE"
        /\ s.size[c] = 0 => n = s /\ m = s
        /\ s.size[c] # 0 => /\ n.val[c] = AllOnes /\ m.size[c] = n.size[c]
                            /\ m.val[c] = IF Inner(p) THEN Least(X[Child(p, c)].eff) ELSE AllOnes
        /\ \A e \in Slot : e # c => /\ n.size[e] = s.size[e] /\ n.val[e] = s.val[e]
                                    /\ m.size[e] = s.size[e] /\ m.val[e] = s.val[e]
    BY <1>2, <1>10, PopEnds
  <2>2. Handed(Y, p, b) = 0
    BY <2>1 DEF Handed
  <2>3. Handed(X, p, b) = 0
    BY <1>10 DEF Handed
  <2>4. CASE b # c
    <3>1. Count(m, b) = Count(n, b) /\ m.size[b] = n.size[b]
      BY <2>1, <2>4 DEF Count, Filled
    <3>2. Raised(X, p, b) = 0
      BY <2>4 DEF Raised
    <3> HIDE DEF n, m, k
    <3>. QED
      BY <1>1, <1>4, <1>5, <1>6, <2>2, <3>1, <3>2 DEF m, k
  <2>5. CASE b = c /\ s.size[c] = 0
    <3>1. m = n /\ n.size[b] = 0
      BY <2>1, <2>5
    <3>2. Inner(p) => SizeBelow(X, p, b) = Sz(X[Child(p, b)].eff) + Handed(X, p, b)
      BY BelowStep
    <3>3. Inner(p) => Sz(X[Child(p, b)].eff) \in Nat
      BY ChildPosition, SzStep
    <3> HIDE DEF n, m, k
    <3>4. Inner(p) => Sz(X[Child(p, b)].eff) = 0
      BY <1>1, <1>6, <2>3, <3>1, <3>2, <3>3
    <3>5. Inner(p) => Raised(X, p, b) = 0
      BY <3>4 DEF Raised
    <3>. QED
      BY <1>1, <1>4, <1>5, <1>6, <2>2, <3>1, <3>5 DEF m, k
  <2>6. CASE b = c /\ s.size[c] # 0
    <3>1. Count(n, b) = 0 /\ m.size[b] = n.size[b]
      BY <2>1, <2>6, RankRange DEF Count, Filled
    <3>2. Inner(p) => Count(m, b) = Raised(X, p, b)
      <4>1. SUFFICES ASSUME Inner(p) PROVE Count(m, b) = Raised(X, p, b)
        OBVIOUS
      <4>2. m.val[b] = Least(X[Child(p, b)].eff)
        BY <2>1, <2>6, <4>1
      <4>3. Rank(Least(X[Child(p, b)].eff)) # RankOnes <=> Sz(X[Child(p, b)].eff) # 0
        BY <1>10, <2>6, <4>1, RaisedFrom
      <4>. QED
        BY <1>10, <2>6, <4>2, <4>3 DEF Count, Filled, Raised
    <3>3. ~Inner(p) => Count(m, b) = 0
      BY <2>1, <2>6, RankRange DEF Count, Filled
    <3> HIDE DEF n, m, k
    <3>. QED
      BY <1>1, <1>4, <1>5, <1>6, <2>2, <3>1, <3>2, <3>3 DEF m, k
  <2>. QED
    BY <2>4, <2>5, <2>6
<1>. QED
  BY <1>3, <1>7, <1>8, <1>9, <1>10

-----------------------------------------------------------------------------
(* Order.  The word in a slot is the smallest of those below it.           *)
\* Only a push changes a word to one of a smaller rank, ...
LEMMA SeenNotLower ==
  ASSUME NEW X, NEW cmd, CanStep(X, cmd), NEW Y, Y = NextTree(X, cmd),
         NEW p \in Position, NEW b \in Slot
  PROVE  \/ Rank(X[p].seen.val[b]) <= Rank(Y[p].seen.val[b])
         \/ Given(X, cmd, p) = "PUSH" /\ Y[p].seen.val[b] = GivenWord(X, cmd, p)
<1>1. X \in [Position -> CellType] /\ CellOK(X, p) /\ X[p].seen \in Node
  BY CellTyped DEF CanStep, TreeOK
<1>2. Y[p] = NextCell(X, cmd, p)
  BY StepTyped
<1>3. Given(X, cmd, p) \in {"NONE", "PUSH", "POP"}
  BY GivenFacts
<1>4. Rank(X[p].seen.val[b]) \in 0 .. RankOnes /\ RankOnes \in Nat /\ Rank(AllOnes) = RankOnes
  BY <1>1, NodeType, RankRange
<1>5. CASE Given(X, cmd, p) = "PUSH"
  <2>1. Y[p].seen.val[b] = X[p].seen.val[b] \/ Y[p].seen.val[b] = GivenWord(X, cmd, p)
    BY <1>2, <1>5, PushArrives
  <2>. QED
    BY <1>4, <1>5, <2>1
<1>6. CASE Given(X, cmd, p) = "POP"
  <2>1. Y[p].seen = X[p].seen
    BY <1>2, <1>6, PopArrives
  <2>. QED
    BY <1>4, <2>1
<1>7. CASE Given(X, cmd, p) = "NONE" /\ X[p].mode # "POP"
  <2>1. Y[p].seen = X[p].seen
    BY <1>2, <1>7, NothingArrives
  <2>. QED
    BY <1>4, <2>1
<1>8. CASE X[p].mode = "POP"
  <2> DEFINE s == X[p].seen
             c == X[p].slot
  <2>1. /\ c \in Slot /\ Y[p].seen = Y[p].eff
        /\ s.size[c] = 0 => Y[p].eff = s
        /\ s.size[c] # 0 => Y[p].eff.val[c] = IF Inner(p) THEN Least(X[Child(p, c)].eff) ELSE AllOnes
        /\ \A e \in Slot : e # c => Y[p].eff.val[e] = s.val[e]
    BY <1>2, <1>8, PopEnds
  <2>2. CASE b # c \/ s.size[c] = 0
    BY <1>4, <2>1, <2>2
  <2>3. CASE b = c /\ s.size[c] # 0 /\ ~Inner(p)
    BY <1>4, <2>1, <2>3
  <2>4. CASE b = c /\ s.size[c] # 0 /\ Inner(p)
    <3> DEFINE q == Child(p, c)
    <3>1. X[q].seen = X[q].eff /\ \E e \in Slot : Least(X[q].eff) = X[q].eff.val[e]
      BY <1>8, <2>4, RaisedFrom
    <3>2. \A e \in Slot : Rank(s.val[c]) <= Rank(X[q].seen.val[e])
      BY <1>1, <2>1, <2>4 DEF CellOK
    <3>. QED
      BY <2>1, <2>4, <3>1, <3>2
  <2>. QED
    BY <2>2, <2>3, <2>4
<1>. QED
  BY <1>3, <1>5, <1>6, <1>7, <1>8

\* ... and only the end of a pop to one of a larger rank.
LEMMA SeenNotHigher ==
  ASSUME NEW X, NEW cmd, CanStep(X, cmd), NEW Y, Y = NextTree(X, cmd),
         NEW p \in Position, Inner(p), NEW b \in Slot
  PROVE  \/ Rank(Y[p].seen.val[b]) <= Rank(X[p].seen.val[b])
         \/ X[p].mode = "POP" /\ X[p].slot = b /\ Y[p].seen.val[b] = Least(X[Child(p, b)].eff)
<1>1. X \in [Position -> CellType] /\ CellOK(X, p) /\ X[p].seen \in Node
  BY CellTyped DEF CanStep, TreeOK
<1>2. Y[p] = NextCell(X, cmd, p)
  BY StepTyped
<1>3. Given(X, cmd, p) \in {"NONE", "PUSH", "POP"}
  BY GivenFacts
<1>4. Rank(X[p].seen.val[b]) \in 0 .. RankOnes /\ RankOnes \in Nat
  BY <1>1, NodeType, RankRange
<1>5. CASE Given(X, cmd, p) = "PUSH"
  <2> DEFINE c == min_sub_tree(X[p].eff)
             d == GivenWord(X, cmd, p)
             n == X[p].seen
  <2>1. /\ c \in Slot /\ d \in StoredWord /\ n = X[p].eff /\ Y[p].seen = Y[p].eff
        /\ Y[p].eff.val[c] = IF Yields(n.val[c], d) THEN d ELSE n.val[c]
        /\ \A e \in Slot : e # c => Y[p].eff.val[e] = n.val[e]
    BY <1>2, <1>5, PushArrives
  <2>2. Rank(d) \in 0 .. RankOnes
    BY <2>1, RankRange
  <2>3. Y[p].seen.val[b] = n.val[b] \/ (Yields(n.val[b], d) /\ Y[p].seen.val[b] = d)
    BY <2>1
  <2>4. Yields(n.val[b], d) => Rank(d) <= Rank(n.val[b])
    BY <1>4, <2>2 DEF Yields
  <2> HIDE DEF d, n
  <2>. QED
    BY <1>4, <2>3, <2>4 DEF n
<1>6. CASE Given(X, cmd, p) = "POP"
  <2>1. Y[p].seen = X[p].seen
    BY <1>2, <1>6, PopArrives
  <2>. QED
    BY <1>4, <2>1
<1>7. CASE Given(X, cmd, p) = "NONE" /\ X[p].mode # "POP"
  <2>1. Y[p].seen = X[p].seen
    BY <1>2, <1>7, NothingArrives
  <2>. QED
    BY <1>4, <2>1
<1>8. CASE X[p].mode = "POP"
  <2> DEFINE s == X[p].seen
             c == X[p].slot
  <2>1. /\ c \in Slot /\ Y[p].seen = Y[p].eff
        /\ s.size[c] = 0 => Y[p].eff = s
        /\ s.size[c] # 0 => Y[p].eff.val[c] = IF Inner(p) THEN Least(X[Child(p, c)].eff) ELSE AllOnes
        /\ \A e \in Slot : e # c => Y[p].eff.val[e] = s.val[e]
    BY <1>2, <1>8, PopEnds
  <2>2. CASE b # c \/ s.size[c] = 0
    BY <1>4, <2>1, <2>2
  <2>3. CASE b = c /\ s.size[c] # 0
    BY <1>8, <2>1, <2>3
  <2>. QED
    BY <2>2, <2>3
<1>. QED
  BY <1>3, <1>5, <1>6, <1>7, <1>8

\* No word below a slot becomes smaller than the one in it.
LEMMA OrderStep ==
  ASSUME NEW X, NEW cmd, CanStep(X, cmd), NEW Y, Y = NextTree(X, cmd),
         NEW p \in Position, Inner(p), NEW b \in Slot, NEW e \in Slot
  PROVE  Rank(Y[p].seen.val[b]) <= Rank(Y[Child(p, b)].seen.val[e])
<1> DEFINE q == Child(p, b)
           u == Y[p].seen.val[b]
           v == Y[q].seen.val[e]
           x == X[p].seen.val[b]
           y == X[q].seen.val[e]
<1>1. q \in Position /\ Given(X, cmd, q) = (IF X[p].slot = b THEN X[p].mode ELSE "NONE")
      /\ GivenWord(X, cmd, q) = X[p].word
  BY ChildPosition, GivenChild
<1>2. CellOK(X, p) /\ X \in [Position -> CellType] /\ Y \in [Position -> CellType]
  BY StepTyped DEF CanStep, TreeOK
<1>3. Rank(u) \in 0 .. RankOnes /\ Rank(v) \in 0 .. RankOnes /\ Rank(x) \in 0 .. RankOnes
      /\ Rank(y) \in 0 .. RankOnes /\ RankOnes \in Nat
  BY <1>1, <1>2, CellTyped, NodeType, RankRange
<1>4. Rank(x) <= Rank(y)
  BY <1>1, <1>2 DEF CellOK
<1>5. CASE X[p].mode = "POP" /\ X[p].slot = b
  <2>1. Given(X, cmd, q) = "POP"
    BY <1>1, <1>5
  <2>2. Y[q].seen = X[q].eff
    BY <1>1, <2>1, StepTyped, PopArrives
  <2>3. \A c \in Slot : Rank(Least(X[q].eff)) <= Rank(X[q].eff.val[c])
    BY <1>5, RaisedFrom
  <2>4. X[q].seen = X[q].eff
    BY <1>5, RaisedFrom
  <2>5. Rank(u) <= Rank(x) \/ u = Least(X[q].eff)
    BY SeenNotHigher
  <2>6. v = y
    BY <2>2, <2>4
  <2>7. Rank(Least(X[q].eff)) <= Rank(v)
    BY <2>2, <2>3
  <2> HIDE DEF q, u, v, x, y
  <2>8. CASE u = Least(X[q].eff)
    BY <2>7, <2>8 DEF u, v, q
  <2>9. CASE Rank(u) <= Rank(x)
    <3>1. Rank(u) <= Rank(v)
      BY <1>3, <1>4, <2>6, <2>9
    <3>. QED
      BY <3>1 DEF u, v, q
  <2>. QED
    BY <2>5, <2>8, <2>9
<1>6. CASE ~(X[p].mode = "POP" /\ X[p].slot = b)
  <2>1. Rank(u) <= Rank(x)
    BY <1>6, SeenNotHigher
  <2>2. Rank(y) <= Rank(v) \/ (Given(X, cmd, q) = "PUSH" /\ v = GivenWord(X, cmd, q))
    BY <1>1, SeenNotLower
  <2>3. CASE Rank(y) <= Rank(v)
    <3> HIDE DEF q, u, v, x, y
    <3>1. Rank(u) <= Rank(v)
      BY <1>3, <1>4, <2>1, <2>3
    <3>. QED
      BY <3>1 DEF u, v, q
  <2>4. CASE Given(X, cmd, q) = "PUSH" /\ v = GivenWord(X, cmd, q)
    <3>1. X[p].mode = "PUSH" /\ X[p].slot = b /\ v = X[p].word
      BY <1>1, <2>4
    <3>2. Rank(X[p].eff.val[X[p].slot]) <= Rank(X[p].word) /\ X[p].seen = X[p].eff
      BY <1>2, <3>1 DEF CellOK
    <3>3. Rank(x) <= Rank(v)
      BY <3>1, <3>2
    <3> HIDE DEF q, u, v, x, y
    <3>4. Rank(u) <= Rank(v)
      BY <1>3, <2>1, <3>3
    <3>. QED
      BY <3>4 DEF u, v, q
  <2>. QED
    BY <2>2, <2>3, <2>4
<1>. QED
  BY <1>5, <1>6

\* The form of a cell after a step.
LEMMA FormStep ==
  ASSUME NEW X, NEW cmd, CanStep(X, cmd), NEW Y, Y = NextTree(X, cmd),
         NEW p \in Position, NEW c, c = Y[p]
  PROVE  /\ c.mode # "POP" => c.seen = c.eff
         /\ c.mode = "POP" => c.slot = min_data_port(c.seen) /\ c.eff = AfterPop(c.seen)
         /\ c.mode = "PUSH" => /\ Inner(p) /\ Filled(c.eff, c.slot) /\ Rank(c.word) # RankOnes
                               /\ Rank(c.eff.val[c.slot]) <= Rank(c.word)
         /\ c.mode # "PUSH" => c.word = AllOnes
         /\ \A b \in Slot : /\ Filled(c.seen, b) <=> c.seen.size[b] # 0
                            /\ ~Filled(c.seen, b) => c.seen.val[b] = AllOnes
<1> DEFINE n == X[p].eff
<1>1. X \in [Position -> CellType] /\ CellOK(X, p) /\ X[p].seen \in Node
  BY CellTyped DEF CanStep, TreeOK
<1>2. c = NextCell(X, cmd, p)
  BY StepTyped
<1>3. Given(X, cmd, p) \in {"NONE", "PUSH", "POP"}
  BY GivenFacts
<1>4. RankOnes \in Nat /\ Rank(AllOnes) = RankOnes
  BY RankRange
<1>5. \A b \in Slot : /\ Filled(X[p].seen, b) <=> X[p].seen.size[b] # 0
                      /\ ~Filled(X[p].seen, b) => X[p].seen.val[b] = AllOnes
  BY <1>1 DEF CellOK
<1>6. CASE Given(X, cmd, p) = "PUSH"
  <2> DEFINE b == min_sub_tree(n)
             d == GivenWord(X, cmd, p)
  <2>1. /\ n \in Node /\ b \in Slot /\ d \in StoredWord /\ Rank(d) # RankOnes
        /\ X[p].seen = n
        /\ c.eff \in Node /\ c.seen = c.eff /\ c.slot = b
        /\ c.mode = IF Filled(n, b) /\ Inner(p) THEN "PUSH" ELSE "NONE"
        /\ c.word = IF Filled(n, b) /\ Inner(p) THEN (IF Yields(n.val[b], d) THEN n.val[b] ELSE d) ELSE AllOnes
        /\ c.eff.size[b] = n.size[b] + 1
        /\ c.eff.val[b] = IF Yields(n.val[b], d) THEN d ELSE n.val[b]
        /\ \A e \in Slot : e # b => c.eff.size[e] = n.size[e] /\ c.eff.val[e] = n.val[e]
    BY <1>2, <1>6, PushArrives
  <2>2. Rank(n.val[b]) \in Nat /\ Rank(d) \in Nat /\ n.size[b] \in Nat
    BY <1>4, <2>1, NodeType, RankRange
  <2>3. Filled(c.eff, b) /\ c.eff.size[b] # 0
    BY <2>1, <2>2 DEF Filled, Yields
  <2>4. \A e \in Slot : /\ Filled(c.seen, e) <=> c.seen.size[e] # 0
                        /\ ~Filled(c.seen, e) => c.seen.val[e] = AllOnes
    BY <1>5, <2>1, <2>3 DEF Filled
  <2>5. c.mode = "PUSH" => /\ Inner(p) /\ Rank(c.word) # RankOnes
                           /\ Rank(c.eff.val[b]) <= Rank(c.word)
    BY <2>1, <2>2 DEF Filled, Yields
  <2>6. c.mode # "POP"
    BY <2>1
  <2>7. c.mode # "PUSH" => c.word = AllOnes
    BY <2>1
  <2> HIDE DEF n, b, d
  <2>. QED
    BY <2>1, <2>3, <2>4, <2>5, <2>6, <2>7
<1>7. CASE Given(X, cmd, p) = "POP"
  <2>1. /\ X[p].seen = n /\ c.seen = n /\ c.eff = AfterPop(n) /\ c.slot = min_data_port(n)
        /\ c.mode = "POP" /\ c.word = AllOnes
    BY <1>2, <1>7, PopArrives
  <2> HIDE DEF n
  <2>. QED
    BY <1>5, <2>1
<1>8. CASE Given(X, cmd, p) = "NONE" /\ X[p].mode # "POP"
  <2>1. X[p].seen = n /\ c.eff = n /\ c.seen = n /\ c.mode = "NONE" /\ c.word = AllOnes
    BY <1>2, <1>8, NothingArrives
  <2> HIDE DEF n
  <2>. QED
    BY <1>5, <2>1
<1>9. CASE X[p].mode = "POP"
  <2> DEFINE s == X[p].seen
             b == X[p].slot
  <2>1. /\ b \in Slot /\ c.seen = c.eff /\ c.mode = "NONE" /\ c.word = AllOnes
        /\ s.size[b] = 0 => c.eff = s
        /\ s.size[b] # 0 => /\ n.val[b] = AllOnes /\ c.eff.size[b] = n.size[b]
                            /\ c.eff.val[b] = IF Inner(p) THEN Least(X[Child(p, b)].eff) ELSE AllOnes
        /\ \A e \in Slot : e # b => c.eff.size[e] = s.size[e] /\ c.eff.val[e] = s.val[e]
    BY <1>2, <1>9, PopEnds
  <2>2. ASSUME s.size[b] # 0
        PROVE  /\ Filled(c.seen, b) <=> c.seen.size[b] # 0
               /\ ~Filled(c.seen, b) => c.seen.val[b] = AllOnes
    <3>1. Count(n, b) = 0
      BY <1>4, <2>1, <2>2 DEF Count, Filled
    <3>2. n.size[b] = 0 + SizeBelow(X, p, b)
      BY <1>1, <2>1, <3>1 DEF CellOK
    <3>3. CASE Inner(p)
      <4>1. SizeBelow(X, p, b) \in Nat /\ SizeBelow(X, p, b) = Sz(X[Child(p, b)].eff) + Handed(X, p, b)
        BY <2>1, <3>3, BelowStep
      <4>2. Handed(X, p, b) = 0
        BY <1>9 DEF Handed
      <4>3. Sz(X[Child(p, b)].eff) \in Nat
        BY <2>1, <3>3, ChildPosition, SzStep
      <4>4. c.eff.size[b] = Sz(X[Child(p, b)].eff)
        <5>1. c.eff.size[b] = n.size[b]
          BY <2>1, <2>2
        <5> HIDE DEF n
        <5>. QED
          BY <3>2, <4>1, <4>2, <4>3, <5>1
      <4>5. /\ Rank(Least(X[Child(p, b)].eff)) # RankOnes <=> Sz(X[Child(p, b)].eff) # 0
            /\ Rank(Least(X[Child(p, b)].eff)) = RankOnes => Least(X[Child(p, b)].eff) = AllOnes
        BY <1>9, <3>3, RaisedFrom
      <4>. QED
        BY <2>1, <2>2, <3>3, <4>4, <4>5 DEF Filled
    <3>4. CASE ~Inner(p)
      <4>1. SizeBelow(X, p, b) = 0
        BY <3>4 DEF SizeBelow
      <4>. QED
        BY <1>4, <2>1, <2>2, <3>2, <3>4, <4>1 DEF Filled
    <3>. QED
      BY <3>3, <3>4
  <2>3. \A e \in Slot : /\ Filled(c.seen, e) <=> c.seen.size[e] # 0
                        /\ ~Filled(c.seen, e) => c.seen.val[e] = AllOnes
    <3> SUFFICES ASSUME NEW e \in Slot
                 PROVE  /\ Filled(c.seen, e) <=> c.seen.size[e] # 0
                        /\ ~Filled(c.seen, e) => c.seen.val[e] = AllOnes
      OBVIOUS
    <3>1. CASE e = b /\ s.size[b] # 0
      BY <2>2, <3>1
    <3>2. CASE e # b \/ s.size[b] = 0
      BY <1>5, <2>1, <3>2 DEF Filled
    <3>. QED
      BY <3>1, <3>2
  <2>. QED
    BY <2>1, <2>3
<1>. QED
  BY <1>3, <1>6, <1>7, <1>8, <1>9

\* A step keeps a tree in order.
LEMMA TreeStep ==
  ASSUME NEW X, NEW cmd, CanStep(X, cmd), NEW Y, Y = NextTree(X, cmd)
  PROVE  Y \in [Position -> CellType] /\ TreeOK(Y)
<1>1. Y \in [Position -> CellType]
  BY Positions, StepTyped
<1>2. ASSUME NEW p \in Position PROVE CellOK(Y, p)
  <2>1. \A b \in Slot : Y[p].eff.size[b] = Count(Y[p].eff, b) + SizeBelow(Y, p, b)
                        /\ Y[p].eff.size[b] <= 2 ^ (LEVEL - p[1]) - 1
    BY SizesStep
  <2>2. Inner(p) => \A b \in Slot, e \in Slot : Rank(Y[p].seen.val[b]) <= Rank(Y[Child(p, b)].seen.val[e])
    BY OrderStep
  <2> DEFINE c == Y[p]
  <2>3. /\ c.mode # "POP" => c.seen = c.eff
        /\ c.mode = "POP" => c.slot = min_data_port(c.seen) /\ c.eff = AfterPop(c.seen)
        /\ c.mode = "PUSH" => /\ Inner(p) /\ Filled(c.eff, c.slot) /\ Rank(c.word) # RankOnes
                              /\ Rank(c.eff.val[c.slot]) <= Rank(c.word)
        /\ c.mode # "PUSH" => c.word = AllOnes
        /\ \A b \in Slot : /\ Filled(c.seen, b) <=> c.seen.size[b] # 0
                           /\ ~Filled(c.seen, b) => c.seen.val[b] = AllOnes
    BY FormStep
  <2>. QED
    BY <2>1, <2>2, <2>3 DEF CellOK
<1>. QED
  BY <1>1, <1>2 DEF TreeOK

-----------------------------------------------------------------------------
(* Words move.  Every word of a tree goes to one place in a step ...       *)
\* Where a word can stand: a slot of a node, the wires below the node, or
\* (3) the ports of the tree.
Stand == Position \X {0, 1, 2, 3}

\* The word at a place of the tree, and at a stand before and after a step: the
\* ports have the pushed word before it, the popped word after it.
WordAt(X, p, k) == IF k = 2 THEN X[p].word ELSE X[p].eff.val[k]
Before(X, cmd, x) ==
  IF x[2] = 3 THEN (IF x[1] = Root /\ cmd.op = "PUSH" THEN cmd.data ELSE AllOnes)
  ELSE WordAt(X, x[1], x[2])
After(X, cmd, x) ==
  IF x[2] = 3 THEN (IF x[1] = Root /\ cmd.op = "POP" THEN Least(X[Root].eff) ELSE AllOnes)
  ELSE WordAt(NextTree(X, cmd), x[1], x[2])

\* The slot of p that a push is about to take, and whether it takes it.
Takes(X, cmd, p, k) == /\ Given(X, cmd, p) = "PUSH" /\ k = min_sub_tree(X[p].eff)
                       /\ Yields(X[p].eff.val[k], GivenWord(X, cmd, p))

\* Where a push that reaches p leaves its word, where it comes from, and where
\* a popped word goes.
Landing(X, cmd, p) ==
  IF Takes(X, cmd, p, min_sub_tree(X[p].eff)) THEN <<p, min_sub_tree(X[p].eff)>> ELSE <<p, 2>>
Origin(p) == IF p = Root THEN <<Root, 3>> ELSE <<Parent(p), 2>>
Exit(p) == IF p = Root THEN <<Root, 3>> ELSE <<Parent(p), Side(p)>>

\* A pop takes the word out of slot k of p; a WB fetches one into it.
Leaves(X, cmd, p, k) == Given(X, cmd, p) = "POP" /\ k = min_data_port(X[p].eff)
Fetches(X, p, k) == X[p].mode = "POP" /\ k = X[p].slot /\ X[p].seen.size[k] # 0 /\ Inner(p)

\* Where a word goes in a step, and where it comes from.
Goes(X, cmd, x) ==
  IF x[2] = 3 THEN Landing(X, cmd, Root)
  ELSE IF x[2] = 2 THEN Landing(X, cmd, Child(x[1], X[x[1]].slot))
  ELSE IF Takes(X, cmd, x[1], x[2]) THEN <<x[1], 2>>
  ELSE IF Leaves(X, cmd, x[1], x[2]) THEN Exit(x[1])
  ELSE <<x[1], x[2]>>
Comes(X, cmd, x) ==
  IF x[2] = 3 THEN <<Root, min_data_port(X[Root].eff)>>
  ELSE IF x[2] = 2
       THEN (IF Takes(X, cmd, x[1], min_sub_tree(X[x[1]].eff))
             THEN <<x[1], min_sub_tree(X[x[1]].eff)>> ELSE Origin(x[1]))
  ELSE IF Takes(X, cmd, x[1], x[2]) THEN Origin(x[1])
  ELSE IF Fetches(X, x[1], x[2]) THEN <<Child(x[1], x[2]), min_data_port(X[Child(x[1], x[2])].eff)>>
  ELSE <<x[1], x[2]>>

\* These, spelt out for the ports, for the wires and for a slot.
LEMMA PortWord ==
  ASSUME NEW X, NEW cmd, NEW p
  PROVE  /\ Before(X, cmd, <<p, 3>>) = IF p = Root /\ cmd.op = "PUSH" THEN cmd.data ELSE AllOnes
         /\ After(X, cmd, <<p, 3>>) = IF p = Root /\ cmd.op = "POP" THEN Least(X[Root].eff) ELSE AllOnes
<1>1. <<p, 3>>[1] = p /\ <<p, 3>>[2] = 3
  OBVIOUS
<1>. QED
  BY <1>1, Zenon DEF Before, After

\* Where words go to and come from at the ports.
LEMMA PortMove ==
  ASSUME NEW X, NEW cmd, NEW p
  PROVE  /\ Goes(X, cmd, <<p, 3>>) = Landing(X, cmd, Root)
         /\ Comes(X, cmd, <<p, 3>>) = <<Root, min_data_port(X[Root].eff)>>
<1>1. <<p, 3>>[1] = p /\ <<p, 3>>[2] = 3
  OBVIOUS
<1>. QED
  BY <1>1, Zenon DEF Goes, Comes

\* The wires below a node.
LEMMA WireWord ==
  ASSUME NEW X, NEW cmd, NEW p
  PROVE  /\ Before(X, cmd, <<p, 2>>) = X[p].word
         /\ After(X, cmd, <<p, 2>>) = NextTree(X, cmd)[p].word
<1>1. <<p, 2>>[1] = p /\ <<p, 2>>[2] = 2 /\ 2 # 3
  OBVIOUS
<1>. QED
  BY <1>1, Zenon DEF Before, After, WordAt

\* Where the word on the wires goes.
LEMMA WireGoes ==
  ASSUME NEW X, NEW cmd, NEW p
  PROVE  Goes(X, cmd, <<p, 2>>) = Landing(X, cmd, Child(p, X[p].slot))
<1>1. <<p, 2>>[1] = p /\ <<p, 2>>[2] = 2 /\ 2 # 3
  OBVIOUS
<1>. QED
  BY <1>1, Zenon DEF Goes

\* Where the word on the wires came from.
LEMMA WireComes ==
  ASSUME NEW X, NEW cmd, NEW p
  PROVE  Comes(X, cmd, <<p, 2>>) = IF Takes(X, cmd, p, min_sub_tree(X[p].eff))
                                   THEN <<p, min_sub_tree(X[p].eff)>> ELSE Origin(p)
<1>1. <<p, 2>>[1] = p /\ <<p, 2>>[2] = 2 /\ 2 # 3
  OBVIOUS
<1>. QED
  BY <1>1, Zenon DEF Comes

\* The slots of a node.
LEMMA SlotWord ==
  ASSUME NEW X, NEW cmd, NEW p, NEW k \in Slot
  PROVE  /\ Before(X, cmd, <<p, k>>) = X[p].eff.val[k]
         /\ After(X, cmd, <<p, k>>) = NextTree(X, cmd)[p].eff.val[k]
<1>1. <<p, k>>[1] = p /\ <<p, k>>[2] = k
  OBVIOUS
<1>2. k # 2 /\ k # 3
  BY DEF Slot
<1>. QED
  BY <1>1, <1>2, Zenon DEF Before, After, WordAt

\* Where the word of a slot goes.
LEMMA SlotGoes ==
  ASSUME NEW X, NEW cmd, NEW p, NEW k \in Slot
  PROVE  Goes(X, cmd, <<p, k>>) =
           IF Takes(X, cmd, p, k) THEN <<p, 2>> ELSE IF Leaves(X, cmd, p, k) THEN Exit(p) ELSE <<p, k>>
<1>1. <<p, k>>[1] = p /\ <<p, k>>[2] = k
  OBVIOUS
<1>2. k # 2 /\ k # 3
  BY DEF Slot
<1>. QED
  BY <1>1, <1>2, Zenon DEF Goes

\* Where the word of a slot came from.
LEMMA SlotComes ==
  ASSUME NEW X, NEW cmd, NEW p, NEW k \in Slot
  PROVE  Comes(X, cmd, <<p, k>>) =
           IF Takes(X, cmd, p, k) THEN Origin(p)
           ELSE IF Fetches(X, p, k) THEN <<Child(p, k), min_data_port(X[Child(p, k)].eff)>> ELSE <<p, k>>
<1>1. <<p, k>>[1] = p /\ <<p, k>>[2] = k
  OBVIOUS
<1>2. k # 2 /\ k # 3
  BY DEF Slot
<1>. QED
  BY <1>1, <1>2, Zenon DEF Comes

\* A word handed to p lands there, and stood above p.
LEMMA WordLands ==
  ASSUME NEW X, NEW cmd, CanStep(X, cmd), NEW p \in Position, Given(X, cmd, p) = "PUSH"
  PROVE  /\ Landing(X, cmd, p) \in Stand
         /\ After(X, cmd, Landing(X, cmd, p)) = GivenWord(X, cmd, p)
         /\ Comes(X, cmd, Landing(X, cmd, p)) = Origin(p)
         /\ Origin(p) \in Stand
         /\ Before(X, cmd, Origin(p)) = GivenWord(X, cmd, p)
         /\ Goes(X, cmd, Origin(p)) = Landing(X, cmd, p)
<1> DEFINE Y == NextTree(X, cmd)
           n == X[p].eff
           b == min_sub_tree(n)
           d == GivenWord(X, cmd, p)
<1>1. /\ b \in Slot
      /\ Y[p].word = IF Filled(n, b) /\ Inner(p) THEN (IF Yields(n.val[b], d) THEN n.val[b] ELSE d) ELSE AllOnes
      /\ Y[p].eff.val[b] = IF Yields(n.val[b], d) THEN d ELSE n.val[b]
      /\ ~Inner(p) => ~Filled(n, b)
  BY StepTyped, PushArrives
<1>2. Takes(X, cmd, p, b) <=> Yields(n.val[b], d)
  BY DEF Takes
<1>3. Landing(X, cmd, p) = IF Takes(X, cmd, p, b) THEN <<p, b>> ELSE <<p, 2>>
  BY DEF Landing
<1>4. Landing(X, cmd, p) \in Stand
  BY <1>1, <1>3 DEF Stand, Slot
<1>5. /\ After(X, cmd, Landing(X, cmd, p)) = d
      /\ Comes(X, cmd, Landing(X, cmd, p)) = Origin(p)
  <2>1. CASE Yields(n.val[b], d)
    <3>1. Landing(X, cmd, p) = <<p, b>> /\ Takes(X, cmd, p, b)
      BY <1>2, <1>3, <2>1
    <3>2. After(X, cmd, <<p, b>>) = Y[p].eff.val[b]
      BY <1>1, SlotWord
    <3>3. Comes(X, cmd, <<p, b>>) = Origin(p)
      BY <1>1, <3>1, SlotComes
    <3>. QED
      BY <1>1, <2>1, <3>1, <3>2, <3>3
  <2>2. CASE ~Yields(n.val[b], d)
    <3>1. Landing(X, cmd, p) = <<p, 2>> /\ ~Takes(X, cmd, p, b)
      BY <1>2, <1>3, <2>2
    <3>2. After(X, cmd, <<p, 2>>) = Y[p].word
      BY WireWord
    <3>3. Comes(X, cmd, <<p, 2>>) = Origin(p)
      BY <3>1, WireComes
    <3>4. Filled(n, b)
      BY <2>2 DEF Yields, Filled
    <3>. QED
      BY <1>1, <2>2, <3>1, <3>2, <3>3, <3>4
  <2>. QED
    BY <2>1, <2>2
<1>6. CASE p = Root
  <2>1. Origin(p) = <<Root, 3>> /\ Root \in Position
    BY <1>6, Positions DEF Origin
  <2>2. cmd.op = "PUSH" /\ d = cmd.data
    BY <1>6 DEF Given, GivenWord
  <2>3. Before(X, cmd, <<Root, 3>>) = d /\ Goes(X, cmd, <<Root, 3>>) = Landing(X, cmd, Root)
    BY <2>2, PortWord, PortMove
  <2>. QED
    BY <1>4, <1>5, <1>6, <2>1, <2>3 DEF Stand
<1>7. CASE p # Root
  <2> DEFINE r == Parent(p)
  <2>1. Origin(p) = <<r, 2>> /\ r \in Position /\ p = Child(r, Side(p))
    BY <1>7, ParentPosition DEF Origin
  <2>2. X[r].slot = Side(p) /\ d = X[r].word
    BY <1>7 DEF Given, GivenWord
  <2>3. Before(X, cmd, <<r, 2>>) = X[r].word /\ Goes(X, cmd, <<r, 2>>) = Landing(X, cmd, Child(r, X[r].slot))
    BY WireWord, WireGoes
  <2>. QED
    BY <1>4, <1>5, <2>1, <2>2, <2>3 DEF Stand
<1>. QED
  BY <1>6, <1>7

-----------------------------------------------------------------------------
(* ... and every word comes from one place.                                *)
\* A word in a slot goes where it is then found.
LEMMA SlotForward ==
  ASSUME NEW X, NEW cmd, CanStep(X, cmd), NEW p \in Position, NEW k \in Slot, Filled(X[p].eff, k)
  PROVE  /\ Goes(X, cmd, <<p, k>>) \in Stand
         /\ After(X, cmd, Goes(X, cmd, <<p, k>>)) = X[p].eff.val[k]
         /\ Comes(X, cmd, Goes(X, cmd, <<p, k>>)) = <<p, k>>
<1> DEFINE Y == NextTree(X, cmd)
           n == X[p].eff
<1>1. X \in [Position -> CellType] /\ CellOK(X, p)
  BY DEF CanStep, TreeOK
<1>2. Y[p] = NextCell(X, cmd, p)
  BY StepTyped
<1>3. Given(X, cmd, p) \in {"NONE", "PUSH", "POP"} /\ (Given(X, cmd, p) # "NONE" => X[p].mode # "POP")
  BY GivenFacts
<1>4. <<p, k>> \in Stand /\ <<p, 2>> \in Stand
  BY DEF Stand, Slot
<1>5. ASSUME ~Takes(X, cmd, p, k), ~Leaves(X, cmd, p, k), ~Fetches(X, p, k), Y[p].eff.val[k] = n.val[k]
      PROVE  /\ Goes(X, cmd, <<p, k>>) \in Stand
             /\ After(X, cmd, Goes(X, cmd, <<p, k>>)) = n.val[k]
             /\ Comes(X, cmd, Goes(X, cmd, <<p, k>>)) = <<p, k>>
  <2>1. Goes(X, cmd, <<p, k>>) = <<p, k>>
    BY <1>5, SlotGoes
  <2>2. Comes(X, cmd, <<p, k>>) = <<p, k>>
    BY <1>5, SlotComes
  <2>3. After(X, cmd, <<p, k>>) = Y[p].eff.val[k]
    BY SlotWord
  <2>. QED
    BY <1>4, <1>5, <2>1, <2>2, <2>3
<1>6. CASE Given(X, cmd, p) = "PUSH"
  <2> DEFINE b == min_sub_tree(n)
             d == GivenWord(X, cmd, p)
  <2>1. /\ b \in Slot
        /\ Y[p].word = IF Filled(n, b) /\ Inner(p) THEN (IF Yields(n.val[b], d) THEN n.val[b] ELSE d) ELSE AllOnes
        /\ Y[p].eff.val[b] = IF Yields(n.val[b], d) THEN d ELSE n.val[b]
        /\ \A e \in Slot : e # b => Y[p].eff.val[e] = n.val[e]
        /\ ~Inner(p) => ~Filled(n, b)
    BY <1>2, <1>6, PushArrives
  <2>2. Takes(X, cmd, p, k) <=> k = b /\ Yields(n.val[k], d)
    BY <1>6 DEF Takes
  <2>3. ~Leaves(X, cmd, p, k) /\ ~Fetches(X, p, k)
    BY <1>3, <1>6 DEF Leaves, Fetches
  <2>4. CASE k = b /\ Yields(n.val[k], d)
    <3>1. Goes(X, cmd, <<p, k>>) = <<p, 2>>
      BY <2>2, <2>4, SlotGoes
    <3>2. Comes(X, cmd, <<p, 2>>) = <<p, k>>
      BY <2>2, <2>4, WireComes
    <3>3. After(X, cmd, <<p, 2>>) = Y[p].word
      BY WireWord
    <3>4. Y[p].word = n.val[k]
      BY <2>1, <2>4
    <3>. QED
      BY <1>4, <3>1, <3>2, <3>3, <3>4
  <2>5. CASE ~(k = b /\ Yields(n.val[k], d))
    <3>1. Y[p].eff.val[k] = n.val[k]
      BY <2>1, <2>5
    <3>. QED
      BY <1>5, <2>2, <2>3, <2>5, <3>1
  <2>. QED
    BY <2>4, <2>5
<1>7. CASE Given(X, cmd, p) = "POP"
  <2> DEFINE b == min_data_port(n)
  <2>1. /\ b \in Slot /\ X[p].seen = n
        /\ \A e \in Slot : e # b => Y[p].eff.val[e] = n.val[e]
    BY <1>2, <1>7, PopArrives
  <2>2. Leaves(X, cmd, p, k) <=> k = b
    BY <1>7 DEF Leaves
  <2>3. ~Takes(X, cmd, p, k) /\ ~Fetches(X, p, k)
    BY <1>3, <1>7 DEF Takes, Fetches
  <2>4. CASE k # b
    <3>1. Y[p].eff.val[k] = n.val[k]
      BY <2>1, <2>4
    <3>. QED
      BY <1>5, <2>2, <2>3, <2>4, <3>1
  <2>5. CASE k = b /\ p = Root
    <3>1. Goes(X, cmd, <<p, k>>) = <<Root, 3>>
      BY <2>2, <2>3, <2>5, SlotGoes DEF Exit
    <3>2. Comes(X, cmd, <<Root, 3>>) = <<Root, k>>
      BY <2>5, PortMove
    <3>3. cmd.op = "POP"
      BY <1>7, <2>5 DEF Given
    <3>4. After(X, cmd, <<Root, 3>>) = n.val[k]
      BY <2>5, <3>3, PortWord DEF Least
    <3>. QED
      BY <2>5, <3>1, <3>2, <3>4, Positions DEF Stand
  <2>6. CASE k = b /\ p # Root
    <3> DEFINE r == Parent(p)
               s == Side(p)
    <3>1. r \in Position /\ s \in Slot /\ Inner(r) /\ p = Child(r, s)
      BY <2>6, ParentPosition
    <3>2. X[r].slot = s /\ X[r].mode = "POP"
      BY <1>7, <2>6 DEF Given
    <3>3. CellOK(X, r)
      BY <3>1 DEF CanStep, TreeOK
    <3>4. Rank(X[r].seen.val[s]) <= Rank(X[p].seen.val[k])
      BY <3>1, <3>3 DEF CellOK
    <3>5. Rank(n.val[k]) \in 0 .. RankOnes /\ Rank(X[r].seen.val[s]) \in 0 .. RankOnes /\ RankOnes \in Nat
      BY <1>1, <3>1, CellTyped, NodeType, RankRange
    <3>6. Filled(X[r].seen, s)
      BY <2>1, <3>4, <3>5 DEF Filled
    <3>7. X[r].seen.size[s] # 0
      BY <3>1, <3>3, <3>6 DEF CellOK
    <3>8. Goes(X, cmd, <<p, k>>) = <<r, s>>
      BY <2>2, <2>3, <2>6, SlotGoes DEF Exit
    <3>9. Fetches(X, r, s) /\ ~Takes(X, cmd, r, s)
      BY <3>1, <3>2, <3>7, PopEnds DEF Fetches, Takes
    <3>10. Comes(X, cmd, <<r, s>>) = <<Child(r, s), min_data_port(X[Child(r, s)].eff)>>
      BY <3>1, <3>9, SlotComes
    <3>11. After(X, cmd, <<r, s>>) = Y[r].eff.val[s]
      BY <3>1, SlotWord
    <3>12. Y[r].eff.val[s] = Least(X[Child(r, s)].eff)
      BY <3>1, <3>2, <3>7, StepTyped, PopEnds
    <3>13. <<r, s>> \in Stand
      BY <3>1 DEF Stand, Slot
    <3> HIDE DEF r, s
    <3>. QED
      BY <2>6, <3>1, <3>8, <3>10, <3>11, <3>12, <3>13 DEF Least
  <2>. QED
    BY <2>4, <2>5, <2>6
<1>8. CASE Given(X, cmd, p) = "NONE" /\ X[p].mode # "POP"
  <2>1. Y[p].eff = n
    BY <1>2, <1>8, NothingArrives
  <2>2. ~Takes(X, cmd, p, k) /\ ~Fetches(X, p, k) /\ ~Leaves(X, cmd, p, k)
    BY <1>8 DEF Takes, Fetches, Leaves
  <2>. QED
    BY <1>5, <2>1, <2>2
<1>9. CASE X[p].mode = "POP"
  <2> DEFINE s == X[p].seen
             b == X[p].slot
  <2>1. /\ b \in Slot /\ Given(X, cmd, p) = "NONE"
        /\ s.size[b] = 0 => n = s /\ Y[p].eff = s
        /\ s.size[b] # 0 => n.val[b] = AllOnes
        /\ \A e \in Slot : e # b => n.val[e] = s.val[e] /\ Y[p].eff.val[e] = s.val[e]
    BY <1>2, <1>9, PopEnds
  <2>2. ~(k = b /\ s.size[b] # 0)
    BY <2>1, RankRange DEF Filled
  <2>3. Y[p].eff.val[k] = n.val[k]
    BY <2>1, <2>2
  <2>4. ~Takes(X, cmd, p, k) /\ ~Fetches(X, p, k) /\ ~Leaves(X, cmd, p, k)
    BY <2>1, <2>2 DEF Takes, Fetches, Leaves
  <2>. QED
    BY <1>5, <2>3, <2>4
<1>. QED
  BY <1>3, <1>6, <1>7, <1>8, <1>9

\* A word in a slot after the step comes from where it was.
LEMMA SlotBackward ==
  ASSUME NEW X, NEW cmd, CanStep(X, cmd), NEW p \in Position, NEW k \in Slot,
         Filled(NextTree(X, cmd)[p].eff, k)
  PROVE  /\ Comes(X, cmd, <<p, k>>) \in Stand
         /\ Before(X, cmd, Comes(X, cmd, <<p, k>>)) = NextTree(X, cmd)[p].eff.val[k]
         /\ Goes(X, cmd, Comes(X, cmd, <<p, k>>)) = <<p, k>>
<1> DEFINE Y == NextTree(X, cmd)
           n == X[p].eff
<1>1. X \in [Position -> CellType] /\ CellOK(X, p) /\ Rank(AllOnes) = RankOnes
  BY RankRange DEF CanStep, TreeOK
<1>2. Y[p] = NextCell(X, cmd, p)
  BY StepTyped
<1>3. Given(X, cmd, p) \in {"NONE", "PUSH", "POP"} /\ (Given(X, cmd, p) # "NONE" => X[p].mode # "POP")
  BY GivenFacts
<1>4. <<p, k>> \in Stand
  BY DEF Stand, Slot
<1>5. ASSUME ~Takes(X, cmd, p, k), ~Leaves(X, cmd, p, k), ~Fetches(X, p, k), Y[p].eff.val[k] = n.val[k]
      PROVE  /\ Comes(X, cmd, <<p, k>>) \in Stand
             /\ Before(X, cmd, Comes(X, cmd, <<p, k>>)) = Y[p].eff.val[k]
             /\ Goes(X, cmd, Comes(X, cmd, <<p, k>>)) = <<p, k>>
  <2>1. Comes(X, cmd, <<p, k>>) = <<p, k>>
    BY <1>5, SlotComes
  <2>2. Goes(X, cmd, <<p, k>>) = <<p, k>>
    BY <1>5, SlotGoes
  <2>3. Before(X, cmd, <<p, k>>) = n.val[k]
    BY SlotWord
  <2>. QED
    BY <1>4, <1>5, <2>1, <2>2, <2>3
<1>6. CASE Given(X, cmd, p) = "PUSH"
  <2> DEFINE b == min_sub_tree(n)
             d == GivenWord(X, cmd, p)
  <2>1. /\ b \in Slot
        /\ Y[p].eff.val[b] = IF Yields(n.val[b], d) THEN d ELSE n.val[b]
        /\ \A e \in Slot : e # b => Y[p].eff.val[e] = n.val[e]
    BY <1>2, <1>6, PushArrives
  <2>2. Takes(X, cmd, p, k) <=> k = b /\ Yields(n.val[k], d)
    BY <1>6 DEF Takes
  <2>3. ~Leaves(X, cmd, p, k) /\ ~Fetches(X, p, k)
    BY <1>3, <1>6 DEF Leaves, Fetches
  <2>4. CASE k = b /\ Yields(n.val[k], d)
    <3>1. Comes(X, cmd, <<p, k>>) = Origin(p)
      BY <2>2, <2>4, SlotComes
    <3>2. Origin(p) \in Stand /\ Before(X, cmd, Origin(p)) = d /\ Goes(X, cmd, Origin(p)) = Landing(X, cmd, p)
      BY <1>6, WordLands
    <3>3. Landing(X, cmd, p) = <<p, k>>
      BY <2>2, <2>4 DEF Landing
    <3>4. Y[p].eff.val[k] = d
      BY <2>1, <2>4
    <3>. QED
      BY <3>1, <3>2, <3>3, <3>4
  <2>5. CASE ~(k = b /\ Yields(n.val[k], d))
    <3>1. Y[p].eff.val[k] = n.val[k]
      BY <2>1, <2>5
    <3>. QED
      BY <1>5, <2>2, <2>3, <2>5, <3>1
  <2>. QED
    BY <2>4, <2>5
<1>7. CASE Given(X, cmd, p) = "POP"
  <2> DEFINE b == min_data_port(n)
  <2>1. /\ b \in Slot
        /\ n.size[b] = 0 => Y[p].eff = n
        /\ n.size[b] # 0 => Y[p].eff.val[b] = AllOnes
        /\ \A e \in Slot : e # b => Y[p].eff.val[e] = n.val[e]
    BY <1>2, <1>7, PopArrives
  <2>2. Filled(n, b) <=> n.size[b] # 0
    BY <1>1, <1>3, <1>7, LeastFilled
  <2>3. k # b
    BY <1>1, <2>1, <2>2 DEF Filled
  <2>4. Y[p].eff.val[k] = n.val[k]
    BY <2>1, <2>3
  <2>5. ~Takes(X, cmd, p, k) /\ ~Fetches(X, p, k) /\ ~Leaves(X, cmd, p, k)
    BY <1>3, <1>7, <2>3 DEF Takes, Fetches, Leaves
  <2>. QED
    BY <1>5, <2>4, <2>5
<1>8. CASE Given(X, cmd, p) = "NONE" /\ X[p].mode # "POP"
  <2>1. Y[p].eff = n
    BY <1>2, <1>8, NothingArrives
  <2>2. ~Takes(X, cmd, p, k) /\ ~Fetches(X, p, k) /\ ~Leaves(X, cmd, p, k)
    BY <1>8 DEF Takes, Fetches, Leaves
  <2>. QED
    BY <1>5, <2>1, <2>2
<1>9. CASE X[p].mode = "POP"
  <2> DEFINE s == X[p].seen
             b == X[p].slot
  <2>1. /\ b \in Slot /\ Given(X, cmd, p) = "NONE"
        /\ s.size[b] = 0 => n = s /\ Y[p].eff = s
        /\ s.size[b] # 0 => Y[p].eff.val[b] = IF Inner(p) THEN Least(X[Child(p, b)].eff) ELSE AllOnes
        /\ \A e \in Slot : e # b => n.val[e] = s.val[e] /\ Y[p].eff.val[e] = s.val[e]
    BY <1>2, <1>9, PopEnds
  <2>2. ~Takes(X, cmd, p, k) /\ ~Leaves(X, cmd, p, k)
    BY <2>1 DEF Takes, Leaves
  <2>3. CASE k = b /\ s.size[b] # 0
    <3> DEFINE q == Child(p, k)
               e == min_data_port(X[q].eff)
    <3>1. Inner(p)
      BY <1>1, <2>1, <2>3 DEF Filled
    <3>2. Y[p].eff.val[k] = X[q].eff.val[e]
      BY <2>1, <2>3, <3>1 DEF Least
    <3>3. Comes(X, cmd, <<p, k>>) = <<q, e>>
      BY <1>9, <2>2, <2>3, <3>1, SlotComes DEF Fetches
    <3>4. q \in Position /\ Given(X, cmd, q) = "POP" /\ X[q].eff \in Node
      BY <1>9, <2>3, <3>1, RaisedFrom
    <3>5. e \in Slot
      BY <3>4, MinDataPort
    <3>6. Leaves(X, cmd, q, e) /\ ~Takes(X, cmd, q, e)
      BY <3>4 DEF Leaves, Takes
    <3>7. Goes(X, cmd, <<q, e>>) = Exit(q)
      BY <3>5, <3>6, SlotGoes
    <3>8. Exit(q) = <<p, k>>
      BY <3>1, ChildPosition DEF Exit
    <3>9. Before(X, cmd, <<q, e>>) = X[q].eff.val[e]
      BY <3>5, SlotWord
    <3>10. <<q, e>> \in Stand
      BY <3>4, <3>5 DEF Stand, Slot
    <3> HIDE DEF q, e
    <3>. QED
      BY <3>2, <3>3, <3>7, <3>8, <3>9, <3>10
  <2>4. CASE ~(k = b /\ s.size[b] # 0)
    <3>1. Y[p].eff.val[k] = n.val[k]
      BY <2>1, <2>4
    <3>2. ~Fetches(X, p, k)
      BY <2>4 DEF Fetches
    <3>. QED
      BY <1>5, <2>2, <3>1, <3>2
  <2>. QED
    BY <2>3, <2>4
<1>. QED
  BY <1>3, <1>6, <1>7, <1>8, <1>9

\* No word is lost ...
LEMMA WordForward ==
  ASSUME NEW X, NEW cmd, CanStep(X, cmd), NEW x \in Stand, Rank(Before(X, cmd, x)) # RankOnes
  PROVE  /\ Goes(X, cmd, x) \in Stand
         /\ After(X, cmd, Goes(X, cmd, x)) = Before(X, cmd, x)
         /\ Comes(X, cmd, Goes(X, cmd, x)) = x
<1>1. PICK p \in Position, k \in {0, 1, 2, 3} : x = <<p, k>>
  BY DEF Stand
<1>2. Rank(AllOnes) = RankOnes
  BY RankRange
<1>3. CASE k = 3
  <2>1. p = Root /\ cmd.op = "PUSH" /\ Before(X, cmd, x) = cmd.data
    BY <1>1, <1>2, <1>3, PortWord
  <2>2. Given(X, cmd, Root) = "PUSH" /\ GivenWord(X, cmd, Root) = cmd.data /\ Origin(Root) = <<Root, 3>>
    BY <2>1 DEF Given, GivenWord, Origin
  <2>3. Goes(X, cmd, x) = Landing(X, cmd, Root)
    BY <1>1, <1>3, PortMove
  <2>. QED
    BY <1>1, <1>3, <2>1, <2>2, <2>3, WordLands
<1>4. CASE k = 2
  <2>1. Before(X, cmd, x) = X[p].word
    BY <1>1, <1>4, WireWord
  <2>2. X[p].mode = "PUSH" /\ Inner(p)
    BY <1>2, <2>1 DEF CanStep, TreeOK, CellOK
  <2> DEFINE b == X[p].slot
             q == Child(p, b)
  <2>3. b \in Slot
    BY CellTyped DEF CanStep
  <2>4. q \in Position /\ Given(X, cmd, q) = "PUSH" /\ GivenWord(X, cmd, q) = X[p].word
    BY <2>2, <2>3, ChildPosition, GivenChild
  <2>5. Origin(q) = <<p, 2>>
    BY <2>2, <2>3, ChildPosition DEF Origin
  <2>6. Goes(X, cmd, x) = Landing(X, cmd, q)
    BY <1>1, <1>4, WireGoes
  <2> HIDE DEF q
  <2>. QED
    BY <1>1, <1>4, <2>1, <2>4, <2>5, <2>6, WordLands
<1>5. CASE k \in Slot
  <2>1. Before(X, cmd, x) = X[p].eff.val[k]
    BY <1>1, <1>5, SlotWord
  <2>2. Filled(X[p].eff, k)
    BY <2>1 DEF Filled
  <2>. QED
    BY <1>1, <1>5, <2>1, <2>2, SlotForward
<1>. QED
  BY <1>1, <1>3, <1>4, <1>5 DEF Slot

\* ... and none comes from nowhere.
LEMMA WordBackward ==
  ASSUME NEW X, NEW cmd, CanStep(X, cmd), NEW x \in Stand, Rank(After(X, cmd, x)) # RankOnes
  PROVE  /\ Comes(X, cmd, x) \in Stand
         /\ Before(X, cmd, Comes(X, cmd, x)) = After(X, cmd, x)
         /\ Goes(X, cmd, Comes(X, cmd, x)) = x
<1> DEFINE Y == NextTree(X, cmd)
<1>1. PICK p \in Position, k \in {0, 1, 2, 3} : x = <<p, k>>
  BY DEF Stand
<1>2. Rank(AllOnes) = RankOnes
  BY RankRange
<1>3. CASE k = 3
  <2> DEFINE b == min_data_port(X[Root].eff)
  <2>1. p = Root /\ cmd.op = "POP" /\ After(X, cmd, x) = Least(X[Root].eff)
    BY <1>1, <1>2, <1>3, PortWord
  <2>2. Given(X, cmd, Root) = "POP" /\ Exit(Root) = <<Root, 3>>
    BY <2>1 DEF Given, Exit
  <2>3. Comes(X, cmd, x) = <<Root, b>>
    BY <1>1, <1>3, PortMove
  <2>4. b \in Slot
    BY <1>1, <2>1, CellTyped, MinDataPort DEF CanStep
  <2>5. Leaves(X, cmd, Root, b) /\ ~Takes(X, cmd, Root, b)
    BY <2>2 DEF Leaves, Takes
  <2>6. Goes(X, cmd, <<Root, b>>) = Exit(Root)
    BY <2>4, <2>5, SlotGoes
  <2>7. Before(X, cmd, <<Root, b>>) = X[Root].eff.val[b]
    BY <2>4, SlotWord
  <2>. QED
    BY <1>1, <1>3, <2>1, <2>2, <2>3, <2>4, <2>6, <2>7 DEF Stand, Slot, Least
<1>4. CASE k = 2
  <2> DEFINE n == X[p].eff
             b == min_sub_tree(n)
             d == GivenWord(X, cmd, p)
  <2>1. After(X, cmd, x) = Y[p].word
    BY <1>1, <1>4, WireWord
  <2>2. Y[p] = NextCell(X, cmd, p)
    BY StepTyped
  <2>3. Given(X, cmd, p) = "PUSH"
    BY <1>2, <2>1, <2>2, GivenFacts, PopArrives, NothingArrives, PopEnds
  <2>4. /\ b \in Slot
        /\ Y[p].word = IF Filled(n, b) /\ Inner(p) THEN (IF Yields(n.val[b], d) THEN n.val[b] ELSE d) ELSE AllOnes
    BY <2>2, <2>3, PushArrives
  <2>5. Takes(X, cmd, p, b) <=> Yields(n.val[b], d)
    BY <2>3 DEF Takes
  <2>6. Comes(X, cmd, x) = IF Takes(X, cmd, p, b) THEN <<p, b>> ELSE Origin(p)
    BY <1>1, <1>4, WireComes
  <2>7. CASE Yields(n.val[b], d)
    <3>1. Y[p].word = n.val[b]
      BY <1>2, <2>1, <2>4, <2>7
    <3>2. Before(X, cmd, <<p, b>>) = n.val[b]
      BY <2>4, SlotWord
    <3>3. Goes(X, cmd, <<p, b>>) = <<p, 2>>
      BY <2>4, <2>5, <2>7, SlotGoes
    <3>4. <<p, b>> \in Stand
      BY <2>4 DEF Stand, Slot
    <3>. QED
      BY <1>1, <1>4, <2>1, <2>5, <2>6, <2>7, <3>1, <3>2, <3>3, <3>4
  <2>8. CASE ~Yields(n.val[b], d)
    <3>1. Y[p].word = d
      BY <1>2, <2>1, <2>4, <2>8
    <3>2. Landing(X, cmd, p) = <<p, 2>>
      BY <2>5, <2>8 DEF Landing
    <3>3. Origin(p) \in Stand /\ Before(X, cmd, Origin(p)) = d /\ Goes(X, cmd, Origin(p)) = Landing(X, cmd, p)
      BY <2>3, WordLands
    <3>. QED
      BY <1>1, <1>4, <2>1, <2>5, <2>6, <2>8, <3>1, <3>2, <3>3
  <2>. QED
    BY <2>7, <2>8
<1>5. CASE k \in Slot
  <2>1. After(X, cmd, x) = Y[p].eff.val[k]
    BY <1>1, <1>5, SlotWord
  <2>2. Filled(Y[p].eff, k)
    BY <2>1 DEF Filled
  <2>. QED
    BY <1>1, <1>5, <2>1, <2>2, SlotBackward
<1>. QED
  BY <1>1, <1>3, <1>4, <1>5 DEF Slot

-----------------------------------------------------------------------------
(* What a tree holds, counted over the places of its words.                *)
\* The places of a tree, and those where a word is.
Place == Position \X {0, 1, 2}
Where(X, w) == {x \in Place : WordAt(X, x[1], x[2]) = w}
Held(X) == {w \in StoredWord : Rank(w) # RankOnes /\ Where(X, w) # {}}
BagOf(X) == [w \in Held(X) |-> Cardinality(Where(X, w))]

\* A tree has finitely many places.
LEMMA FinitePlaces == IsFiniteSet(Position) /\ IsFiniteSet(Place) /\ IsFiniteSet(Stand)
<1>1. LEVEL - 1 \in Nat /\ 2 ^ (LEVEL - 1) \in Nat /\ 2 ^ (LEVEL - 1) - 1 \in Int /\ LEVEL - 1 \in Int
  BY LevelAssumption, PowerSucc
<1>2. IsFiniteSet(RPU) /\ IsFiniteSet(0 .. 2 ^ (LEVEL - 1) - 1)
  <2>1. IsFiniteSet(0 .. LEVEL - 1)
    BY <1>1, FS_Interval
  <2>2. IsFiniteSet(0 .. 2 ^ (LEVEL - 1) - 1)
    <3> DEFINE a == 2 ^ (LEVEL - 1) - 1
    <3>1. a \in Int
      BY <1>1
    <3> HIDE DEF a
    <3>2. IsFiniteSet(0 .. a)
      BY <3>1, FS_Interval
    <3>. QED
      BY <3>2 DEF a
  <2>. QED
    BY <2>1, <2>2 DEF RPU
<1>3. IsFiniteSet(RPU \X (0 .. 2 ^ (LEVEL - 1) - 1))
  BY <1>2, FS_Product
<1>4. IsFiniteSet(Position)
  BY <1>3, FS_Subset DEF Position
<1>5. 0 .. 2 = {0, 1, 2} /\ 0 .. 3 = {0, 1, 2, 3} /\ 0 \in Int /\ 2 \in Int /\ 3 \in Int
  OBVIOUS
<1>6. IsFiniteSet({0, 1, 2}) /\ IsFiniteSet({0, 1, 2, 3})
  <2>1. IsFiniteSet(0 .. 2) /\ IsFiniteSet(0 .. 3)
    BY <1>5, FS_Interval
  <2>. QED
    BY <1>5, <2>1
<1>. QED
  BY <1>4, <1>6, FS_Product DEF Place, Stand

\* As many copies of a word stand somewhere before the step as after it.
LEMMA AsMany ==
  ASSUME NEW X, NEW cmd, CanStep(X, cmd), NEW w, Rank(w) # RankOnes,
         NEW A, A = {x \in Stand : Before(X, cmd, x) = w},
         NEW Z, Z = {x \in Stand : After(X, cmd, x) = w}
  PROVE  IsFiniteSet(A) /\ IsFiniteSet(Z) /\ Cardinality(A) = Cardinality(Z)
<1>1. IsFiniteSet(A) /\ IsFiniteSet(Z)
  BY FinitePlaces, FS_Subset
<1> DEFINE f == [x \in A |-> Goes(X, cmd, x)]
<1>2. \A x \in A : Goes(X, cmd, x) \in Z /\ Comes(X, cmd, Goes(X, cmd, x)) = x
  BY WordForward
<1>3. \A x \in Z : Comes(X, cmd, x) \in A /\ Goes(X, cmd, Comes(X, cmd, x)) = x
  BY WordBackward
<1>4. f \in [A -> Z]
  BY <1>2
<1>5. \A x, y \in A : f[x] = f[y] => x = y
  BY <1>2
<1>6. \A z \in Z : \E x \in A : f[x] = z
  BY <1>3
<1>7. f \in Bijection(A, Z)
  BY <1>4, <1>5, <1>6 DEF Bijection, Injection, Surjection, IsInjective
<1>8. ExistsBijection(A, Z)
  BY <1>7 DEF ExistsBijection
<1>. QED
  BY <1>1, <1>8, FS_Bijection

\* F shows the words of X, and v at the ports.
Shows(F, X, v) ==
  /\ \A p \in Position : F[<<p, 3>>] = IF p = Root THEN v ELSE AllOnes
  /\ \A p \in Position : F[<<p, 2>>] = X[p].word
  /\ \A p \in Position : \A k \in Slot : F[<<p, k>>] = X[p].eff.val[k]

\* A set of stands is a set of places and perhaps the ports.
LEMMA WithPorts ==
  ASSUME NEW X \in [Position -> CellType], NEW w, Rank(w) # RankOnes,
         NEW F, NEW v, Shows(F, X, v),
         NEW A, A = {x \in Stand : F[x] = w}
  PROVE  /\ IsFiniteSet(Where(X, w)) /\ Cardinality(Where(X, w)) \in Nat
         /\ Cardinality(A) = Cardinality(Where(X, w)) + (IF v = w THEN 1 ELSE 0)
<1> DEFINE S == Where(X, w)
           o == <<Root, 3>>
<1>1. IsFiniteSet(S) /\ Cardinality(S) \in Nat
  BY FinitePlaces, FS_Subset, FS_CardinalityType DEF Where
<1>2. o \notin S
  BY DEF Where, Place
<1>3. Root \in Position /\ o \in Stand /\ AllOnes # w
  BY Positions, RankRange DEF Stand
<1>4. ASSUME NEW p \in Position, NEW k \in {0, 1, 2}
      PROVE  /\ <<p, k>> \in Place /\ <<p, k>> \in Stand /\ F[<<p, k>>] = WordAt(X, p, k)
             /\ <<p, k>> \in S <=> WordAt(X, p, k) = w
  BY <1>4 DEF WordAt, Slot, Place, Stand, Where, Shows
<1>5. ASSUME NEW p \in Position PROVE F[<<p, 3>>] = w <=> p = Root /\ v = w
  BY <1>3, <1>5 DEF Shows
<1>6. S \subseteq Stand
  BY DEF Where, Place, Stand
<1>7. CASE v = w
  <2>1. A = S \cup {o}
    <3>1. \A p \in Position : \A k \in {0, 1, 2, 3} : <<p, k>> \in A <=> <<p, k>> \in S \cup {o}
      <4> SUFFICES ASSUME NEW p \in Position, NEW k \in {0, 1, 2, 3}
                   PROVE  <<p, k>> \in A <=> <<p, k>> \in S \cup {o}
        OBVIOUS
      <4>1. CASE k = 3
        <5>1. <<p, 3>> \notin S
          BY DEF Where, Place
        <5>2. <<p, 3>> \in Stand
          BY DEF Stand
        <5>. QED
          BY <1>5, <1>7, <4>1, <5>1, <5>2
      <4>2. CASE k # 3
        BY <1>4, <4>2
      <4>. QED
        BY <4>1, <4>2
    <3>2. A \subseteq Stand /\ S \cup {o} \subseteq Stand
      BY <1>3, <1>6
    <3>3. \A x \in Stand : x \in A <=> x \in S \cup {o}
      <4> SUFFICES ASSUME NEW x \in Stand PROVE x \in A <=> x \in S \cup {o}
        OBVIOUS
      <4>1. x[1] \in Position /\ x[2] \in {0, 1, 2, 3} /\ x = <<x[1], x[2]>>
        BY DEF Stand
      <4> HIDE DEF S, o
      <4>2. <<x[1], x[2]>> \in A <=> <<x[1], x[2]>> \in S \cup {o}
        BY <3>1, <4>1
      <4>. QED
        BY <4>1, <4>2
    <3> HIDE DEF S, o
    <3>. QED
      BY <3>2, <3>3
  <2>2. Cardinality(S \cup {o}) = Cardinality(S) + 1
    BY <1>1, <1>2, FS_AddElement
  <2>. QED
    BY <1>1, <1>7, <2>1, <2>2
<1>8. CASE v # w
  <2>1. A = S
    <3>1. \A p \in Position : \A k \in {0, 1, 2, 3} : <<p, k>> \in A <=> <<p, k>> \in S
      <4> SUFFICES ASSUME NEW p \in Position, NEW k \in {0, 1, 2, 3}
                   PROVE  <<p, k>> \in A <=> <<p, k>> \in S
        OBVIOUS
      <4>1. CASE k = 3
        <5>1. <<p, 3>> \notin S
          BY DEF Where, Place
        <5>. QED
          BY <1>5, <1>8, <4>1, <5>1
      <4>2. CASE k # 3
        BY <1>4, <4>2
      <4>. QED
        BY <4>1, <4>2
    <3>2. A \subseteq Stand
      OBVIOUS
    <3>3. \A x \in Stand : x \in A <=> x \in S
      <4> SUFFICES ASSUME NEW x \in Stand PROVE x \in A <=> x \in S
        OBVIOUS
      <4>1. x[1] \in Position /\ x[2] \in {0, 1, 2, 3} /\ x = <<x[1], x[2]>>
        BY DEF Stand
      <4> HIDE DEF S, o
      <4>2. <<x[1], x[2]>> \in A <=> <<x[1], x[2]>> \in S
        BY <3>1, <4>1
      <4>. QED
        BY <4>1, <4>2
    <3> HIDE DEF S
    <3>. QED
      BY <1>6, <3>2, <3>3
  <2> HIDE DEF S
  <2>2. Cardinality(A) = Cardinality(S) + 0
    BY <1>1, <2>1
  <2>. QED
    BY <1>1, <1>8, <2>2 DEF S
<1>. QED
  BY <1>7, <1>8

\* The word that a command brings in, and the one it takes out; all ones: none.
In(cmd) == IF cmd.op = "PUSH" THEN cmd.data ELSE AllOnes
Off(X, cmd) == IF cmd.op = "POP" THEN Least(X[Root].eff) ELSE AllOnes

\* The copies of one word.
LEMMA CopiesStep ==
  ASSUME NEW X, NEW cmd, CanStep(X, cmd), NEW Y, Y = NextTree(X, cmd), NEW w, Rank(w) # RankOnes
  PROVE  /\ IsFiniteSet(Where(X, w)) /\ Cardinality(Where(X, w)) \in Nat
         /\ IsFiniteSet(Where(Y, w)) /\ Cardinality(Where(Y, w)) \in Nat
         /\ Cardinality(Where(Y, w)) + (IF Off(X, cmd) = w THEN 1 ELSE 0)
              = Cardinality(Where(X, w)) + (IF In(cmd) = w THEN 1 ELSE 0)
<1> DEFINE A == {x \in Stand : Before(X, cmd, x) = w}
           Z == {x \in Stand : After(X, cmd, x) = w}
           F == [x \in Stand |-> Before(X, cmd, x)]
           G == [x \in Stand |-> After(X, cmd, x)]
<1>1. X \in [Position -> CellType] /\ Y \in [Position -> CellType]
  BY TreeStep DEF CanStep
<1>2. Shows(F, X, In(cmd))
  <2>1. \A p \in Position : \A k \in {0, 1, 2, 3} : <<p, k>> \in Stand
    BY DEF Stand
  <2>2. \A p \in Position : \A k \in {0, 1, 2, 3} : F[<<p, k>>] = Before(X, cmd, <<p, k>>)
    BY <2>1
  <2> HIDE DEF F
  <2>3. ASSUME NEW p \in Position PROVE F[<<p, 3>>] = IF p = Root THEN In(cmd) ELSE AllOnes
    <3>1. F[<<p, 3>>] = Before(X, cmd, <<p, 3>>)
      BY <2>2, <2>3
    <3>2. Before(X, cmd, <<p, 3>>) = IF p = Root THEN In(cmd) ELSE AllOnes
      BY PortWord DEF In
    <3>. QED
      BY <3>1, <3>2
  <2>4. ASSUME NEW p \in Position PROVE F[<<p, 2>>] = X[p].word
    <3>1. F[<<p, 2>>] = Before(X, cmd, <<p, 2>>)
      BY <2>2, <2>4
    <3>2. Before(X, cmd, <<p, 2>>) = X[p].word
      BY WireWord
    <3>. QED
      BY <3>1, <3>2
  <2>5. ASSUME NEW p \in Position, NEW k \in Slot PROVE F[<<p, k>>] = X[p].eff.val[k]
    <3>1. k \in {0, 1, 2, 3}
      BY <2>5 DEF Slot
    <3>2. F[<<p, k>>] = Before(X, cmd, <<p, k>>)
      BY <2>2, <2>5, <3>1
    <3>3. Before(X, cmd, <<p, k>>) = X[p].eff.val[k]
      BY <2>5, SlotWord
    <3>. QED
      BY <3>2, <3>3
  <2>. QED
    BY <2>3, <2>4, <2>5 DEF Shows
<1>3. Shows(G, Y, Off(X, cmd))
  <2>1. \A p \in Position : \A k \in {0, 1, 2, 3} : <<p, k>> \in Stand
    BY DEF Stand
  <2>2. \A p \in Position : \A k \in {0, 1, 2, 3} : G[<<p, k>>] = After(X, cmd, <<p, k>>)
    BY <2>1
  <2> HIDE DEF G
  <2>3. ASSUME NEW p \in Position PROVE G[<<p, 3>>] = IF p = Root THEN Off(X, cmd) ELSE AllOnes
    <3>1. G[<<p, 3>>] = After(X, cmd, <<p, 3>>)
      BY <2>2, <2>3
    <3>2. After(X, cmd, <<p, 3>>) = IF p = Root THEN Off(X, cmd) ELSE AllOnes
      BY PortWord DEF Off
    <3>. QED
      BY <3>1, <3>2
  <2>4. ASSUME NEW p \in Position PROVE G[<<p, 2>>] = Y[p].word
    <3>1. G[<<p, 2>>] = After(X, cmd, <<p, 2>>)
      BY <2>2, <2>4
    <3>2. After(X, cmd, <<p, 2>>) = Y[p].word
      BY WireWord
    <3>. QED
      BY <3>1, <3>2
  <2>5. ASSUME NEW p \in Position, NEW k \in Slot PROVE G[<<p, k>>] = Y[p].eff.val[k]
    <3>1. k \in {0, 1, 2, 3}
      BY <2>5 DEF Slot
    <3>2. G[<<p, k>>] = After(X, cmd, <<p, k>>)
      BY <2>2, <2>5, <3>1
    <3>3. After(X, cmd, <<p, k>>) = Y[p].eff.val[k]
      BY <2>5, SlotWord
    <3>. QED
      BY <3>2, <3>3
  <2>. QED
    BY <2>3, <2>4, <2>5 DEF Shows
<1>4. Cardinality(A) = Cardinality(Z)
  BY AsMany
<1>5. /\ IsFiniteSet(Where(X, w)) /\ Cardinality(Where(X, w)) \in Nat
      /\ Cardinality(A) = Cardinality(Where(X, w)) + (IF In(cmd) = w THEN 1 ELSE 0)
  <2>1. A = {x \in Stand : F[x] = w}
    OBVIOUS
  <2> HIDE DEF F, A
  <2>. QED
    BY <1>1, <1>2, <2>1, WithPorts
<1>6. /\ IsFiniteSet(Where(Y, w)) /\ Cardinality(Where(Y, w)) \in Nat
      /\ Cardinality(Z) = Cardinality(Where(Y, w)) + (IF Off(X, cmd) = w THEN 1 ELSE 0)
  <2>1. Z = {x \in Stand : G[x] = w}
    OBVIOUS
  <2> HIDE DEF G
  <2> HIDE DEF Z
  <2>. QED
    BY <1>1, <1>3, <2>1, WithPorts
<1>. QED
  BY <1>4, <1>5, <1>6

-----------------------------------------------------------------------------
(* The words of a tree as a bag.                                           *)
\* How often a word is in a bag; the bag with one word more or one less.
Has(B, w) == IF w \in DOMAIN B THEN B[w] ELSE 0
Add(B, d) == B (+) SetToBag({d})
Remove(B, l) == B (-) SetToBag({l})

\* The two, spelt out.
Added(B, d) == [w \in DOMAIN B \cup {d} |-> Has(B, w) + (IF w = d THEN 1 ELSE 0)]
Removed(B, l) == [w \in {v \in DOMAIN B : B[v] - (IF v = l THEN 1 ELSE 0) > 0} |->
                     B[w] - (IF w = l THEN 1 ELSE 0)]

\* Adding a word.
LEMMA AddFacts ==
  ASSUME NEW B, IsABag(B), NEW d, NEW R, R = Add(B, d)
  PROVE  IsABag(R) /\ R = Added(B, d)
<1> DEFINE D == DOMAIN B \cup {d}
           H(w) == Has(B, w) + (IF w = d THEN 1 ELSE 0)
<1>1. \A w \in DOMAIN B : B[w] \in Nat /\ B[w] > 0
  BY DEF IsABag
<1>2. \A w \in D : H(w) \in {n \in Nat : n > 0}
  BY <1>1 DEF Has
<1>3. R = [w \in D |-> H(w)]
  BY DEF Add, SetToBag, (+), Has
<1> HIDE DEF H, D
<1>4. DOMAIN R = D /\ R \in [D -> {n \in Nat : n > 0}]
  BY <1>2, <1>3
<1>5. IsABag(R)
  BY <1>4 DEF IsABag
<1>. QED
  BY <1>3, <1>5 DEF D, H, Added

\* Removing a word.
LEMMA RemoveFacts ==
  ASSUME NEW B, IsABag(B), NEW l, NEW R, R = Remove(B, l)
  PROVE  /\ IsABag(R)
         /\ l \notin DOMAIN B => R = B
         /\ R = Removed(B, l)
<1> DEFINE H(w) == B[w] - (IF w = l THEN 1 ELSE 0)
           D == {w \in DOMAIN B : H(w) > 0}
<1>1. /\ \A w \in DOMAIN B : B[w] \in Nat /\ B[w] > 0
      /\ B = [w \in DOMAIN B |-> B[w]]
  BY DEF IsABag
<1>2. \A w \in D : H(w) \in {n \in Nat : n > 0}
  BY <1>1
<1>3. R = [w \in D |-> H(w)]
  <2> DEFINE Q == [e \in DOMAIN B |-> IF e \in DOMAIN SetToBag({l}) THEN B[e] - SetToBag({l})[e] ELSE B[e]]
  <2>1. DOMAIN Q = DOMAIN B /\ \A e \in DOMAIN B : Q[e] = H(e)
    BY <1>1 DEF SetToBag
  <2>2. R = [e \in {f \in DOMAIN Q : Q[f] > 0} |-> Q[e]]
    BY DEF Remove, (-)
  <2> HIDE DEF Q, H
  <2>3. {f \in DOMAIN Q : Q[f] > 0} = {w \in DOMAIN B : H(w) > 0}
    BY <2>1
  <2>. QED
    BY <2>1, <2>2, <2>3
<1>4. l \notin DOMAIN B => R = B
  <2> SUFFICES ASSUME l \notin DOMAIN B PROVE R = B
    OBVIOUS
  <2>1. \A w \in DOMAIN B : H(w) = B[w]
    BY <1>1
  <2>2. D = DOMAIN B
    BY <1>1, <2>1
  <2> HIDE DEF H, D
  <2>. QED
    BY <1>1, <1>3, <2>1, <2>2
<1> HIDE DEF H, D
<1>5. DOMAIN R = D /\ R \in [D -> {n \in Nat : n > 0}]
  BY <1>2, <1>3
<1>6. IsABag(R)
  BY <1>5 DEF IsABag
<1>. QED
  BY <1>3, <1>4, <1>6 DEF D, H, Removed

-----------------------------------------------------------------------------
(* The bag of a tree.                                                      *)
LEMMA BagOfTree ==
  ASSUME NEW X \in [Position -> CellType]
  PROVE  /\ IsABag(BagOf(X)) /\ DOMAIN BagOf(X) = Held(X)
         /\ \A w \in StoredWord : Rank(w) # RankOnes =>
              /\ Has(BagOf(X), w) = Cardinality(Where(X, w)) /\ Cardinality(Where(X, w)) \in Nat
              /\ w \in Held(X) <=> Cardinality(Where(X, w)) # 0
<1>1. ASSUME NEW w PROVE Cardinality(Where(X, w)) \in Nat /\ (Cardinality(Where(X, w)) = 0 <=> Where(X, w) = {})
  <2>1. IsFiniteSet(Where(X, w))
    BY FinitePlaces, FS_Subset DEF Where
  <2>. QED
    BY <2>1, FS_CardinalityType, FS_EmptySet
<1>2. DOMAIN BagOf(X) = Held(X) /\ \A w \in Held(X) : BagOf(X)[w] = Cardinality(Where(X, w))
  BY DEF BagOf
<1>3. \A w \in StoredWord : Rank(w) # RankOnes => (w \in Held(X) <=> Cardinality(Where(X, w)) # 0)
  BY <1>1 DEF Held
<1>4. \A w \in Held(X) : Cardinality(Where(X, w)) > 0
  BY <1>1 DEF Held
<1>5. BagOf(X) \in [Held(X) -> {n \in Nat : n > 0}]
  BY <1>1, <1>4 DEF BagOf
<1>. QED
  BY <1>1, <1>2, <1>3, <1>5 DEF IsABag, Has

\* What a tree holds changes as a bag does: a push adds its word, a pop removes
\* the one it answers, and no other word appears or is lost.
LEMMA BagStep ==
  ASSUME NEW X, NEW cmd, CanStep(X, cmd), NEW Y, Y = NextTree(X, cmd)
  PROVE  /\ cmd.op = "NONE" => BagOf(Y) = BagOf(X)
         /\ cmd.op = "PUSH" => BagOf(Y) = Add(BagOf(X), cmd.data)
         /\ cmd.op = "POP" => BagOf(Y) = Remove(BagOf(X), Least(X[Root].eff))
<1> DEFINE N(w) == Cardinality(Where(X, w))
           M(w) == Cardinality(Where(Y, w))
           B == BagOf(X)
           C == BagOf(Y)
<1>1. X \in [Position -> CellType] /\ Y \in [Position -> CellType]
  BY TreeStep DEF CanStep
<1>2. /\ IsABag(B) /\ DOMAIN B = Held(X)
      /\ \A w \in StoredWord : Rank(w) # RankOnes =>
              Has(B, w) = N(w) /\ N(w) \in Nat /\ (w \in Held(X) <=> N(w) # 0)
  BY <1>1, BagOfTree
<1>3. /\ IsABag(C) /\ DOMAIN C = Held(Y)
      /\ \A w \in StoredWord : Rank(w) # RankOnes =>
              Has(C, w) = M(w) /\ M(w) \in Nat /\ (w \in Held(Y) <=> M(w) # 0)
  BY <1>1, BagOfTree
<1>4. ASSUME NEW w, Rank(w) # RankOnes
      PROVE  M(w) + (IF Off(X, cmd) = w THEN 1 ELSE 0) = N(w) + (IF In(cmd) = w THEN 1 ELSE 0)
  BY <1>4, CopiesStep
<1>5. \A w : w \in Held(X) \/ w \in Held(Y) => w \in StoredWord /\ Rank(w) # RankOnes
  BY DEF Held
<1>6. Rank(AllOnes) = RankOnes
  BY RankRange
<1>7. /\ B = [w \in Held(X) |-> N(w)] /\ C = [w \in Held(Y) |-> M(w)]
      /\ \A w \in Held(X) : B[w] = N(w)
  BY DEF BagOf
<1> HIDE DEF N, M, B, C
<1>8. ASSUME cmd.op = "NONE" PROVE C = B
  <2>1. \A w : Rank(w) # RankOnes => Off(X, cmd) # w /\ In(cmd) # w
    BY <1>6, <1>8 DEF Off, In
  <2>2. \A w \in StoredWord : Rank(w) # RankOnes => M(w) = N(w)
    BY <1>2, <1>3, <1>4, <2>1
  <2>3. Held(X) = Held(Y)
    BY <1>2, <1>3, <1>5, <2>2
  <2>. QED
    BY <1>5, <1>7, <2>2, <2>3
<1>9. ASSUME cmd.op = "PUSH" PROVE C = Add(B, cmd.data)
  <2> DEFINE d == cmd.data
             R == Add(B, d)
  <2>1. d \in StoredWord /\ Rank(d) # RankOnes
    BY <1>9 DEF CanStep
  <2>2. Off(X, cmd) = AllOnes /\ In(cmd) = d
    BY <1>9 DEF Off, In
  <2>3. R = [w \in DOMAIN B \cup {d} |-> Has(B, w) + (IF w = d THEN 1 ELSE 0)]
    <3>1. R = Added(B, d)
      BY <1>2, AddFacts
    <3>. QED
      BY <3>1 DEF Added
  <2> HIDE DEF d, R
  <2>4. \A w \in StoredWord : Rank(w) # RankOnes => M(w) = Has(B, w) + (IF w = d THEN 1 ELSE 0)
    <3> SUFFICES ASSUME NEW w \in StoredWord, Rank(w) # RankOnes
                 PROVE  M(w) = Has(B, w) + (IF w = d THEN 1 ELSE 0)
      OBVIOUS
    <3>1. M(w) \in Nat /\ N(w) \in Nat /\ Has(B, w) = N(w)
      BY <1>2, <1>3
    <3>2. M(w) + (IF Off(X, cmd) = w THEN 1 ELSE 0) = N(w) + (IF In(cmd) = w THEN 1 ELSE 0)
      BY <1>4
    <3>3. Off(X, cmd) # w
      BY <1>6, <2>2
    <3>. QED
      BY <2>2, <3>1, <3>2, <3>3
  <2>5. Held(Y) = DOMAIN B \cup {d}
    <3>1. ASSUME NEW w \in StoredWord, Rank(w) # RankOnes PROVE w \in Held(Y) <=> w \in Held(X) \/ w = d
      BY <1>2, <1>3, <2>4, <3>1
    <3>. QED
      BY <1>2, <1>5, <2>1, <3>1
  <2>6. C = R
    BY <1>5, <1>7, <2>3, <2>4, <2>5
  <2>. QED
    BY <2>6 DEF R, d
<1>10. ASSUME cmd.op = "POP" PROVE C = Remove(B, Least(X[Root].eff))
  <2> DEFINE l == Least(X[Root].eff)
             R == Remove(B, l)
             D == {v \in DOMAIN B : B[v] - (IF v = l THEN 1 ELSE 0) > 0}
  <2>1. Off(X, cmd) = l /\ In(cmd) = AllOnes
    BY <1>10 DEF Off, In
  <2>2. R = [w \in D |-> B[w] - (IF w = l THEN 1 ELSE 0)]
    <3>1. R = Removed(B, l)
      BY <1>2, RemoveFacts
    <3>. QED
      BY <3>1 DEF Removed
  <2> HIDE DEF l, R
  <2>3. \A w \in StoredWord : Rank(w) # RankOnes => M(w) = N(w) - (IF w = l THEN 1 ELSE 0)
    BY <1>2, <1>3, <1>4, <1>6, <2>1
  <2>4. Held(Y) = D
    <3>1. ASSUME NEW w \in StoredWord, Rank(w) # RankOnes PROVE w \in Held(Y) <=> w \in D
      BY <1>2, <1>3, <1>7, <2>3, <3>1
    <3>2. \A w \in D : w \in StoredWord /\ Rank(w) # RankOnes
      BY <1>2, <1>5
    <3> HIDE DEF D
    <3>. QED
      BY <1>5, <3>1, <3>2
  <2>5. \A w \in D : M(w) = B[w] - (IF w = l THEN 1 ELSE 0)
    BY <1>2, <1>5, <1>7, <2>3
  <2> HIDE DEF D
  <2>6. C = R
    BY <1>7, <2>2, <2>4, <2>5
  <2>. QED
    BY <2>6 DEF R, l
<1>. QED
  BY <1>8, <1>9, <1>10 DEF B, C

-----------------------------------------------------------------------------
(* How many words a bag holds.                                             *)
\* The copies of a word in a bag.
LEMMA CopyIn ==
  ASSUME NEW B, NEW w, NEW k
  PROVE  <<w, k>> \in Copies(B) <=> w \in DOMAIN B /\ k \in 1 .. B[w]
  BY DEF Copies

\* A copy is a word and its number.
LEMMA CopyPair ==
  ASSUME NEW B, NEW x \in Copies(B)
  PROVE  x = <<x[1], x[2]>>
<1>1. PICK w \in DOMAIN B : x \in {w} \X (1 .. B[w])
  BY DEF Copies
<1>. QED
  BY <1>1

\* A bag with one copy more, and with one less.
OneMore(B, d, R) == \E k : <<d, k>> \notin Copies(B) /\ Copies(R) = Copies(B) \cup {<<d, k>>}
OneLess(B, l, R) == \E k : <<l, k>> \in Copies(B) /\ Copies(R) = Copies(B) \ {<<l, k>>}

\* One more word.
LEMMA CopiesAdded ==
  ASSUME NEW B, IsABag(B), IsFiniteSet(Copies(B)), NEW d, NEW R, R = Add(B, d)
  PROVE  /\ IsFiniteSet(Copies(R)) /\ Cardinality(Copies(R)) = Cardinality(Copies(B)) + 1
         /\ OneMore(B, d, R)
<1> DEFINE k == Has(B, d) + 1
<1>1. /\ DOMAIN R = DOMAIN B \cup {d}
      /\ R = [w \in DOMAIN B \cup {d} |-> Has(B, w) + (IF w = d THEN 1 ELSE 0)]
  <2>1. R = Added(B, d)
    BY AddFacts
  <2>. QED
    BY <2>1 DEF Added
<1>2. \A w \in DOMAIN B : B[w] \in Nat /\ B[w] > 0
  BY DEF IsABag
<1>3. k \in Nat /\ k > 0 /\ R[d] = k /\ \A w \in DOMAIN B : w # d => R[w] = B[w]
  BY <1>1, <1>2 DEF Has
<1>4. <<d, k>> \notin Copies(B)
  BY <1>2, CopyIn DEF Has
<1>5. \A w, j : <<w, j>> \in Copies(R) <=> <<w, j>> \in Copies(B) \cup {<<d, k>>}
  <2> SUFFICES ASSUME NEW w, NEW j
               PROVE  <<w, j>> \in Copies(R) <=> <<w, j>> \in Copies(B) \cup {<<d, k>>}
    OBVIOUS
  <2>1. <<w, j>> \in Copies(R) <=> w \in DOMAIN R /\ j \in 1 .. R[w]
    BY CopyIn
  <2>2. <<w, j>> \in Copies(B) <=> w \in DOMAIN B /\ j \in 1 .. B[w]
    BY CopyIn
  <2>3. CASE w = d
    <3>1. d \in DOMAIN B => j \in 1 .. k <=> j \in 1 .. B[d] \/ j = k
      BY <1>2 DEF Has
    <3>2. d \notin DOMAIN B => j \in 1 .. k <=> j = k
      BY DEF Has
    <3> HIDE DEF k
    <3>. QED
      BY <1>1, <1>3, <2>1, <2>2, <2>3, <3>1, <3>2
  <2>4. CASE w # d
    BY <1>1, <1>3, <2>1, <2>2, <2>4
  <2>. QED
    BY <2>3, <2>4
<1> HIDE DEF k
<1>6. Copies(R) = Copies(B) \cup {<<d, k>>}
  <2>1. \A x \in Copies(R) : x = <<x[1], x[2]>>
    BY CopyPair
  <2>2. \A x \in Copies(B) : x = <<x[1], x[2]>>
    BY CopyPair
  <2>. QED
    BY <1>5, <2>1, <2>2
<1> DEFINE S == Copies(B)
           x == <<d, k>>
<1>7. IsFiniteSet(S) /\ x \notin S
  BY <1>4
<1> HIDE DEF S, x
<1>8. IsFiniteSet(S \cup {x}) /\ Cardinality(S \cup {x}) = Cardinality(S) + 1
  BY <1>7, FS_AddElement
<1>. QED
  BY <1>4, <1>6, <1>8 DEF S, x, OneMore

\* One word less.
LEMMA CopiesRemoved ==
  ASSUME NEW B, IsABag(B), IsFiniteSet(Copies(B)), NEW l \in DOMAIN B, NEW R, R = Remove(B, l)
  PROVE  /\ IsFiniteSet(Copies(R)) /\ Cardinality(Copies(R)) = Cardinality(Copies(B)) - 1
         /\ OneLess(B, l, R)
<1> DEFINE k == B[l]
           D == {v \in DOMAIN B : B[v] - (IF v = l THEN 1 ELSE 0) > 0}
<1>1. R = [w \in D |-> B[w] - (IF w = l THEN 1 ELSE 0)]
  <2>1. R = Removed(B, l)
    BY RemoveFacts
  <2>. QED
    BY <2>1 DEF Removed
<1>2. \A w \in DOMAIN B : B[w] \in Nat /\ B[w] > 0
  BY DEF IsABag
<1>3. <<l, k>> \in Copies(B)
  BY <1>2, CopyIn
<1>4. \A w, j : <<w, j>> \in Copies(R) <=> <<w, j>> \in Copies(B) \ {<<l, k>>}
  <2> SUFFICES ASSUME NEW w, NEW j
               PROVE  <<w, j>> \in Copies(R) <=> <<w, j>> \in Copies(B) \ {<<l, k>>}
    OBVIOUS
  <2>1. <<w, j>> \in Copies(R) <=> w \in DOMAIN R /\ j \in 1 .. R[w]
    BY CopyIn
  <2>2. <<w, j>> \in Copies(B) <=> w \in DOMAIN B /\ j \in 1 .. B[w]
    BY CopyIn
  <2>3. DOMAIN R = D /\ \A v \in D : R[v] = B[v] - (IF v = l THEN 1 ELSE 0)
    BY <1>1
  <2>4. CASE w = l
    <3>1. l \in D <=> k - 1 > 0
      BY <1>2
    <3>2. l \in D => R[l] = k - 1
      BY <2>3
    <3>3. k \in Nat /\ k > 0
      BY <1>2
    <3>4. <<l, j>> \in Copies(R) <=> j \in 1 .. k - 1
      <4> HIDE DEF D, k
      <4>. QED
        BY <2>1, <2>3, <2>4, <3>1, <3>2, <3>3
    <3>5. <<l, j>> \in Copies(B) <=> j \in 1 .. k
      BY <2>2, <2>4
    <3> HIDE DEF k
    <3>6. <<l, j>> = <<l, k>> <=> j = k
      OBVIOUS
    <3>. QED
      BY <2>4, <3>3, <3>4, <3>5, <3>6
  <2>5. CASE w # l
    <3>1. w \in D <=> w \in DOMAIN B
      BY <1>2, <2>5
    <3>2. w \in D => R[w] = B[w]
      BY <1>2, <2>3, <2>5
    <3> HIDE DEF D
    <3>. QED
      BY <2>1, <2>2, <2>3, <2>5, <3>1, <3>2
  <2>. QED
    BY <2>4, <2>5
<1> HIDE DEF k
<1>5. Copies(R) = Copies(B) \ {<<l, k>>}
  <2>1. \A x \in Copies(R) : x = <<x[1], x[2]>>
    BY CopyPair
  <2>2. \A x \in Copies(B) : x = <<x[1], x[2]>>
    BY CopyPair
  <2>. QED
    BY <1>4, <2>1, <2>2
<1>. QED
  BY <1>3, <1>5, FS_RemoveElement DEF OneLess

-----------------------------------------------------------------------------
(* A pop answers a word of the smallest rank in the tree.                  *)
\* The first node shows the smallest ranks of the tree.
LEMMA RootAbove ==
  ASSUME NEW X \in [Position -> CellType], TreeOK(X)
  PROVE  \A p \in Position, e \in Slot :
           \E b \in Slot : Rank(X[Root].seen.val[b]) <= Rank(X[p].seen.val[e])
<1> DEFINE Above(p, e) == \E b \in Slot : Rank(X[Root].seen.val[b]) <= Rank(X[p].seen.val[e])
           S == {k \in Nat : \A p \in Position, e \in Slot : p[1] = k => Above(p, e)}
<1>1. \A p \in Position, e \in Slot : Rank(X[p].seen.val[e]) \in Nat
  <2> SUFFICES ASSUME NEW p \in Position, NEW e \in Slot PROVE Rank(X[p].seen.val[e]) \in Nat
    OBVIOUS
  <2>1. X[p].seen \in Node
    BY CellTyped
  <2>. QED
    BY <2>1, NodeType, RankRange
<1>2. \A p \in Position : p # Root => p[1] = Parent(p)[1] + 1 /\ Parent(p)[1] \in Nat
  BY ParentPosition, ChildPosition, Positions
<1>3. 0 \in S
  <2> SUFFICES ASSUME NEW p \in Position, NEW e \in Slot, p[1] = 0 PROVE Above(p, e)
    OBVIOUS
  <2>1. p = Root
    BY <1>2
  <2>. QED
    BY <1>1, <2>1
<1>4. ASSUME NEW n \in Nat, n \in S PROVE n + 1 \in S
  <2> SUFFICES ASSUME NEW p \in Position, NEW e \in Slot, p[1] = n + 1 PROVE Above(p, e)
    OBVIOUS
  <2> DEFINE q == Parent(p)
             s == Side(p)
  <2>1. p # Root
    BY DEF Root
  <2>2. q \in Position /\ s \in Slot /\ Inner(q) /\ p = Child(q, s) /\ q[1] = n
    BY <1>2, <2>1, ParentPosition
  <2>3. PICK b \in Slot : Rank(X[Root].seen.val[b]) <= Rank(X[q].seen.val[s])
    BY <1>4, <2>2
  <2>4. Rank(X[q].seen.val[s]) <= Rank(X[p].seen.val[e])
    BY <2>2 DEF TreeOK, CellOK
  <2>5. Root \in Position
    BY Positions
  <2> HIDE DEF q, s
  <2>6. Rank(X[Root].seen.val[b]) <= Rank(X[p].seen.val[e])
    BY <1>1, <2>2, <2>3, <2>4, <2>5
  <2>. QED
    BY <2>3, <2>6
<1> HIDE DEF S
<1>5. \A n \in Nat : n \in S
  BY <1>3, <1>4, SetInduction
<1>6. \A p \in Position : p[1] \in S
  BY <1>5, Positions
<1>. QED
  BY <1>6 DEF S

\* A word of the tree is not before what its node shows.
LEMMA HeldIsSeen ==
  ASSUME NEW X \in [Position -> CellType], TreeOK(X), NEW w \in Held(X)
  PROVE  \E p \in Position, e \in Slot : Rank(X[p].seen.val[e]) <= Rank(w)
<1>1. w \in StoredWord /\ Rank(w) # RankOnes /\ Where(X, w) # {}
  BY DEF Held
<1>2. PICK x \in Place : WordAt(X, x[1], x[2]) = w
  BY <1>1 DEF Where
<1> DEFINE p == x[1]
           k == x[2]
<1>3. p \in Position /\ k \in {0, 1, 2}
  BY DEF Place
<1>4. CellOK(X, p) /\ X[p].slot \in Slot
  BY <1>3, CellTyped DEF TreeOK
<1>5. Rank(w) \in Nat /\ Rank(AllOnes) = RankOnes
  BY <1>1, RankRange
<1>6. CASE k = 2
  <2>1. X[p].word = w
    BY <1>2, <1>6 DEF WordAt
  <2>2. X[p].mode = "PUSH"
    BY <1>1, <1>4, <1>5, <2>1 DEF CellOK
  <2>3. Rank(X[p].seen.val[X[p].slot]) <= Rank(w)
    BY <1>4, <2>1, <2>2 DEF CellOK
  <2>. QED
    BY <1>3, <1>4, <2>3
<1>7. CASE k \in Slot
  <2>1. X[p].eff.val[k] = w
    BY <1>2, <1>7 DEF WordAt, Slot
  <2>2. X[p].seen.val[k] = w
    <3>1. CASE X[p].mode # "POP"
      BY <1>4, <2>1, <3>1 DEF CellOK
    <3>2. CASE X[p].mode = "POP"
      <4> DEFINE n == X[p].seen
                 b == min_data_port(n)
                 m == AfterPop(n)
      <4>1. n \in Node /\ X[p].eff = m
        BY <1>3, <1>4, <3>2, CellTyped DEF CellOK
      <4>2. /\ n.size[b] = 0 => m = n
            /\ n.size[b] # 0 => m.val[b] = AllOnes
            /\ \A c \in Slot : c # b => m.val[c] = n.val[c]
        BY <4>1, AfterPopNode
      <4> HIDE DEF n, b, m
      <4>. QED
        BY <1>1, <1>5, <1>7, <2>1, <4>1, <4>2 DEF n
    <3>. QED
      BY <3>1, <3>2
  <2>. QED
    BY <1>3, <1>5, <1>7, <2>2
<1>. QED
  BY <1>3, <1>6, <1>7 DEF Slot

\* The least word of the first node is the least of the tree.
LEMMA LeastOfTree ==
  ASSUME NEW X \in [Position -> CellType], TreeOK(X), X[Root].mode # "POP",
         NEW l, l = Least(X[Root].eff)
  PROVE  /\ l \in StoredWord
         /\ Sz(X[Root].eff) # 0 => l \in Held(X) /\ \A w \in Held(X) : Rank(l) <= Rank(w)
         /\ Sz(X[Root].eff) = 0 => l = AllOnes /\ Held(X) = {}
<1> DEFINE n == X[Root].eff
           b == min_data_port(n)
<1>1. Root \in Position /\ CellOK(X, Root) /\ X[Root].seen = n
  BY Positions DEF TreeOK, CellOK
<1>2. /\ n \in Node /\ b \in Slot
      /\ Filled(n, b) <=> n.size[b] # 0
      /\ n.size[b] # 0 <=> Sz(n) # 0
      /\ ~Filled(n, b) => n.val[b] = AllOnes
  BY <1>1, LeastFilled
<1>3. l = n.val[b] /\ l \in StoredWord /\ \A c \in Slot : Rank(l) <= Rank(n.val[c])
  BY <1>2, MinDataPort, NodeType DEF Least
<1>4. \A c \in Slot : Rank(n.val[c]) \in Nat
  BY <1>2, NodeType, RankRange
<1>5. Rank(l) \in 0 .. RankOnes /\ RankOnes \in Nat
  BY <1>3, RankRange
<1>6. ASSUME NEW w \in Held(X) PROVE Rank(l) <= Rank(w)
  <2>1. PICK p \in Position, e \in Slot : Rank(X[p].seen.val[e]) <= Rank(w)
    BY HeldIsSeen
  <2>2. PICK c \in Slot : Rank(X[Root].seen.val[c]) <= Rank(X[p].seen.val[e])
    BY RootAbove
  <2>3. X[p].seen \in Node /\ w \in StoredWord
    BY CellTyped DEF Held
  <2>4. Rank(X[p].seen.val[e]) \in Nat /\ Rank(w) \in Nat
    BY <2>3, NodeType, RankRange
  <2>5. Rank(l) <= Rank(n.val[c]) /\ Rank(n.val[c]) <= Rank(X[p].seen.val[e]) /\ Rank(n.val[c]) \in Nat
    BY <1>1, <1>3, <1>4, <2>2
  <2>. QED
    BY <1>5, <2>1, <2>4, <2>5
<1>7. ASSUME Sz(n) # 0 PROVE l \in Held(X)
  <2>1. Rank(l) # RankOnes
    BY <1>2, <1>3, <1>7 DEF Filled
  <2>2. <<Root, b>> \in Place /\ WordAt(X, Root, b) = l
    BY <1>1, <1>2, <1>3 DEF Place, Slot, WordAt
  <2>3. <<Root, b>> \in Where(X, l)
    BY <2>2 DEF Where
  <2>. QED
    BY <1>3, <2>1, <2>3 DEF Held
<1>8. ASSUME Sz(n) = 0 PROVE l = AllOnes /\ Held(X) = {}
  <2>1. l = AllOnes /\ Rank(l) = RankOnes
    BY <1>2, <1>3, <1>8 DEF Filled
  <2>2. \A w \in Held(X) : Rank(w) \in 0 .. RankOnes /\ Rank(w) # RankOnes
    BY RankRange DEF Held
  <2>. QED
    BY <1>5, <1>6, <2>1, <2>2
<1>. QED
  BY <1>3, <1>6, <1>7, <1>8

-----------------------------------------------------------------------------
(* The nodes below a slot.                                                 *)
\* What hangs on a slot: the child, and what hangs on the child.
LEMMA BelowUnfolds ==
  ASSUME NEW p \in Position, NEW b \in Slot
  PROVE  /\ ~Inner(p) => Below(p, b) = {}
         /\ Inner(p) => LET q == Child(p, b)
                        IN  /\ Below(p, b) = {q} \cup Below(q, 0) \cup Below(q, 1)
                            /\ q \notin Below(q, 0) /\ q \notin Below(q, 1)
                            /\ Below(q, 0) \cap Below(q, 1) = {}
<1>1. p[1] \in 0 .. LEVEL - 1 /\ p[2] \in Nat /\ b \in {0, 1}
  BY Positions DEF Slot
<1>2. ~Inner(p) => Below(p, b) = {}
  BY <1>1, Positions, LevelAssumption DEF Below, Inner
<1>3. ASSUME Inner(p)
      PROVE  LET q == Child(p, b)
             IN  /\ Below(p, b) = {q} \cup Below(q, 0) \cup Below(q, 1)
                 /\ q \notin Below(q, 0) /\ q \notin Below(q, 1)
                 /\ Below(q, 0) \cap Below(q, 1) = {}
  <2> DEFINE q == Child(p, b)
  <2>1. q \in Position /\ q[1] = p[1] + 1 /\ q[2] = 2 * p[2] + b /\ q[2] \in Nat
    BY <1>1, <1>3, ChildPosition DEF Child
  <2>a. q = <<q[1], q[2]>>
    BY <2>1, Positions
  <2> HIDE DEF q
  <2>2. ASSUME NEW r \in Position PROVE r \in Below(p, b) <=> r = q \/ r \in Below(q, 0) \/ r \in Below(q, 1)
    <3>1. r[1] \in Nat /\ r[2] \in Nat /\ r = <<r[1], r[2]>> /\ q = <<q[1], q[2]>>
      BY <2>a, Positions
    <3>2. CASE r[1] <= p[1]
      <4>1. r[1] # q[1] /\ ~(r[1] > p[1]) /\ ~(r[1] > q[1])
        BY <1>1, <2>1, <3>1, <3>2
      <4>. QED
        BY <4>1 DEF Below
    <3>3. CASE r[1] = p[1] + 1
      <4>1. r[1] - p[1] - 1 = 0 /\ ~(r[1] > q[1]) /\ r[1] > p[1]
        BY <1>1, <2>1, <3>1, <3>3
      <4>2. r[2] \div 2 ^ 0 = r[2]
        <5>1. 2 ^ 0 = 1 /\ r[2] = 1 * (r[2] \div 1) + (r[2] % 1) /\ r[2] \div 1 \in Nat /\ r[2] % 1 \in 0 .. 0
          BY <3>1, PowerZero, DivMod
        <5>. QED
          BY <5>1
      <4>3. r \in Below(p, b) <=> r[2] = q[2]
        BY <2>1, <4>1, <4>2 DEF Below
      <4>4. r = q <=> r[2] = q[2]
        BY <2>1, <3>1, <3>3
      <4>5. r \notin Below(q, 0) /\ r \notin Below(q, 1)
        BY <4>1 DEF Below
      <4>. QED
        BY <4>3, <4>4, <4>5
    <3>4. CASE r[1] > p[1] + 1
      <4> DEFINE m == r[1] - q[1] - 1
                 x == r[2] \div 2 ^ m
      <4>0. p[1] \in Nat /\ r[1] \in Nat
        BY <1>1, <3>1
      <4>a. m \in Nat /\ r[1] - p[1] - 1 = m + 1 /\ r[1] > q[1] /\ r[1] > p[1]
        BY <4>0, <2>1, <3>4
      <4>b. r # q
        BY <4>a, <4>0, <2>1, <3>4
      <4>1. m \in Nat /\ r[1] - p[1] - 1 = m + 1 /\ r[1] > q[1] /\ r[1] > p[1] /\ r # q
        BY <4>a, <4>b
      <4>2. 2 ^ (m + 1) = 2 * 2 ^ m /\ 2 ^ m \in Nat \ {0}
        BY <4>1, PowerSucc
      <4>3. x \in Nat /\ r[2] \div 2 ^ (m + 1) = x \div 2
        <5> DEFINE a == 2 ^ m
                   y == r[2] % a
        <5>0. a \in Nat \ {0} /\ x = r[2] \div a
          BY <4>2
        <5> HIDE DEF a, x
        <5>1. a \in Nat \ {0} /\ r[2] = a * x + y /\ x \in Nat /\ y \in 0 .. a - 1
          BY <3>1, <5>0, DivMod
        <5>2. x = 2 * (x \div 2) + (x % 2) /\ x \div 2 \in Nat /\ x % 2 \in 0 .. 1
          BY <5>1, DivMod
        <5> DEFINE h == x \div 2
                   z == x % 2
        <5> HIDE DEF a, x, y, h, z
        <5>3. a * x + y = (2 * a) * h + (a * z + y)
          <6>1. a * x = a * (2 * h + z)
            BY <5>2 DEF h, z
          <6>2. h \in Nat /\ z \in Nat
            BY <5>2 DEF h, z
          <6>3. a * (2 * h + z) = (2 * a) * h + a * z
            BY <5>1, <6>2
          <6>4. a * x \in Nat /\ (2 * a) * h \in Nat /\ a * z \in Nat
            BY <5>1, <6>2
          <6>. QED
            BY <5>1, <6>1, <6>3, <6>4
        <5>4. a * z + y \in 0 .. 2 * a - 1
          <6>1. z = 0 \/ z = 1
            BY <5>2 DEF z
          <6>2. CASE z = 0
            <7>1. a * z = 0
              BY <5>1, <6>2
            <7>. QED
              BY <5>1, <7>1
          <6>3. CASE z = 1
            <7>1. a * z = a
              BY <5>1, <6>3
            <7>. QED
              BY <5>1, <7>1
          <6>. QED
            BY <6>1, <6>2, <6>3
        <5> DEFINE c == 2 * a
                   u == a * z + y
        <5>5. c \in Nat \ {0} /\ h \in Nat /\ u \in 0 .. c - 1 /\ r[2] = c * h + u
          BY <5>1, <5>2, <5>3, <5>4 DEF h
        <5> HIDE DEF c, u
        <5>6. r[2] \div c = h
          BY <5>5, DivModUnique
        <5>7. c = 2 ^ (m + 1)
          BY <4>2 DEF c, a
        <5>. QED
          BY <5>1, <5>6, <5>7 DEF h
      <4>4. \A e \in {0, 1} : r \in Below(q, e) <=> x = 2 * q[2] + e
        BY <4>1 DEF Below
      <4>5. r \in Below(p, b) <=> x \div 2 = q[2]
        BY <2>1, <4>1, <4>3 DEF Below
      <4> HIDE DEF x
      <4>6. x = 2 * (x \div 2) + (x % 2) /\ x \div 2 \in Nat /\ x % 2 \in 0 .. 1
        BY <4>3, DivMod
      <4>. QED
        BY <2>1, <4>1, <4>3, <4>4, <4>5, <4>6
    <3>. QED
      BY <1>1, <3>1, <3>2, <3>3, <3>4
  <2>3. \A e : Below(q, e) \subseteq Position /\ q \notin Below(q, e)
    <3>1. q[1] \in Nat
      BY <1>1, <2>1
    <3>. QED
      BY <3>1 DEF Below
  <2>4. Below(q, 0) \cap Below(q, 1) = {}
    BY <2>1 DEF Below
  <2>5. Below(p, b) \subseteq Position
    BY DEF Below
  <2> HIDE DEF q
  <2>6. Below(p, b) = {q} \cup Below(q, 0) \cup Below(q, 1)
    BY <2>1, <2>2, <2>3, <2>5
  <2>. QED
    BY <2>3, <2>4, <2>6 DEF q
<1>. QED
  BY <1>2, <1>3

-----------------------------------------------------------------------------
(* A tree at rest: the facts that TreesInOrder states.                     *)
\* The filled slots of some nodes.
SlotsOf(X, P) == {s \in P \X Slot : Filled(X[s[1]].eff, s[2])}

\* They are finitely many.
LEMMA SlotsFinite ==
  ASSUME NEW X, NEW P, P \subseteq Position
  PROVE  IsFiniteSet(SlotsOf(X, P)) /\ Cardinality(SlotsOf(X, P)) \in Nat
<1>1. SlotsOf(X, P) \subseteq Place
  BY DEF SlotsOf, Place, Slot
<1>. QED
  BY <1>1, FinitePlaces, FS_Subset, FS_CardinalityType

\* Those of two sets of nodes add up.
LEMMA SlotsJoin ==
  ASSUME NEW X, NEW P, P \subseteq Position, NEW Q, Q \subseteq Position, P \cap Q = {}
  PROVE  /\ SlotsOf(X, P \cup Q) = SlotsOf(X, P) \cup SlotsOf(X, Q)
         /\ Cardinality(SlotsOf(X, P \cup Q)) = Cardinality(SlotsOf(X, P)) + Cardinality(SlotsOf(X, Q))
<1> DEFINE S == SlotsOf(X, P)
           T == SlotsOf(X, Q)
<1>1. SlotsOf(X, P \cup Q) = S \cup T
  BY DEF SlotsOf
<1>2. S \cap T = {}
  BY DEF SlotsOf
<1>3. IsFiniteSet(S) /\ IsFiniteSet(T) /\ Cardinality(S) \in Nat /\ Cardinality(T) \in Nat
  BY SlotsFinite
<1> HIDE DEF S, T
<1>4. Cardinality(S \cup T) = Cardinality(S) + Cardinality(T) - Cardinality(S \cap T)
  BY <1>3, FS_Union
<1>5. Cardinality(S \cap T) = 0
  BY <1>2, FS_EmptySet
<1>6. Cardinality(S \cup T) = Cardinality(S) + Cardinality(T)
  BY <1>3, <1>4, <1>5
<1>. QED
  BY <1>1, <1>6 DEF S, T

\* Those of one node.
LEMMA SlotsOfOne ==
  ASSUME NEW X, NEW q \in Position
  PROVE  Cardinality(SlotsOf(X, {q})) = Count(X[q].eff, 0) + Count(X[q].eff, 1)
<1> DEFINE n == X[q].eff
           S(b) == IF Filled(n, b) THEN {<<q, b>>} ELSE {}
<1>1. SlotsOf(X, {q}) = S(0) \cup S(1)
  BY DEF SlotsOf, Slot
<1>2. \A b \in Slot : IsFiniteSet(S(b)) /\ Cardinality(S(b)) = Count(n, b) /\ Count(n, b) \in Nat
  BY FS_EmptySet, FS_Singleton DEF Count
<1>3. S(0) \cap S(1) = {}
  OBVIOUS
<1> HIDE DEF S, n
<1>4. Cardinality(S(0) \cup S(1)) = Cardinality(S(0)) + Cardinality(S(1)) - Cardinality(S(0) \cap S(1))
  BY <1>2, FS_Union DEF Slot
<1>5. Cardinality(S(0) \cap S(1)) = 0
  BY <1>3, FS_EmptySet
<1>6. Cardinality(S(0) \cup S(1)) = Count(n, 0) + Count(n, 1)
  BY <1>2, <1>4, <1>5 DEF Slot
<1>. QED
  BY <1>1, <1>6 DEF n

\* A slot counts what hangs on it, and has the smallest rank of it.
Heads(X, p, b) ==
  /\ X[p].eff.size[b] = Cardinality(SlotsOf(X, Below(p, b))) + Count(X[p].eff, b)
  /\ \A s \in SlotsOf(X, Below(p, b)) : Rank(X[p].eff.val[b]) <= Rank(X[s[1]].eff.val[s[2]])

\* If the slots of a child do, so does the slot above it.
LEMMA HeadsUp ==
  ASSUME NEW X \in [Position -> CellType], TreeOK(X), \A q \in Position : X[q].mode = "NONE",
         NEW p \in Position, NEW b \in Slot, Inner(p), NEW q, q = Child(p, b), \A e \in Slot : Heads(X, q, e)
  PROVE  Heads(X, p, b)
<1>1. q \in Position
  BY ChildPosition
<1>2. /\ Below(p, b) = {q} \cup Below(q, 0) \cup Below(q, 1)
      /\ q \notin Below(q, 0) /\ q \notin Below(q, 1) /\ Below(q, 0) \cap Below(q, 1) = {}
  BY BelowUnfolds
<1>3. Below(q, 0) \subseteq Position /\ Below(q, 1) \subseteq Position /\ {q} \subseteq Position
  BY <1>1 DEF Below
<1> DEFINE P == {q} \cup Below(q, 0)
           C(Q) == Cardinality(SlotsOf(X, Q))
<1>4. /\ SlotsOf(X, P) = SlotsOf(X, {q}) \cup SlotsOf(X, Below(q, 0))
      /\ C(P) = C({q}) + C(Below(q, 0))
  <2>1. {q} \cap Below(q, 0) = {}
    BY <1>2
  <2>. QED
    BY <1>3, <2>1, SlotsJoin
<1>5. /\ SlotsOf(X, Below(p, b)) = SlotsOf(X, P) \cup SlotsOf(X, Below(q, 1))
      /\ C(Below(p, b)) = C(P) + C(Below(q, 1))
  <2>1. P \cap Below(q, 1) = {} /\ P \subseteq Position
    BY <1>2, <1>3
  <2>2. Below(p, b) = P \cup Below(q, 1)
    BY <1>2
  <2> HIDE DEF P
  <2>. QED
    BY <1>3, <2>1, <2>2, SlotsJoin
<1>6. CellOK(X, p) /\ X[p].seen = X[p].eff /\ X[q].seen = X[q].eff /\ X[p].mode = "NONE"
  BY <1>1 DEF TreeOK, CellOK
<1>7. X[p].eff.size[b] = Count(X[p].eff, b) + (X[q].eff.size[0] + X[q].eff.size[1])
  <2>1. X[p].eff.size[b] = Count(X[p].eff, b) + SizeBelow(X, p, b)
    BY <1>6 DEF CellOK
  <2>2. X[q].eff \in Node
    BY <1>1, CellTyped
  <2>3. X[q].eff.size[0] \in Nat /\ X[q].eff.size[1] \in Nat
    BY <2>2, NodeType DEF Slot
  <2>4. SizeBelow(X, p, b) = X[q].eff.size[0] + X[q].eff.size[1]
    BY <1>6, <2>3 DEF SizeBelow
  <2>. QED
    BY <2>1, <2>4
<1>8. /\ X[q].eff.size[0] = C(Below(q, 0)) + Count(X[q].eff, 0)
      /\ X[q].eff.size[1] = C(Below(q, 1)) + Count(X[q].eff, 1)
  BY DEF Heads, Slot
<1>9. C({q}) = Count(X[q].eff, 0) + Count(X[q].eff, 1)
  BY <1>1, SlotsOfOne
<1>10. C(Below(q, 0)) \in Nat /\ C(Below(q, 1)) \in Nat
  BY <1>3, SlotsFinite
<1>11. \A n, e : Count(n, e) \in Nat
  BY DEF Count
<1>12. X[p].eff.size[b] = C(Below(p, b)) + Count(X[p].eff, b)
  <2>1. Count(X[q].eff, 0) \in Nat /\ Count(X[q].eff, 1) \in Nat /\ Count(X[p].eff, b) \in Nat
    BY <1>11
  <2> HIDE DEF C, P
  <2>. QED
    BY <1>4, <1>5, <1>7, <1>8, <1>9, <1>10, <2>1
<1>13. ASSUME NEW s \in SlotsOf(X, Below(p, b))
       PROVE  Rank(X[p].eff.val[b]) <= Rank(X[s[1]].eff.val[s[2]])
  <2>1. s \in SlotsOf(X, {q}) \/ \E e \in Slot : s \in SlotsOf(X, Below(q, e))
    BY <1>4, <1>5 DEF Slot
  <2>2. \A e \in Slot : Rank(X[p].eff.val[b]) <= Rank(X[q].eff.val[e])
    BY <1>6 DEF CellOK
  <2>3. CASE s \in SlotsOf(X, {q})
    <3>1. s[1] = q /\ s[2] \in Slot
      BY <2>3 DEF SlotsOf
    <3>. QED
      BY <2>2, <3>1
  <2>4. ASSUME NEW e \in Slot, s \in SlotsOf(X, Below(q, e))
        PROVE  Rank(X[p].eff.val[b]) <= Rank(X[s[1]].eff.val[s[2]])
    <3>1. Rank(X[q].eff.val[e]) <= Rank(X[s[1]].eff.val[s[2]])
      BY <2>4 DEF Heads
    <3>2. s[1] \in Position /\ s[2] \in Slot
      BY <2>4 DEF SlotsOf, Below
    <3>3. X[p].eff \in Node /\ X[q].eff \in Node /\ X[s[1]].eff \in Node
      BY <1>1, <3>2, CellTyped
    <3>4. Rank(X[p].eff.val[b]) \in Nat /\ Rank(X[q].eff.val[e]) \in Nat /\ Rank(X[s[1]].eff.val[s[2]]) \in Nat
      BY <3>2, <3>3, NodeType, RankRange
    <3>5. Rank(X[p].eff.val[b]) <= Rank(X[q].eff.val[e])
      BY <2>2
    <3>. QED
      BY <3>1, <3>4, <3>5
  <2>. QED
    BY <2>1, <2>3, <2>4
<1>. QED
  BY <1>12, <1>13 DEF Heads

\* So all slots of a tree at rest do, from the leaves upwards.
LEMMA AllHeads ==
  ASSUME NEW X \in [Position -> CellType], TreeOK(X), \A p \in Position : X[p].mode = "NONE"
  PROVE  \A p \in Position, b \in Slot : Heads(X, p, b)
<1> DEFINE S == {k \in Nat : \A p \in Position, b \in Slot : p[1] + k = LEVEL - 1 => Heads(X, p, b)}
<1>1. \A p \in Position : p[1] \in Nat /\ p[1] <= LEVEL - 1
  BY Positions, LevelAssumption
<1>2. 0 \in S
  <2> SUFFICES ASSUME NEW p \in Position, NEW b \in Slot, p[1] + 0 = LEVEL - 1 PROVE Heads(X, p, b)
    OBVIOUS
  <2>1. ~Inner(p)
    BY <1>1, LevelAssumption DEF Inner
  <2>2. Below(p, b) = {}
    BY <2>1, BelowUnfolds
  <2>3. SlotsOf(X, Below(p, b)) = {}
    BY <2>2 DEF SlotsOf
  <2>4. Cardinality(SlotsOf(X, Below(p, b))) = 0
    BY <2>3, FS_EmptySet
  <2>5. X[p].eff.size[b] = Count(X[p].eff, b) + 0
    BY <2>1 DEF TreeOK, CellOK, SizeBelow
  <2>6. Count(X[p].eff, b) \in Nat
    BY DEF Count
  <2>. QED
    BY <2>3, <2>4, <2>5, <2>6 DEF Heads
<1>3. ASSUME NEW n \in Nat, n \in S PROVE n + 1 \in S
  <2> SUFFICES ASSUME NEW p \in Position, NEW b \in Slot, p[1] + (n + 1) = LEVEL - 1 PROVE Heads(X, p, b)
    OBVIOUS
  <2>1. Inner(p)
    BY <1>1, LevelAssumption DEF Inner
  <2> DEFINE q == Child(p, b)
  <2>2. q \in Position /\ q[1] = p[1] + 1
    BY <2>1, ChildPosition
  <2>3. q[1] + n = LEVEL - 1
    BY <1>1, <2>2, LevelAssumption
  <2>4. \A e \in Slot : Heads(X, q, e)
    BY <1>3, <2>2, <2>3
  <2>. QED
    BY <2>1, <2>4, HeadsUp
<1> HIDE DEF S
<1>4. \A n \in Nat : n \in S
  BY <1>2, <1>3, SetInduction
<1>5. ASSUME NEW p \in Position, NEW b \in Slot PROVE Heads(X, p, b)
  <2>1. (LEVEL - 1) - p[1] \in Nat /\ p[1] + ((LEVEL - 1) - p[1]) = LEVEL - 1
    BY <1>1, LevelAssumption
  <2>2. (LEVEL - 1) - p[1] \in S
    BY <1>4, <2>1
  <2>. QED
    BY <2>1, <2>2 DEF S
<1>. QED
  BY <1>5

\* At rest the words of a tree are those in its slots.
LEMMA BagInSlots ==
  ASSUME NEW X \in [Position -> CellType], TreeOK(X), \A p \in Position : X[p].mode = "NONE"
  PROVE  BagOf(X) = LET S == SlotsOf(X, Position)
                        V(s) == X[s[1]].eff.val[s[2]]
                    IN  [w \in {V(s) : s \in S} |-> Cardinality({s \in S : V(s) = w})]
<1> DEFINE S == SlotsOf(X, Position)
           V(s) == X[s[1]].eff.val[s[2]]
<1>1. ASSUME NEW w, Rank(w) # RankOnes PROVE Where(X, w) = {s \in S : V(s) = w}
  <2>1. ASSUME NEW p \in Position, NEW k \in {0, 1, 2}
        PROVE  <<p, k>> \in Where(X, w) <=> <<p, k>> \in {s \in S : V(s) = w}
    <3>1. CASE k = 2
      <4>1. X[p].word = AllOnes
        BY DEF TreeOK, CellOK
      <4>2. <<p, k>> \notin Where(X, w)
        BY <1>1, <3>1, <4>1, RankRange DEF Where, WordAt
      <4>3. <<p, k>> \notin S
        BY <3>1 DEF SlotsOf, Slot
      <4>. QED
        BY <4>2, <4>3
    <3>2. CASE k \in Slot
      <4>1. <<p, k>> \in Where(X, w) <=> X[p].eff.val[k] = w
        BY <3>2 DEF Where, Place, WordAt, Slot
      <4>2. <<p, k>> \in S <=> Rank(X[p].eff.val[k]) # RankOnes
        BY <3>2 DEF SlotsOf, Filled
      <4>. QED
        BY <1>1, <4>1, <4>2
    <3>. QED
      BY <3>1, <3>2 DEF Slot
  <2>2. ASSUME NEW x \in Where(X, w) PROVE x \in {s \in S : V(s) = w}
    <3>1. x[1] \in Position /\ x[2] \in {0, 1, 2} /\ x = <<x[1], x[2]>>
      BY <2>2 DEF Where, Place
    <3>2. <<x[1], x[2]>> \in Where(X, w)
      BY <2>2, <3>1
    <3>3. <<x[1], x[2]>> \in {s \in S : V(s) = w}
      BY <2>1, <3>1, <3>2
    <3>. QED
      BY <3>1, <3>3
  <2>3. ASSUME NEW x \in {s \in S : V(s) = w} PROVE x \in Where(X, w)
    <3>1. x[1] \in Position /\ x[2] \in {0, 1, 2} /\ x = <<x[1], x[2]>>
      BY <2>3 DEF SlotsOf, Slot
    <3>2. <<x[1], x[2]>> \in {s \in S : V(s) = w}
      BY <2>3, <3>1
    <3>3. <<x[1], x[2]>> \in Where(X, w)
      BY <2>1, <3>1, <3>2
    <3>. QED
      BY <3>1, <3>3
  <2>. QED
    BY <2>2, <2>3
<1>2. ASSUME NEW s \in S PROVE V(s) \in StoredWord /\ Rank(V(s)) # RankOnes
  <2>1. s[1] \in Position /\ s[2] \in Slot /\ Filled(X[s[1]].eff, s[2])
    BY <1>2 DEF SlotsOf
  <2>2. X[s[1]].eff \in Node
    BY <2>1, CellTyped
  <2>. QED
    BY <2>1, <2>2, NodeType DEF Filled
<1> HIDE DEF S, V
<1>3. \A w : Rank(w) # RankOnes => Where(X, w) = {s \in S : V(s) = w}
  BY <1>1
<1>4. Held(X) = {V(s) : s \in S}
  <2>1. ASSUME NEW w \in Held(X) PROVE w \in {V(s) : s \in S}
    BY <1>3, <2>1 DEF Held
  <2>2. ASSUME NEW s \in S PROVE V(s) \in Held(X)
    <3>1. s \in {u \in S : V(u) = V(s)}
      BY <2>2
    <3>. QED
      BY <1>2, <1>3, <2>2, <3>1 DEF Held
  <2>. QED
    BY <2>1, <2>2
<1>5. \A w \in Held(X) : Where(X, w) = {s \in S : V(s) = w}
  BY <1>3 DEF Held
<1>6. BagOf(X) = [w \in {V(s) : s \in S} |-> Cardinality({s \in S : V(s) = w})]
  BY <1>4, <1>5 DEF BagOf
<1>. QED
  BY <1>6 DEF S, V

-----------------------------------------------------------------------------
(* Different nodes have different places in the SRAMs.                     *)
\* Different levels of a group of trees share an RPU without overlap.
LEMMA LevelsApart ==
  ASSUME NEW k \in RPU, NEW l \in RPU, NEW k2 \in RPU, NEW l2 \in RPU,
         (k + l) % LEVEL = (k2 + l2) % LEVEL, l < l2
  PROVE  \/ lo(l2)[k2] + 2 ^ l2 <= lo(l)[k]
         \/ lo(l)[k] + 2 ^ l <= lo(l2)[k2]
<1> DEFINE x == lo(l)[k]
           y == lo(l2)[k2]
           i == (k + l) % LEVEL
<1>1. /\ LEVEL \in Nat \ {0} /\ l \in 0 .. LEVEL - 1 /\ l2 \in 0 .. LEVEL - 1
      /\ k \in 0 .. LEVEL - 1 /\ k2 \in 0 .. LEVEL - 1
  BY LevelAssumption DEF RPU
<1>2. ASSUME NEW a \in 0 .. LEVEL - 1, NEW b \in 0 .. LEVEL - 1
      PROVE  /\ a + b < LEVEL => (a + b) % LEVEL = a + b
             /\ a + b >= LEVEL => (a + b) % LEVEL = a + b - LEVEL
  <2>1. CASE a + b < LEVEL
    BY <1>1, <2>1, ModSmall
  <2>2. CASE a + b >= LEVEL
    <3>1. a + b - LEVEL \in 0 .. LEVEL - 1 /\ a + b = LEVEL * 1 + (a + b - LEVEL)
      BY <1>1, <2>2
    <3>2. (LEVEL * 1 + (a + b - LEVEL)) % LEVEL = a + b - LEVEL
      BY <1>1, <3>1, DivModUnique
    <3>. QED
      BY <2>2, <3>1, <3>2, <1>1
  <2>. QED
    BY <2>1, <2>2, <1>1
<1>3. /\ x \in Nat
      /\ k + l < LEVEL => x + 2 ^ (l + 1) = 2 ^ (k + l + 1)
      /\ k + l >= LEVEL => x + 2 ^ (l + 1) = (2 ^ LEVEL + 2 ^ (k + l + 1 - LEVEL)) - 1
  BY <1>1, LoIsLoop, LoopValue
<1>4. /\ y \in Nat
      /\ k2 + l2 < LEVEL => y + 2 ^ (l2 + 1) = 2 ^ (k2 + l2 + 1)
      /\ k2 + l2 >= LEVEL => y + 2 ^ (l2 + 1) = (2 ^ LEVEL + 2 ^ (k2 + l2 + 1 - LEVEL)) - 1
  BY <1>1, LoIsLoop, LoopValue
<1>5. i \in 0 .. LEVEL - 1
  BY <1>1
<1>6. /\ k + l < LEVEL => x + 2 ^ (l + 1) = 2 ^ (i + 1) /\ l <= i
      /\ k + l >= LEVEL => x + 2 ^ (l + 1) = (2 ^ LEVEL + 2 ^ (i + 1)) - 1 /\ l > i
      /\ k2 + l2 < LEVEL => y + 2 ^ (l2 + 1) = 2 ^ (i + 1) /\ l2 <= i
      /\ k2 + l2 >= LEVEL => y + 2 ^ (l2 + 1) = (2 ^ LEVEL + 2 ^ (i + 1)) - 1 /\ l2 > i
  <2>1. /\ k + l < LEVEL => i = k + l
        /\ k + l >= LEVEL => i = k + l - LEVEL
    BY <1>1, <1>2
  <2>2. /\ k2 + l2 < LEVEL => i = k2 + l2
        /\ k2 + l2 >= LEVEL => i = k2 + l2 - LEVEL
    BY <1>1, <1>2
  <2> HIDE DEF x, y, i
  <2>. QED
    BY <1>1, <1>3, <1>4, <1>5, <2>1, <2>2
<1> HIDE DEF x, y, i
<1>7. /\ 2 ^ (l + 1) = 2 * 2 ^ l /\ 2 ^ l \in Nat \ {0}
      /\ 2 ^ (l2 + 1) = 2 * 2 ^ l2 /\ 2 ^ l2 \in Nat \ {0} /\ 2 ^ (i + 1) \in Nat /\ 2 ^ LEVEL \in Nat
  BY <1>1, <1>5, PowerSucc
<1>8. 2 ^ (l + 1) <= 2 ^ l2
  <2>1. l + 1 \in Nat /\ l2 \in Nat /\ l + 1 <= l2
    BY <1>1
  <2>. QED
    BY <2>1, PowerMonotone
<1>9. 2 ^ (l2 + 1) <= 2 ^ LEVEL
  <2>1. l2 + 1 \in Nat /\ LEVEL \in Nat /\ l2 + 1 <= LEVEL
    BY <1>1
  <2>. QED
    BY <2>1, PowerMonotone
<1> DEFINE A == 2 ^ l
           B == 2 ^ l2
           C == 2 ^ (i + 1)
           D == 2 ^ LEVEL
<1>10. /\ A \in Nat \ {0} /\ B \in Nat \ {0} /\ C \in Nat /\ D \in Nat
       /\ 2 * A <= B /\ 2 * B <= D
       /\ k + l < LEVEL => x + 2 * A = C /\ l <= i
       /\ k + l >= LEVEL => x + 2 * A = (D + C) - 1 /\ l > i
       /\ k2 + l2 < LEVEL => y + 2 * B = C /\ l2 <= i
       /\ k2 + l2 >= LEVEL => y + 2 * B = (D + C) - 1 /\ l2 > i
  BY <1>6, <1>7, <1>8, <1>9
<1>11. (k + l < LEVEL \/ k + l >= LEVEL) /\ (k2 + l2 < LEVEL \/ k2 + l2 >= LEVEL)
       /\ l < l2 /\ i \in Int /\ l \in Int /\ l2 \in Int
  BY <1>1, <1>5
<1>12. y + B <= x \/ x + A <= y
  <2> HIDE DEF A, B, C, D
  <2>. QED
    BY <1>3, <1>4, <1>10, <1>11
<1>. QED
  BY <1>12 DEF x, y

\* Two trees or levels on an RPU have no address in common.
LEMMA AddrUnique ==
  ASSUME NEW t \in TreeId, NEW l \in RPU, NEW a \in Nat, a < 2 ^ l,
         NEW u \in TreeId, NEW m \in RPU, NEW c \in Nat, c < 2 ^ m,
         (t + l) % LEVEL = (u + m) % LEVEL,
         offset[t][l] + a = offset[u][m] + c
  PROVE  t = u /\ l = m /\ a = c
<1> DEFINE h == t \div LEVEL
           k == t % LEVEL
           h2 == u \div LEVEL
           k2 == u % LEVEL
           w == 2 ^ LEVEL - 1
           x == lo(l)[k]
           y == lo(m)[k2]
<1>1. LEVEL \in Nat \ {0} /\ l \in 0 .. LEVEL - 1 /\ m \in 0 .. LEVEL - 1 /\ t \in Nat /\ u \in Nat
  BY LevelAssumption, TreeIdAssumption DEF RPU
<1>2. h \in Nat /\ k \in RPU /\ t = LEVEL * h + k /\ h2 \in Nat /\ k2 \in RPU /\ u = LEVEL * h2 + k2
  BY <1>1, DivMod DEF RPU
<1>3. 2 ^ l \in Nat \ {0} /\ 2 ^ m \in Nat \ {0} /\ 2 ^ LEVEL \in Nat \ {0} /\ w \in Nat
  BY <1>1, PowerSucc
<1>4. x \in Nat /\ x + 2 ^ l <= w /\ y \in Nat /\ y + 2 ^ m <= w
  BY <1>1, <1>2, LoIsLoop, LoopBound DEF RPU
<1>5. offset[t][l] = h * w + x /\ offset[u][m] = h2 * w + y
  BY <1>1 DEF offset
<1>6. ASSUME NEW q \in Nat, NEW j \in RPU, NEW e \in RPU
      PROVE  ((LEVEL * q + j) + e) % LEVEL = (j + e) % LEVEL
  <2>1. j + e \in Nat
    BY <1>1 DEF RPU
  <2>2. j + e = LEVEL * ((j + e) \div LEVEL) + ((j + e) % LEVEL)
        /\ (j + e) \div LEVEL \in Nat /\ (j + e) % LEVEL \in 0 .. LEVEL - 1
    BY <1>1, <2>1, DivMod
  <2> DEFINE d == (j + e) \div LEVEL
             n == (j + e) % LEVEL
  <2>3. (LEVEL * q + j) + e = LEVEL * (q + d) + n
    <3>1. j \in Int /\ e \in Int /\ LEVEL \in Int /\ q \in Int /\ d \in Int /\ n \in Int /\ j + e = LEVEL * d + n
      BY <1>1, <2>2 DEF RPU
    <3> HIDE DEF d, n
    <3>2. LEVEL * (q + d) = LEVEL * q + LEVEL * d
      BY <3>1
    <3>3. LEVEL * q \in Int /\ LEVEL * d \in Int
      BY <3>1
    <3>. QED
      BY <3>1, <3>2, <3>3
  <2>4. q + d \in Nat /\ n \in 0 .. LEVEL - 1
    BY <2>2
  <2> HIDE DEF d, n
  <2>5. (LEVEL * (q + d) + n) % LEVEL = n
    BY <1>1, <2>4, DivModUnique
  <2>. QED
    BY <2>3, <2>5 DEF n
<1>7. (k + l) % LEVEL = (k2 + m) % LEVEL
  <2>1. (t + l) % LEVEL = (k + l) % LEVEL /\ (u + m) % LEVEL = (k2 + m) % LEVEL
    <3> HIDE DEF h, k, h2, k2
    <3>. QED
      BY <1>2, <1>6
  <2>. QED
    BY <2>1
<1>8. h * w + (x + a) = h2 * w + (y + c) /\ x + a < w /\ y + c < w
      /\ x + a \in Nat /\ y + c \in Nat
  <2> DEFINE E == h * w
             F == h2 * w
  <2>1. E \in Int /\ F \in Int
    <3> HIDE DEF h, h2, w
    <3>. QED
      BY <1>2, <1>3
  <2>2. E + x + a = F + y + c
    BY <1>5
  <2> HIDE DEF E, F, h, h2, k, k2, w, x, y
  <2>3. E + (x + a) = F + (y + c) /\ x + a < w /\ y + c < w
      /\ x + a \in Nat /\ y + c \in Nat
    BY <1>3, <1>4, <2>1, <2>2
  <2>. QED
    BY <2>3 DEF E, F
<1>9. h = h2 /\ x + a = y + c
  <2> HIDE DEF h, h2, k, k2, x, y, w
  <2>1. w \in Nat \ {0} /\ x + a \in 0 .. w - 1 /\ y + c \in 0 .. w - 1
    BY <1>3, <1>8
  <2>2. w * h = h * w /\ w * h2 = h2 * w
    BY <1>2, <1>3
  <2>3. w * h + (x + a) = w * h2 + (y + c)
    BY <1>8, <2>2
  <2>4. (w * h + (x + a)) \div w = h /\ (w * h + (x + a)) % w = x + a
    BY <1>2, <2>1, DivModUnique
  <2>5. (w * h2 + (y + c)) \div w = h2 /\ (w * h2 + (y + c)) % w = y + c
    BY <1>2, <2>1, DivModUnique
  <2>. QED
    BY <2>3, <2>4, <2>5
<1>10. l = m
  <2> HIDE DEF h, h2, k, k2
  <2>1. ~(l < m)
    <3> SUFFICES ASSUME l < m PROVE FALSE
      OBVIOUS
    <3>1. y + 2 ^ m <= x \/ x + 2 ^ l <= y
      BY <1>2, <1>7, LevelsApart
    <3> HIDE DEF x, y
    <3>. QED
      BY <1>3, <1>4, <1>9, <3>1
  <2>2. ~(m < l)
    <3> SUFFICES ASSUME m < l PROVE FALSE
      OBVIOUS
    <3>1. x + 2 ^ l <= y \/ y + 2 ^ m <= x
      BY <1>2, <1>7, LevelsApart
    <3> HIDE DEF x, y
    <3>. QED
      BY <1>3, <1>4, <1>9, <3>1
  <2>. QED
    BY <1>1, <2>1, <2>2
<1>11. k = k2
  <2>1. k \in Nat /\ k2 \in Nat /\ k < LEVEL /\ k2 < LEVEL /\ l < LEVEL /\ l \in Nat /\ LEVEL \in Nat
    BY <1>1, <1>2 DEF RPU
  <2> HIDE DEF h, h2, k, k2
  <2>2. (k + l) % LEVEL = (k2 + l) % LEVEL
    BY <1>7, <1>10
  <2>3. k + l = LEVEL * ((k + l) \div LEVEL) + ((k + l) % LEVEL)
        /\ k2 + l = LEVEL * ((k2 + l) \div LEVEL) + ((k2 + l) % LEVEL)
        /\ (k + l) \div LEVEL \in Nat /\ (k2 + l) \div LEVEL \in Nat
        /\ (k + l) % LEVEL \in Nat
    <3>1. k + l \in Nat /\ k2 + l \in Nat
      BY <2>1
    <3>2. 0 .. LEVEL - 1 \subseteq Nat
      BY <1>1
    <3>. QED
      BY <1>1, <3>1, <3>2, DivMod
  <2> DEFINE d == (k + l) \div LEVEL
             e == (k2 + l) \div LEVEL
             n == (k + l) % LEVEL
  <2>4. k + l = LEVEL * d + n /\ k2 + l = LEVEL * e + n /\ d \in Nat /\ e \in Nat /\ n \in Nat
    BY <2>2, <2>3
  <2> HIDE DEF d, e, n
  <2>5. d < e => LEVEL * e >= LEVEL * d + LEVEL
    <3> SUFFICES ASSUME d < e PROVE LEVEL * e >= LEVEL * d + LEVEL
      OBVIOUS
    <3>1. e - d - 1 \in Nat /\ LEVEL * (e - d - 1) \in Nat
      BY <2>1, <2>4
    <3>2. LEVEL * (e - d - 1) = LEVEL * e - LEVEL * d - LEVEL
      BY <2>1, <2>4
    <3>3. LEVEL * e \in Int /\ LEVEL * d \in Int
      BY <2>1, <2>4
    <3>. QED
      BY <2>1, <3>1, <3>2, <3>3
  <2>6. e < d => LEVEL * d >= LEVEL * e + LEVEL
    <3> SUFFICES ASSUME e < d PROVE LEVEL * d >= LEVEL * e + LEVEL
      OBVIOUS
    <3>1. d - e - 1 \in Nat /\ LEVEL * (d - e - 1) \in Nat
      BY <2>1, <2>4
    <3>2. LEVEL * (d - e - 1) = LEVEL * d - LEVEL * e - LEVEL
      BY <2>1, <2>4
    <3>3. LEVEL * e \in Int /\ LEVEL * d \in Int
      BY <2>1, <2>4
    <3>. QED
      BY <2>1, <3>1, <3>2, <3>3
  <2>7. LEVEL * e \in Int /\ LEVEL * d \in Int
    BY <2>1, <2>4
  <2>8. d = e
    BY <2>1, <2>4, <2>5, <2>6, <2>7
  <2>9. LEVEL * d = LEVEL * e
    BY <2>8
  <2>. QED
    BY <2>1, <2>4, <2>7, <2>9
<1>12. x = y
  BY <1>10, <1>11
<1>. QED
  <2> HIDE DEF x, y, h, h2, k, k2
  <2>. QED
    BY <1>2, <1>4, <1>9, <1>10, <1>11, <1>12

-----------------------------------------------------------------------------
(* The wires between the RPUs.                                             *)
\* RPU i, not deaf, hears a command.
Hears(i) == IF rpu[i].fsm = "POP" THEN "NONE"
            ELSE IF Up(i).push THEN "PUSH" ELSE IF Up(i).pop THEN "POP" ELSE "NONE"

\* Its wires show the node at p of tree t.
Names(i, t, p) == Up(i).tree = t /\ Up(i).level = p[1] /\ Up(i).addr = p[2]

\* What is heard at the node at p of tree t.
Heard(t, p) == IF Names(Host(t, p), t, p) THEN Hears(Host(t, p)) ELSE "NONE"

\* RPU j works on a push or a pop and has it handed on for the first time.
Passes(j) == HandsOn(j, "PUSH") \/ HandsOn(j, "POP")

\* What the prediction says of RPU i and the one before.
LEMMA WireFacts ==
  ASSUME TypeInv, NEW i \in RPU
  PROVE  /\ ~(rpu_push_new[i] /\ rpu_pop_new[i])
         /\ rpu_push_new[i] \/ rpu_pop_new[i] =>
              rpu[i].fsm # "POP" /\ ~Passes(Pred(i)) /\ ~HandsOn(Pred(i), "WB")
         /\ Passes(Pred(i)) => rpu[i].fsm # "POP"
         /\ HandsOn(Pred(i), "WB") => rpu[i].fsm = "POP"
<1>1. /\ rpu_push[i] <=> rpu_state[i] = "PUSH"
      /\ rpu_pop[i] <=> rpu_state[i] = "POP"
      /\ Behind(i) /\ NewPredicted(i) /\ HandedPredicted(i)
  BY DEF TypeInv, TopInv, InStep, PathInv, IInv, EveryCommandTaken
<1>2. Pred(i) \in RPU /\ rpu[Pred(i)].level \in Nat
  BY PredRPU DEF TypeInv, TopInv, RPUsTyped, RPU
<1>3. Passes(Pred(i)) => rpu_level[i] # 0
  <2>1. Passes(Pred(i)) => rpu_level[i] = rpu[Pred(i)].level + 1
    BY <1>1 DEF Passes, HandedPredicted
  <2>. QED
    BY <1>2, <2>1
<1>. QED
  BY <1>1, <1>3 DEF Behind, NewPredicted, HandedPredicted, Passes

\* What the RPU before puts on the wires.
LEMMA HandedWires ==
  ASSUME TypeInv, NEW i \in RPU, ~rpu_push_new[i], ~rpu_pop_new[i]
  PROVE  LET j == Pred(i)
             r == rpu[j]
             b == port(r, rdata[j])
         IN  /\ Up(i).push <=> HandsOn(j, "PUSH") /\ Filled(rdata[j], b)
             /\ Up(i).pop <=> HandsOn(j, "POP") \/ HandsOn(j, "WB")
             /\ r.level < LEVEL - 1 => Up(i).level = r.level + 1
             /\ r.level = LEVEL - 1 => Up(i).level = LEVEL \/ Up(i).level = 0
             /\ r.fsm # "IDLE" /\ r.level < LEVEL - 1 => Up(i).addr = 2 * r.addr + b
             /\ Up(i).tree = r.tree
             /\ Up(i).push => Up(i).data = HandedOn(rdata[j], r.latch)
<1> DEFINE j == Pred(i)
           r == rpu[j]
           b == port(r, rdata[j])
           dn == down(r, rdata[j])
<1>1. j \in RPU
  BY PredRPU
<1>2. /\ Up(i).push = dn.push /\ Up(i).pop = dn.pop /\ Up(i).level = dn.level
      /\ Up(i).addr = dn.addr /\ Up(i).tree = dn.tree /\ Up(i).data = dn.data
  <2>1. rpu_push_new[i] = FALSE /\ rpu_pop_new[i] = FALSE
    BY DEF TypeInv, TopInv, PathInv, IInv, TypeOK
  <2>2. dn.push \in BOOLEAN /\ dn.pop \in BOOLEAN
    BY DEF down
  <2>. QED
    BY <2>1, <2>2 DEF Up
<1>3. /\ r.level \in 0 .. LEVEL - 1 /\ r.addr \in Nat /\ r.addr < 2 ^ r.level
      /\ LEVEL \in Nat /\ LEVEL >= 2
  BY <1>1, LevelAssumption DEF TypeInv, TopTypeOK, RPU
<1>4. b \in {0, 1}
  BY PortSlot DEF Slot
<1>5. /\ dn.push <=> r.fsm = "PUSH" /\ Rank(rdata[j].val[b]) # RankOnes /\ r.level < LEVEL - 1
      /\ dn.pop <=> Popping(r) /\ r.level < LEVEL - 1
      /\ dn.level = (r.level + 1) % LevelSpan /\ dn.tree = r.tree
      /\ r.fsm # "IDLE" => dn.addr = (2 * r.addr + b) % 2 ^ (LEVEL - 1)
      /\ dn.push => dn.data = IF Displaces(r, rdata[j].val[b]) THEN rdata[j].val[b] ELSE r.latch
  BY DEF down
<1>6. dn.push => b = min_sub_tree(rdata[j])
  BY <1>5 DEF port, Popping
<1>7. dn.push => dn.data = HandedOn(rdata[j], r.latch)
  BY <1>5, <1>6 DEF HandedOn, Displaces, Yields
<1> HIDE DEF j, r, b, dn
<1>8. LevelSpan \in Nat /\ LevelSpan >= LEVEL
  BY <1>3, LevelSpanRange
<1>9. r.level < LEVEL - 1 => dn.level = r.level + 1
  <2> SUFFICES ASSUME r.level < LEVEL - 1 PROVE dn.level = r.level + 1
    OBVIOUS
  <2>1. r.level + 1 \in 0 .. LevelSpan - 1 /\ LevelSpan \in Nat \ {0}
    BY <1>3, <1>8
  <2>. QED
    BY <2>1, <1>5, ModSmall
<1>10. r.level = LEVEL - 1 => dn.level = LEVEL \/ dn.level = 0
  <2> SUFFICES ASSUME r.level = LEVEL - 1 PROVE dn.level = LEVEL \/ dn.level = 0
    OBVIOUS
  <2>1. r.level + 1 = LEVEL
    BY <1>3
  <2>2. CASE LevelSpan = LEVEL
    <3>1. LEVEL % LEVEL = 0
      <4>1. LEVEL = LEVEL * 1 + 0 /\ 0 \in 0 .. LEVEL - 1 /\ LEVEL \in Nat \ {0}
        BY <1>3
      <4>2. (LEVEL * 1 + 0) % LEVEL = 0
        BY <4>1, DivModUnique
      <4>. QED
        BY <4>1, <4>2
    <3>. QED
      BY <1>5, <2>1, <2>2, <3>1
  <2>3. CASE LevelSpan # LEVEL
    <3>1. LEVEL \in 0 .. LevelSpan - 1 /\ LevelSpan \in Nat \ {0}
      BY <1>3, <1>8, <2>3
    <3>. QED
      BY <1>5, <2>1, <3>1, ModSmall
  <2>. QED
    BY <2>2, <2>3
<1>11. r.fsm # "IDLE" /\ r.level < LEVEL - 1 => dn.addr = 2 * r.addr + b
  <2> SUFFICES ASSUME r.fsm # "IDLE", r.level < LEVEL - 1 PROVE dn.addr = 2 * r.addr + b
    OBVIOUS
  <2>1. r.level + 1 \in Nat /\ LEVEL - 1 \in Nat /\ r.level + 1 <= LEVEL - 1 /\ r.level \in Nat
    BY <1>3
  <2>2. 2 ^ (r.level + 1) <= 2 ^ (LEVEL - 1) /\ 2 ^ (LEVEL - 1) \in Nat \ {0}
        /\ 2 ^ (r.level + 1) = 2 * 2 ^ r.level /\ 2 ^ r.level \in Nat
    BY <2>1, PowerMonotone, PowerSucc
  <2>3. 2 * r.addr + b \in 0 .. 2 ^ (LEVEL - 1) - 1
    BY <1>3, <1>4, <2>2
  <2>. QED
    BY <1>5, <2>2, <2>3, ModSmall
<1>12. /\ Up(i).push <=> HandsOn(j, "PUSH") /\ Filled(rdata[j], b)
       /\ Up(i).pop <=> HandsOn(j, "POP") \/ HandsOn(j, "WB")
  BY <1>2, <1>5 DEF HandsOn, Filled, Popping, r
<1>. QED
  BY <1>2, <1>5, <1>7, <1>9, <1>10, <1>11, <1>12 DEF j, r, b

\* What a new command puts on them.
LEMMA NewWires ==
  ASSUME TypeInv, NEW i \in RPU, rpu_push_new[i] \/ rpu_pop_new[i]
  PROVE  /\ Issue(i).op = (IF rpu_push_new[i] THEN "PUSH" ELSE "POP")
         /\ Issue(i).tree = rpu_treeId[i]
         /\ rpu_push_new[i] => Issue(i).data = Up(i).data
         /\ Up(i).tree = Issue(i).tree /\ Up(i).level = 0 /\ Up(i).addr = 0
         /\ Hears(i) = Issue(i).op
         /\ rpu[i].fsm # "POP" /\ (Up(i).push <=> ~Up(i).pop)
<1>1. /\ ~(rpu_push_new[i] /\ rpu_pop_new[i]) /\ rpu[i].fsm # "POP"
      /\ ~Passes(Pred(i)) /\ ~HandsOn(Pred(i), "WB")
  BY WireFacts
<1>2. LET dn == down(rpu[Pred(i)], rdata[Pred(i)]) IN ~dn.push /\ ~dn.pop
  BY <1>1 DEF down, Popping, Passes, HandsOn
<1>3. /\ Up(i).push <=> rpu_push_new[i]
      /\ Up(i).pop <=> rpu_pop_new[i]
      /\ rpu_push_new[i] => Up(i).data = rpu_push_data[i]
      /\ Up(i).level = 0 /\ Up(i).addr = 0 /\ Up(i).tree = rpu_treeId[i]
  BY <1>2 DEF Up
<1>4. CASE rpu_push_new[i]
  <2>1. Issue(i) = [op |-> "PUSH", tree |-> rpu_treeId[i], data |-> rpu_push_data[i]]
    BY <1>4 DEF Issue
  <2>. QED
    BY <1>1, <1>3, <1>4, <2>1 DEF Hears
<1>5. CASE ~rpu_push_new[i] /\ rpu_pop_new[i]
  <2>1. Issue(i) = [op |-> "POP", tree |-> rpu_treeId[i]]
    BY <1>5 DEF Issue
  <2>. QED
    BY <1>1, <1>3, <1>5, <2>1 DEF Hears
<1>. QED
  BY <1>4, <1>5

\* Nothing is started: what is heard comes from the RPU before.
LEMMA HeardFromBefore ==
  ASSUME TypeInv, NEW i \in RPU, ~rpu_push_new[i], ~rpu_pop_new[i]
  PROVE  /\ Issue(i).op = "NONE"
         /\ Hears(i) = "PUSH" <=> HandsOn(Pred(i), "PUSH")
                                    /\ Filled(rdata[Pred(i)], min_sub_tree(rdata[Pred(i)]))
         /\ Hears(i) = "POP" <=> HandsOn(Pred(i), "POP")
         /\ Hears(i) \in {"NONE", "PUSH", "POP"}
         /\ rpu[i].fsm # "POP" => ~(Up(i).push /\ Up(i).pop)
<1> DEFINE j == Pred(i)
<1>1. /\ Up(i).push <=> HandsOn(j, "PUSH") /\ Filled(rdata[j], port(rpu[j], rdata[j]))
      /\ Up(i).pop <=> HandsOn(j, "POP") \/ HandsOn(j, "WB")
  BY HandedWires
<1>2. HandsOn(j, "PUSH") => port(rpu[j], rdata[j]) = min_sub_tree(rdata[j])
  BY DEF HandsOn, port, Popping
<1>3. /\ Passes(j) => rpu[i].fsm # "POP"
      /\ HandsOn(j, "WB") => rpu[i].fsm = "POP"
  BY WireFacts
<1>4. ~(HandsOn(j, "PUSH") /\ HandsOn(j, "POP"))
  BY DEF HandsOn
<1>5. Issue(i).op = "NONE"
  BY DEF Issue
<1>. QED
  BY <1>1, <1>2, <1>3, <1>4, <1>5 DEF Hears, Passes

-----------------------------------------------------------------------------
(* What the RPU of a node hears is what the tree machine gives the node.   *)
\* The RPUs that the levels of a tree are on.
LEMMA HostFacts ==
  ASSUME NEW t \in TreeId, NEW p \in Position
  PROVE  /\ Host(t, p) \in RPU
         /\ p # Root => Host(t, Parent(p)) = Pred(Host(t, p))
         /\ \A b \in Slot : Inner(p) => Host(t, Child(p, b)) = Succ(Host(t, p))
         /\ Host(t, Root) = t % LEVEL
<1>1. p[1] \in 0 .. LEVEL - 1 /\ t \in Nat /\ LEVEL \in Nat \ {0}
  BY Positions, TreeIdAssumption, LevelAssumption
<1>2. \A x \in Nat : x % LEVEL \in 0 .. LEVEL - 1
  BY <1>1, DivMod
<1>3. \A x \in Nat : /\ x % LEVEL < LEVEL - 1 => (x + 1) % LEVEL = (x % LEVEL) + 1
                     /\ x % LEVEL = LEVEL - 1 => (x + 1) % LEVEL = 0
  BY <1>1, ModSucc
<1>4. Host(t, p) \in RPU
  <2>1. t + p[1] \in Nat
    BY <1>1
  <2>. QED
    BY <1>2, <2>1 DEF Host, RPU
<1>5. ASSUME p # Root PROVE Host(t, Parent(p)) = Pred(Host(t, p))
  <2>1. Parent(p)[1] = p[1] - 1 /\ Parent(p) \in Position
    BY <1>5, ParentPosition DEF Parent
  <2>2. p[1] - 1 \in Nat
    BY <2>1, Positions
  <2> DEFINE x == t + (p[1] - 1)
  <2>3. x \in Nat /\ x + 1 = t + p[1]
    BY <1>1, <2>2
  <2>4. Host(t, Parent(p)) = x % LEVEL /\ Host(t, p) = (x + 1) % LEVEL
    BY <2>1, <2>3 DEF Host
  <2> HIDE DEF x
  <2>5. x % LEVEL \in 0 .. LEVEL - 1
    BY <1>2, <2>3
  <2>. QED
    <3>1. CASE x % LEVEL < LEVEL - 1
      <4>1. (x + 1) % LEVEL = (x % LEVEL) + 1 /\ (x % LEVEL) + 1 # 0 /\ ((x % LEVEL) + 1) - 1 = x % LEVEL
        BY <1>3, <2>3, <2>5, <3>1
      <4>. QED
        BY <2>4, <4>1 DEF Pred
    <3>2. CASE x % LEVEL = LEVEL - 1
      BY <1>3, <2>3, <2>4, <3>2 DEF Pred
    <3>. QED
      BY <1>1, <2>5, <3>1, <3>2
<1>6. ASSUME NEW b \in Slot, Inner(p) PROVE Host(t, Child(p, b)) = Succ(Host(t, p))
  <2>1. Child(p, b)[1] = p[1] + 1
    BY <1>6, ChildPosition
  <2> DEFINE x == t + p[1]
  <2>3. x \in Nat /\ x + 1 = t + (p[1] + 1)
    BY <1>1
  <2>4. Host(t, Child(p, b)) = (x + 1) % LEVEL /\ Host(t, p) = x % LEVEL
    BY <2>1, <2>3 DEF Host
  <2> HIDE DEF x
  <2>5. x % LEVEL \in 0 .. LEVEL - 1
    BY <1>2, <2>3
  <2>. QED
    <3>1. CASE x % LEVEL < LEVEL - 1
      <4>1. (x + 1) % LEVEL = (x % LEVEL) + 1
        BY <1>3, <2>3, <3>1
      <4>2. x % LEVEL # LEVEL - 1
        BY <1>1, <2>5, <3>1
      <4>. QED
        BY <2>4, <4>1, <4>2 DEF Succ
    <3>2. CASE x % LEVEL = LEVEL - 1
      BY <1>3, <2>3, <2>4, <3>2 DEF Succ
    <3>. QED
      BY <1>1, <2>5, <3>1, <3>2
<1>7. Host(t, Root) = t % LEVEL
  BY <1>1 DEF Host, Root
<1>. QED
  BY <1>4, <1>5, <1>6, <1>7

\* What goes on at a node, as its RPU has it.
LEMMA ModeAt ==
  ASSUME TypeInv, NEW t \in TreeId, NEW p \in Position
  PROVE  LET i == Host(t, p)
             c == Tree(t)[p]
         IN  /\ c.mode = "POP" <=> On(t, p) /\ rpu[i].fsm = "POP"
             /\ c.mode = "PUSH" <=> On(t, p) /\ rpu[i].fsm = "PUSH" /\ GoesOn(rdata[i], p)
             /\ c.mode \in {"NONE", "PUSH", "POP"}
             /\ c.mode = "POP" => c.slot = min_data_port(rdata[i])
             /\ c.mode = "PUSH" => c.slot = min_sub_tree(rdata[i]) /\ c.word = HandedOn(rdata[i], rpu[i].latch)
<1> DEFINE i == Host(t, p)
<1>1. i \in RPU
  BY HostFacts
<1>2. Tree(t)[p] = Cell(t, p)
  BY DEF Tree
<1>3. rpu[i].fsm \in {"IDLE", "PUSH", "POP", "WB"}
  BY <1>1 DEF TypeInv, TopTypeOK
<1>4. On(t, p) => rpu[i].fsm # "IDLE"
  BY DEF On
<1>5. CASE On(t, p) /\ rpu[i].fsm = "PUSH"
  <2>1. Cell(t, p) = PushCell(rdata[i], rpu[i].latch, p)
    BY <1>5 DEF Cell
  <2>. QED
    BY <1>2, <1>5, <2>1 DEF PushCell
<1>6. CASE On(t, p) /\ rpu[i].fsm = "POP"
  <2>1. Cell(t, p) = PopCell(rdata[i])
    BY <1>6 DEF Cell
  <2>. QED
    BY <1>2, <1>6, <2>1 DEF PopCell
<1>7. CASE On(t, p) /\ rpu[i].fsm = "WB"
  <2>1. Cell(t, p) = RestCell(wdata(rpu[i], rdata[i], pop_data_dn(i)))
    BY <1>7 DEF Cell
  <2>. QED
    BY <1>2, <1>7, <2>1 DEF RestCell
<1>8. CASE ~On(t, p)
  <2>1. Cell(t, p) = RestCell(NodeAt(t, p))
    BY <1>8 DEF Cell
  <2>. QED
    BY <1>2, <1>8, <2>1 DEF RestCell
<1>. QED
  BY <1>3, <1>4, <1>5, <1>6, <1>7, <1>8

\* At a root, what is given is what is heard.
LEMMA RootHears ==
  ASSUME TypeInv, NEW t \in TreeId
  PROVE  /\ Cmd(t).op = Heard(t, Root)
         /\ Cmd(t).op = "PUSH" => Cmd(t).data = Up(Host(t, Root)).data
         /\ Cmd(t).op \in {"NONE", "PUSH", "POP"}
<1> DEFINE i == Host(t, Root)
<1>1. i \in RPU /\ i = t % LEVEL
  BY HostFacts, Positions
<1>2. Root[1] = 0 /\ Root[2] = 0
  BY DEF Root
<1>3. Cmd(t) = IF Issue(i).op # "NONE" /\ Issue(i).tree = t THEN Issue(i) ELSE [op |-> "NONE"]
  BY <1>1 DEF Cmd
<1>4. CASE rpu_push_new[i] \/ rpu_pop_new[i]
  <2>1. /\ Issue(i).op = (IF rpu_push_new[i] THEN "PUSH" ELSE "POP")
        /\ rpu_push_new[i] => Issue(i).data = Up(i).data
        /\ Up(i).tree = Issue(i).tree /\ Up(i).level = 0 /\ Up(i).addr = 0
        /\ Hears(i) = Issue(i).op
    BY <1>1, <1>4, NewWires
  <2>2. Heard(t, Root) = IF Issue(i).tree = t THEN Issue(i).op ELSE "NONE"
    BY <1>2, <2>1 DEF Heard, Names
  <2>3. CASE Issue(i).tree = t
    BY <1>3, <2>1, <2>2, <2>3
  <2>4. CASE Issue(i).tree # t
    BY <1>3, <2>2, <2>4
  <2>. QED
    BY <2>3, <2>4
<1>5. CASE ~rpu_push_new[i] /\ ~rpu_pop_new[i]
  <2> DEFINE j == Pred(i)
  <2>1. /\ Issue(i).op = "NONE" /\ Hears(i) \in {"NONE", "PUSH", "POP"}
        /\ Hears(i) # "NONE" => HandsOn(j, "PUSH") \/ HandsOn(j, "POP")
    BY <1>1, <1>5, HeardFromBefore
  <2>2. rpu[j].level < LEVEL - 1 => Up(i).level = rpu[j].level + 1
    BY <1>1, <1>5, HandedWires
  <2>3. rpu[j].level \in Nat
    BY <1>1, PredRPU DEF TypeInv, TopTypeOK, RPU
  <2>4. Hears(i) # "NONE" => Up(i).level # 0
    BY <2>1, <2>2, <2>3 DEF HandsOn
  <2>5. Heard(t, Root) = "NONE"
    BY <1>2, <2>4 DEF Heard, Names
  <2>. QED
    BY <1>3, <2>1, <2>5
<1>. QED
  BY <1>4, <1>5

\* Below it, what is given is heard too.
LEMMA InnerHears ==
  ASSUME TypeInv, NEW t \in TreeId, NEW p \in Position, p # Root, NEW cmd
  PROVE  /\ Given(Tree(t), cmd, p) = Heard(t, p)
         /\ Heard(t, p) = "PUSH" => GivenWord(Tree(t), cmd, p) = Up(Host(t, p)).data
<1> DEFINE i == Host(t, p)
           q == Parent(p)
           j == Host(t, q)
           b == port(rpu[j], rdata[j])
           c == Tree(t)[q]
<1>1. q \in Position /\ Inner(q) /\ p = Child(q, Side(p)) /\ Side(p) \in {0, 1}
  BY ParentPosition DEF Slot
<1>2. i \in RPU /\ j \in RPU /\ j = Pred(i)
  BY <1>1, HostFacts
<1>3. q[1] \in Nat /\ q[2] \in Nat /\ p[1] = q[1] + 1 /\ p[2] = 2 * q[2] + Side(p)
      /\ q[1] < LEVEL - 1
  BY <1>1, Positions DEF Child, Inner
<1>4. /\ c.mode = "POP" <=> On(t, q) /\ rpu[j].fsm = "POP"
      /\ c.mode = "PUSH" <=> On(t, q) /\ rpu[j].fsm = "PUSH" /\ GoesOn(rdata[j], q)
      /\ c.mode \in {"NONE", "PUSH", "POP"}
      /\ c.mode = "POP" => c.slot = min_data_port(rdata[j])
      /\ c.mode = "PUSH" => c.slot = min_sub_tree(rdata[j]) /\ c.word = HandedOn(rdata[j], rpu[j].latch)
  BY <1>1, ModeAt
<1>5. rpu[j].level \in 0 .. LEVEL - 1 /\ rpu[j].addr \in Nat /\ b \in {0, 1}
      /\ LEVEL \in Nat
  BY <1>2, PortSlot, LevelAssumption DEF TypeInv, TopTypeOK, RPU, Slot
<1>6. /\ Given(Tree(t), cmd, p) = IF c.slot = Side(p) THEN c.mode ELSE "NONE"
      /\ GivenWord(Tree(t), cmd, p) = c.word
  BY DEF Given, GivenWord
<1>7. On(t, q) <=> /\ rpu[j].fsm # "IDLE" /\ rpu[j].tree = t
                   /\ rpu[j].level = q[1] /\ rpu[j].addr = q[2]
  BY DEF On
<1>8. /\ rpu[j].fsm = "POP" => b = min_data_port(rdata[j])
      /\ rpu[j].fsm = "PUSH" => b = min_sub_tree(rdata[j])
  BY DEF port, Popping
<1>9. CASE rpu_push_new[i] \/ rpu_pop_new[i]
  <2>1. Up(i).level = 0 /\ ~Passes(j)
    BY <1>2, <1>9, NewWires, WireFacts
  <2>2. Heard(t, p) = "NONE"
    BY <1>3, <2>1 DEF Heard, Names
  <2>3. c.mode = "NONE"
    BY <1>3, <1>4, <1>7, <2>1 DEF Passes, HandsOn
  <2>. QED
    BY <1>6, <2>2, <2>3
<1>10. CASE ~rpu_push_new[i] /\ ~rpu_pop_new[i]
  <2>1. /\ rpu[j].level < LEVEL - 1 => Up(i).level = rpu[j].level + 1
        /\ rpu[j].fsm # "IDLE" /\ rpu[j].level < LEVEL - 1 => Up(i).addr = 2 * rpu[j].addr + b
        /\ Up(i).tree = rpu[j].tree
        /\ Up(i).push => Up(i).data = HandedOn(rdata[j], rpu[j].latch)
    BY <1>2, <1>10, HandedWires
  <2>2. /\ Hears(i) = "PUSH" <=> HandsOn(j, "PUSH") /\ Filled(rdata[j], min_sub_tree(rdata[j]))
        /\ Hears(i) = "POP" <=> HandsOn(j, "POP")
        /\ Hears(i) \in {"NONE", "PUSH", "POP"}
    BY <1>2, <1>10, HeardFromBefore
  <2>3. Hears(i) = "PUSH" => Up(i).data = HandedOn(rdata[j], rpu[j].latch)
    BY <2>1 DEF Hears
  <2>4. Heard(t, p) = IF Names(i, t, p) THEN Hears(i) ELSE "NONE"
    BY DEF Heard
  <2>5. ASSUME HandsOn(j, "PUSH") \/ HandsOn(j, "POP")
        PROVE  Names(i, t, p) <=> On(t, q) /\ b = Side(p)
    <3>1. Up(i).level = rpu[j].level + 1 /\ Up(i).addr = 2 * rpu[j].addr + b /\ Up(i).tree = rpu[j].tree
          /\ rpu[j].fsm # "IDLE"
      BY <2>1, <2>5 DEF HandsOn
    <3>2. Names(i, t, p) <=> rpu[j].tree = t /\ rpu[j].level + 1 = q[1] + 1
                              /\ 2 * rpu[j].addr + b = 2 * q[2] + Side(p)
      BY <1>3, <3>1 DEF Names
    <3> DEFINE ja == rpu[j].addr
               jl == rpu[j].level
               sp == Side(p)
    <3>3. jl \in Nat /\ ja \in Nat /\ sp \in {0, 1} /\ b \in {0, 1} /\ q[1] \in Nat /\ q[2] \in Nat
      BY <1>1, <1>3, <1>5
    <3>4. (jl + 1 = q[1] + 1 <=> jl = q[1]) /\ (2 * ja + b = 2 * q[2] + sp <=> ja = q[2] /\ b = sp)
      <4>1. \A m, n \in Nat : m + 1 = n + 1 <=> m = n
        OBVIOUS
      <4>3. jl + 1 = q[1] + 1 <=> jl = q[1]
        BY <3>3, <4>1
      <4>4. 2 * ja + b = 2 * q[2] + sp <=> ja = q[2] /\ b = sp
        <5>1. ja \in Nat /\ q[2] \in Nat /\ b \in {0, 1} /\ sp \in {0, 1}
          BY <3>3
        <5> HIDE DEF ja, b, sp, q
        <5>. QED
          <6> DEFINE qa == q[2]
          <6>1. qa \in Nat
            BY <5>1
          <6> HIDE DEF qa
          <6>2. 2 * ja + b = 2 * qa + sp <=> ja = qa /\ b = sp
            BY <5>1, <6>1
          <6>. QED
            BY <6>2 DEF qa
      <4>. QED
        BY <4>3, <4>4, Zenon
    <3>. QED
      BY <1>7, <3>1, <3>2, <3>4
  <2>6. CASE HandsOn(j, "PUSH")
    <3>1. rpu[j].fsm = "PUSH" /\ b = min_sub_tree(rdata[j]) /\ Hears(i) # "POP"
      BY <1>8, <2>2, <2>6 DEF HandsOn
    <3>2. GoesOn(rdata[j], q) <=> Filled(rdata[j], min_sub_tree(rdata[j]))
      BY <1>1 DEF GoesOn
    <3>3. Names(i, t, p) <=> On(t, q) /\ b = Side(p)
      BY <2>5, <2>6
    <3>4. c.mode # "POP"
      BY <1>4, <3>1
    <3> HIDE DEF b, c, i, j, q
    <3>. QED
      <4>1. CASE On(t, q) /\ GoesOn(rdata[j], q)
        <5>1. c.mode = "PUSH" /\ c.slot = b /\ Hears(i) = "PUSH" /\ c.word = Up(i).data
          BY <1>4, <2>2, <2>3, <2>6, <3>1, <3>2, <4>1
        <5>. QED
          BY <1>6, <2>4, <3>3, <4>1, <5>1 DEF i
      <4>2. CASE ~(On(t, q) /\ GoesOn(rdata[j], q))
        <5>1. c.mode = "NONE"
          BY <1>4, <3>1, <3>4, <4>2
        <5>2. Heard(t, p) = "NONE"
          BY <2>2, <2>4, <2>6, <3>1, <3>2, <3>3, <4>2
        <5>. QED
          BY <1>6, <5>1, <5>2
      <4>. QED
        BY <4>1, <4>2
  <2>7. CASE HandsOn(j, "POP")
    <3>1. rpu[j].fsm = "POP" /\ b = min_data_port(rdata[j]) /\ Hears(i) = "POP"
      BY <1>8, <2>2, <2>7 DEF HandsOn
    <3>3. Names(i, t, p) <=> On(t, q) /\ b = Side(p)
      BY <2>5, <2>7
    <3>4. c.mode # "PUSH"
      BY <1>4, <3>1
    <3> HIDE DEF b, c, i, j, q
    <3>. QED
      BY <1>4, <1>6, <2>4, <3>1, <3>3, <3>4
  <2>8. CASE ~HandsOn(j, "PUSH") /\ ~HandsOn(j, "POP")
    <3>1. Heard(t, p) = "NONE"
      BY <2>2, <2>4, <2>8
    <3>2. c.mode = "NONE"
      BY <1>3, <1>4, <1>7, <2>8 DEF HandsOn
    <3>. QED
      BY <1>6, <3>1, <3>2
  <2>. QED
    BY <2>6, <2>7, <2>8
<1>. QED
  BY <1>9, <1>10

\* What a node is given in the tree is what its RPU hears, and an RPU in POP hears nothing.
LEMMA GivenIsHeard ==
  ASSUME TypeInv, NEW t \in TreeId, NEW p \in Position
  PROVE  /\ Given(Tree(t), Cmd(t), p) = Heard(t, p)
         /\ Heard(t, p) = "PUSH" => GivenWord(Tree(t), Cmd(t), p) = Up(Host(t, p)).data
         /\ Tree(t)[p].mode = "POP" => Given(Tree(t), Cmd(t), p) = "NONE"
<1>1. /\ Given(Tree(t), Cmd(t), p) = Heard(t, p)
      /\ Heard(t, p) = "PUSH" => GivenWord(Tree(t), Cmd(t), p) = Up(Host(t, p)).data
  <2>1. CASE p = Root
    <3>1. /\ Cmd(t).op = Heard(t, Root)
          /\ Cmd(t).op = "PUSH" => Cmd(t).data = Up(Host(t, Root)).data
      BY RootHears
    <3>. QED
      BY <2>1, <3>1 DEF Given, GivenWord
  <2>2. CASE p # Root
    BY <2>2, InnerHears
  <2>. QED
    BY <2>1, <2>2
<1>2. Tree(t)[p].mode = "POP" => rpu[Host(t, p)].fsm = "POP"
  BY ModeAt
<1>3. Tree(t)[p].mode = "POP" => Heard(t, p) = "NONE"
  BY <1>2 DEF Heard, Hears
<1>. QED
  BY <1>1, <1>3

-----------------------------------------------------------------------------
(* What the RPUs write.                                                    *)
\* An RPU after a clock edge, by what it hears.
LEMMA NextRegisters ==
  ASSUME TypeInv, RPUClock, NEW i \in RPU
  PROVE  LET n == rpu'[i]
             up == Up(i)
         IN  /\ rpu[i].fsm = "POP" =>
                  /\ n.fsm = "WB" /\ n.tree = rpu[i].tree
                  /\ n.level = rpu[i].level /\ n.addr = rpu[i].addr
                  /\ Hears(i) = "NONE" /\ rdata'[i] = rdata[i]
             /\ Hears(i) # "NONE" =>
                  /\ rpu[i].fsm # "POP" /\ n.fsm = Hears(i)
                  /\ n.tree = up.tree /\ n.level = up.level /\ n.addr = up.addr
                  /\ Hears(i) = "PUSH" => n.latch = up.data
                  /\ rdata'[i] = sram'[i][offset[up.tree][up.level] + up.addr]
             /\ rpu[i].fsm # "POP" /\ Hears(i) = "NONE" => n.fsm = "IDLE" /\ n.level = 0
             /\ Hears(i) \in {"NONE", "PUSH", "POP"}
<1> DEFINE up == Up(i)
<1>1. rpu'[i] = RPU_nxt(rpu[i], up) /\ sram'[i] = SRAM_write(i)
      /\ rdata'[i] = SRAM_read(i, up, SRAM_write(i))
  BY DEF RPUClock
<1>2. rpu[i].fsm # "POP" => ~(up.push /\ up.pop)
  <2>1. CASE rpu_push_new[i] \/ rpu_pop_new[i]
    BY <2>1, NewWires
  <2>2. CASE ~rpu_push_new[i] /\ ~rpu_pop_new[i]
    BY <2>2, HeardFromBefore
  <2>. QED
    BY <2>1, <2>2
<1>3. Hears(i) = IF rpu[i].fsm = "POP" THEN "NONE"
                 ELSE IF up.push THEN "PUSH" ELSE IF up.pop THEN "POP" ELSE "NONE"
  BY DEF Hears
<1>4. DOMAIN rpu[i] = Registers
  BY DEF TypeInv, TopInv, RPUsTyped
<1> HIDE DEF up
<1>5. CASE rpu[i].fsm = "POP"
  <2>1. rpu'[i] = [rpu[i] EXCEPT !.fsm = "WB"]
    BY <1>1, <1>5 DEF RPU_nxt
  <2>2. rdata'[i] = rdata[i]
    BY <1>1, <1>5 DEF SRAM_read, read
  <2>. QED
    BY <1>3, <1>4, <1>5, <2>1, <2>2 DEF Registers
<1>6. CASE rpu[i].fsm # "POP" /\ up.push
  <2>1. rpu'[i] = [fsm |-> "PUSH", latch |-> up.data, addr |-> up.addr,
                   level |-> up.level, tree |-> up.tree]
    BY <1>1, <1>2, <1>6 DEF RPU_nxt
  <2>2. rdata'[i] = sram'[i][offset[up.tree][up.level] + up.addr]
    BY <1>1, <1>6 DEF SRAM_read, read
  <2>. QED
    BY <1>3, <1>6, <2>1, <2>2 DEF up
<1>7. CASE rpu[i].fsm # "POP" /\ ~up.push /\ up.pop
  <2>1. rpu'[i] = [fsm |-> "POP", latch |-> 0, addr |-> up.addr,
                   level |-> up.level, tree |-> up.tree]
    BY <1>1, <1>7 DEF RPU_nxt
  <2>2. rdata'[i] = sram'[i][offset[up.tree][up.level] + up.addr]
    BY <1>1, <1>7 DEF SRAM_read, read
  <2>. QED
    BY <1>3, <1>7, <2>1, <2>2 DEF up
<1>8. CASE rpu[i].fsm # "POP" /\ ~up.push /\ ~up.pop
  <2>1. rpu'[i] = ResetRegisters
    BY <1>1, <1>8 DEF RPU_nxt
  <2>. QED
    BY <1>3, <1>8, <2>1 DEF ResetRegisters
<1>. QED
  BY <1>5, <1>6, <1>7, <1>8

\* What a push and a pop write is what the tree has.
LEMMA PushWrites ==
  ASSUME NEW r, r.fsm = "PUSH", NEW n, NEW w
  PROVE  wdata(r, n, w) = AfterPush(n, r.latch)
<1>1. ~Popping(r) /\ port(r, n) = min_sub_tree(n)
  BY DEF Popping, port
<1>2. \A v : Displaces(r, v) <=> Yields(v, r.latch)
  BY DEF Displaces, Yields
<1> DEFINE b == min_sub_tree(n)
<1>3. wdata(r, n, w) = [n EXCEPT !.size[b] = (@ + 1) % 2 ^ CTW,
                                 !.val[b] = IF Displaces(r, @) THEN r.latch ELSE @]
  BY <1>1 DEF wdata
<1> DEFINE d == IF Displaces(r, n.val[b]) THEN r.latch ELSE n.val[b]
           e == IF Yields(n.val[b], r.latch) THEN r.latch ELSE n.val[b]
<1>4. d = e
  BY <1>2
<1>5. AfterPush(n, r.latch) = [n EXCEPT !.size[b] = (@ + 1) % 2 ^ CTW, !.val[b] = e]
  BY DEF AfterPush
<1>6. wdata(r, n, w) = [n EXCEPT !.size[b] = (@ + 1) % 2 ^ CTW, !.val[b] = d]
  BY <1>3
<1> HIDE DEF b, d, e
<1>. QED
  BY <1>4, <1>5, <1>6

\* What an RPU writes in WB.
LEMMA PopWrites ==
  ASSUME NEW r, r.fsm = "WB", NEW n \in Node, NEW w \in StoredWord
  PROVE  LET b == min_data_port(n)
         IN  wdata(r, n, w) = IF n.size[b] = 0 THEN AfterPop(n)
                              ELSE [AfterPop(n) EXCEPT !.val[b] = w]
<1> DEFINE b == min_data_port(n)
<1>1. Popping(r) /\ port(r, n) = b
  BY DEF Popping, port
<1>2. CASE n.size[b] = 0
  <2>1. wdata(r, n, w) = n
    BY <1>1, <1>2 DEF wdata, Popping
  <2>. QED
    BY <1>2, <2>1, AfterPopNode
<1>3. CASE n.size[b] # 0
  <2>1. wdata(r, n, w) = [n EXCEPT !.size[b] = @ - 1, !.val[b] = w]
    BY <1>1, <1>3 DEF wdata
  <2>2. AfterPop(n) = [n EXCEPT !.size[b] = @ - 1, !.val[b] = AllOnes]
    BY <1>3 DEF AfterPop
  <2>3. n.size \in [Slot -> 0 .. 2 ^ CTW - 1] /\ n.val \in [Slot -> StoredWord] /\ b \in Slot
        /\ n = [size |-> n.size, val |-> n.val]
    BY MinDataPort DEF Node
  <2> HIDE DEF b
  <2>4. [AfterPop(n) EXCEPT !.val[b] = w] = [n EXCEPT !.size[b] = @ - 1, !.val[b] = w]
    <3> DEFINE s == [n.size EXCEPT ![b] = @ - 1]
               v == [n.val EXCEPT ![b] = AllOnes]
    <3>1. AfterPop(n) = [size |-> s, val |-> v]
      BY <2>2, <2>3
    <3> DEFINE u == [n.val EXCEPT ![b] = w]
    <3>2. [n EXCEPT !.size[b] = @ - 1, !.val[b] = w] = [size |-> s, val |-> u]
      <4>1. n.val[b] \in StoredWord /\ DOMAIN n.val = Slot /\ DOMAIN n.size = Slot
            /\ DOMAIN n = {"size", "val"}
        BY <2>3
      <4>2. [n EXCEPT !.size[b] = @ - 1, !.val[b] = w] = [[n EXCEPT !.size[b] = @ - 1] EXCEPT !.val[b] = w]
        OBVIOUS
      <4>3. [n EXCEPT !.size[b] = @ - 1] = [size |-> s, val |-> n.val]
        BY <2>3
      <4>4. [[size |-> s, val |-> n.val] EXCEPT !.val[b] = w] = [size |-> s, val |-> u]
        OBVIOUS
      <4>. QED
        BY <4>2, <4>3, <4>4
    <3>3. [v EXCEPT ![b] = w] = u
      BY <2>3
    <3> HIDE DEF s, u, v
    <3>. QED
      BY <3>1, <3>2, <3>3
  <2>. QED
    BY <1>3, <2>1, <2>4 DEF b
<1>. QED
  BY <1>2, <1>3

\* The memory after a clock edge, at a node where no pop has just begun.
LEMMA MemoryAfter ==
  ASSUME TypeInv, RPUClock, NEW t \in TreeId, NEW p \in Position,
         ~(On(t, p) /\ rpu[Host(t, p)].fsm = "POP")
  PROVE  sram'[Host(t, p)][offset[t][p[1]] + p[2]] = Tree(t)[p].eff
<1> DEFINE i == Host(t, p)
           r == rpu[i]
           a == offset[t][p[1]] + p[2]
<1>1. i \in RPU /\ i = (t + p[1]) % LEVEL
  BY HostFacts DEF Host
<1>2. sram'[i] = SRAM_write(i)
  BY <1>1 DEF RPUClock
<1>3. p[1] \in RPU /\ p[2] \in Nat /\ p[2] < 2 ^ p[1]
  BY Positions DEF RPU
<1>4. a \in SRAMAddr
  BY <1>3, AddrInRange
<1>5. /\ r.fsm \in {"IDLE", "PUSH", "POP", "WB"}
      /\ r.level \in RPU /\ r.addr \in Nat /\ r.tree \in TreeId /\ r.addr < 2 ^ r.level
      /\ r.fsm # "IDLE" => (r.tree + r.level) % LEVEL = i
      /\ sram[i] \in [SRAMAddr -> Node]
  BY <1>1 DEF TypeInv, TopTypeOK
<1>6. On(t, p) <=> r.fsm # "IDLE" /\ r.tree = t /\ r.level = p[1] /\ r.addr = p[2]
  BY DEF On
<1>7. Tree(t)[p] = Cell(t, p)
  BY DEF Tree
<1>8. r.fsm # "IDLE" => SRAM_write(i) = [sram[i] EXCEPT ![offset[r.tree][r.level] + r.addr] = wdata(r, rdata[i], pop_data_dn(i))]
  BY DEF SRAM_write, write
<1>9. CASE On(t, p)
  <2>1. r.fsm # "IDLE" /\ offset[r.tree][r.level] + r.addr = a
    BY <1>6, <1>9
  <2>2. SRAM_write(i)[a] = wdata(r, rdata[i], pop_data_dn(i))
    BY <1>4, <1>5, <1>8, <2>1
  <2>3. CASE r.fsm = "PUSH"
    <3>1. Cell(t, p) = PushCell(rdata[i], r.latch, p)
      BY <1>9, <2>3 DEF Cell
    <3>2. Cell(t, p).eff = AfterPush(rdata[i], r.latch)
      BY <3>1 DEF PushCell
    <3>. QED
      BY <1>2, <1>7, <2>2, <2>3, <3>2, PushWrites
  <2>4. CASE r.fsm = "WB"
    <3>1. Cell(t, p) = RestCell(wdata(r, rdata[i], pop_data_dn(i)))
      BY <1>9, <2>4 DEF Cell
    <3>2. Cell(t, p).eff = wdata(r, rdata[i], pop_data_dn(i))
      BY <3>1 DEF RestCell
    <3>. QED
      BY <1>2, <1>7, <2>2, <3>2
  <2>. QED
    BY <1>5, <1>9, <2>1, <2>3, <2>4
<1>10. CASE ~On(t, p)
  <2>1. Cell(t, p) = RestCell(NodeAt(t, p))
    BY <1>10 DEF Cell
  <2>2. Cell(t, p).eff = sram[i][a]
    BY <2>1 DEF RestCell, NodeAt, Host
  <2>3. CASE r.fsm = "IDLE"
    <3>1. SRAM_write(i) = sram[i]
      BY <2>3 DEF SRAM_write, write
    <3>. QED
      BY <1>2, <1>7, <2>2, <3>1
  <2>4. CASE r.fsm # "IDLE"
    <3>1. offset[r.tree][r.level] + r.addr # a
      <4> SUFFICES ASSUME offset[r.tree][r.level] + r.addr = a PROVE FALSE
        OBVIOUS
      <4>1. (r.tree + r.level) % LEVEL = (t + p[1]) % LEVEL
        BY <1>1, <1>5, <2>4
      <4>2. r.tree = t /\ r.level = p[1] /\ r.addr = p[2]
        <5> HIDE DEF r
        <5>. QED
          BY <1>3, <1>5, <4>1, AddrUnique
      <4>. QED
        BY <1>6, <1>10, <2>4, <4>2
    <3>2. SRAM_write(i)[a] = sram[i][a]
      BY <1>4, <1>5, <1>8, <2>4, <3>1
    <3>. QED
      BY <1>2, <1>7, <2>2, <3>2
  <2>. QED
    BY <2>3, <2>4
<1>. QED
  BY <1>9, <1>10

-----------------------------------------------------------------------------
(* A pop occupies two RPUs at a time, one level apart.                     *)
\* An idle RPU shows level 0, and a pop below the root follows the RPU before,
\* which writes back one level up.
Paired ==
  \A i \in RPU :
    /\ rpu[i].fsm = "IDLE" => rpu[i].level = 0
    /\ rpu[i].fsm = "POP" /\ rpu[i].level # 0 => rpu[i].level = rpu[Pred(i)].level + 1
    /\ HandsOn(Pred(i), "WB") => rpu[i].level = rpu[Pred(i)].level + 1

\* The pairs of a pop go down the pipeline together.
LEMMA PairedStep ==
  ASSUME TypeInv, RPUClock
  PROVE  Paired'
<1> SUFFICES ASSUME NEW i \in RPU
             PROVE  /\ rpu'[i].fsm = "IDLE" => rpu'[i].level = 0
                    /\ rpu'[i].fsm = "POP" /\ rpu'[i].level # 0 => rpu'[i].level = rpu'[Pred(i)].level + 1
                    /\ HandsOn(Pred(i), "WB")' => rpu'[i].level = rpu'[Pred(i)].level + 1
  BY DEF Paired
<1> DEFINE j == Pred(i)
<1>1. j \in RPU
  BY PredRPU
<1>2. ASSUME HandsOn(j, "POP")
      PROVE  /\ rpu'[i].fsm = "POP" /\ rpu'[i].level = rpu[j].level + 1
             /\ rpu'[j].level = rpu[j].level
  <2>1. ~rpu_push_new[i] /\ ~rpu_pop_new[i]
    BY <1>2, WireFacts DEF Passes
  <2>2. Hears(i) = "POP"
    BY <1>2, <2>1, HeardFromBefore
  <2>3. rpu[j].level < LEVEL - 1 => Up(i).level = rpu[j].level + 1
    BY <2>1, HandedWires
  <2>4. rpu'[i].fsm = "POP" /\ rpu'[i].level = Up(i).level
    BY <2>2, NextRegisters
  <2>5. rpu[j].fsm = "POP" /\ rpu[j].level < LEVEL - 1
    BY <1>2 DEF HandsOn
  <2>6. rpu'[j].level = rpu[j].level
    BY <1>1, <2>5, NextRegisters
  <2>. QED
    BY <2>3, <2>4, <2>5, <2>6
<1>3. ASSUME rpu'[i].fsm = "POP", rpu'[i].level # 0
      PROVE  HandsOn(j, "POP")
  <2>1. Hears(i) = "POP" /\ rpu'[i].level = Up(i).level
    BY <1>3, NextRegisters
  <2>2. ~rpu_push_new[i] /\ ~rpu_pop_new[i]
    BY <1>3, <2>1, NewWires
  <2>. QED
    BY <2>1, <2>2, HeardFromBefore
<1>4. ASSUME HandsOn(j, "WB")' PROVE HandsOn(j, "POP")
  <2>1. rpu'[j].fsm = "WB" /\ rpu'[j].level < LEVEL - 1
    BY <1>4 DEF HandsOn
  <2>2. rpu[j].fsm = "POP" /\ rpu'[j].level = rpu[j].level
    BY <1>1, <2>1, NextRegisters
  <2>. QED
    BY <2>1, <2>2 DEF HandsOn
<1>5. rpu'[i].fsm = "IDLE" => rpu'[i].level = 0
  BY NextRegisters
<1>. QED
  BY <1>2, <1>3, <1>4, <1>5

\* Whether an RPU in POP is at the last level is what its input ports tell it.
LEMMA LastLevelSeen ==
  ASSUME TypeInv, Paired, RPUClock, LEVEL >= 3, NEW i \in RPU, rpu[i].fsm = "POP"
  PROVE  level_wb'[i] = LEVEL - 1 <=> rpu[i].level = LEVEL - 1
<1> DEFINE j == Pred(i)
<1>1. j \in RPU /\ level_wb'[i] = Up(i).level
  BY PredRPU DEF RPUClock
<1>2. rpu[i].level \in 0 .. LEVEL - 1 /\ rpu[j].level \in 0 .. LEVEL - 1 /\ LEVEL \in Nat
      /\ rpu[j].fsm \in {"IDLE", "PUSH", "POP", "WB"}
  BY <1>1, LevelAssumption DEF TypeInv, TopTypeOK, RPU
<1>3. ~rpu_push_new[i] /\ ~rpu_pop_new[i] /\ ~Passes(j)
  BY WireFacts
<1>4. /\ rpu[j].level < LEVEL - 1 => Up(i).level = rpu[j].level + 1
      /\ rpu[j].level = LEVEL - 1 => Up(i).level = LEVEL \/ Up(i).level = 0
  BY <1>3, HandedWires
<1>5. CASE rpu[i].level # 0
  <2>1. rpu[i].level = rpu[j].level + 1
    BY <1>5 DEF Paired
  <2>. QED
    BY <1>1, <1>2, <1>4, <2>1
<1>6. CASE rpu[i].level = 0
  <2>1. rpu[j].fsm = "IDLE" => rpu[j].level = 0
    BY <1>1 DEF Paired
  <2>2. ~HandsOn(j, "WB")
    <3>1. HandsOn(j, "WB") => rpu[i].level = rpu[j].level + 1
      BY DEF Paired
    <3>. QED
      BY <1>2, <1>6, <3>1
  <2>3. rpu[j].fsm # "IDLE" => rpu[j].level = LEVEL - 1
    BY <1>2, <1>3, <2>2 DEF Passes, HandsOn
  <2>. QED
    BY <1>1, <1>2, <1>4, <1>6, <2>1, <2>3
<1>. QED
  BY <1>5, <1>6

-----------------------------------------------------------------------------
(* A clock edge of the engine is a step of every tree machine.             *)
\* One clock edge of a node that hears a command.
LEMMA BusyCellStep ==
  ASSUME TypeInv, RPUClock, NEW t \in TreeId, NEW p \in Position, Heard(t, p) # "NONE"
  PROVE  /\ Cell(t, p)' = NextCell(Tree(t), Cmd(t), p)
         /\ rpu'[Host(t, p)].fsm = Heard(t, p)
         /\ rdata'[Host(t, p)] = Tree(t)[p].eff
<1> DEFINE i == Host(t, p)
           n == Tree(t)[p].eff
<1>1. i \in RPU
  BY HostFacts
<1>2. Names(i, t, p) /\ Heard(t, p) = Hears(i) /\ Hears(i) # "NONE"
  BY DEF Heard
<1>3. /\ rpu[i].fsm # "POP" /\ rpu'[i].fsm = Hears(i)
      /\ rpu'[i].tree = t /\ rpu'[i].level = p[1] /\ rpu'[i].addr = p[2]
      /\ Hears(i) = "PUSH" => rpu'[i].latch = Up(i).data
      /\ rdata'[i] = sram'[i][offset[t][p[1]] + p[2]]
      /\ Hears(i) \in {"NONE", "PUSH", "POP"}
  BY <1>1, <1>2, NextRegisters DEF Names
<1>4. rdata'[i] = n
  BY <1>3, MemoryAfter
<1>5. On(t, p)'
  BY <1>2, <1>3 DEF On
<1>6. /\ Given(Tree(t), Cmd(t), p) = Hears(i)
      /\ Hears(i) = "PUSH" => GivenWord(Tree(t), Cmd(t), p) = Up(i).data
  BY <1>2, GivenIsHeard
<1>7. CASE Hears(i) = "PUSH"
  <2>1. Cell(t, p)' = PushCell(rdata'[i], rpu'[i].latch, p)
    BY <1>3, <1>5, <1>7 DEF Cell, Host, PushCell, GoesOn, Inner, AfterPush, HandedOn, Filled
  <2>2. NextCell(Tree(t), Cmd(t), p) = PushCell(n, Up(i).data, p)
    BY <1>6, <1>7 DEF NextCell
  <2>. QED
    BY <1>2, <1>3, <1>4, <1>7, <2>1, <2>2
<1>8. CASE Hears(i) = "POP"
  <2>1. Cell(t, p)' = PopCell(rdata'[i])
    BY <1>3, <1>5, <1>8 DEF Cell, Host, PopCell, AfterPop
  <2>2. NextCell(Tree(t), Cmd(t), p) = PopCell(n)
    BY <1>6, <1>8 DEF NextCell
  <2>. QED
    BY <1>2, <1>3, <1>4, <1>8, <2>1, <2>2
<1>. QED
  BY <1>2, <1>3, <1>7, <1>8

\* A node that hears nothing and has no pop to finish.
LEMMA QuietCellStep ==
  ASSUME TypeInv, RPUClock, NEW t \in TreeId, NEW p \in Position, Heard(t, p) = "NONE",
         ~(On(t, p) /\ rpu[Host(t, p)].fsm = "POP")
  PROVE  Cell(t, p)' = NextCell(Tree(t), Cmd(t), p)
<1> DEFINE i == Host(t, p)
           n == Tree(t)[p].eff
<1>1. i \in RPU
  BY HostFacts
<1>2. Given(Tree(t), Cmd(t), p) = "NONE" /\ Tree(t)[p].mode # "POP"
  BY GivenIsHeard, ModeAt
<1>3. NextCell(Tree(t), Cmd(t), p) = RestCell(n)
  BY <1>2 DEF NextCell, Rested
<1>4. ~On(t, p)'
  <2> SUFFICES ASSUME rpu'[i].fsm # "IDLE", rpu'[i].tree = t, rpu'[i].level = p[1], rpu'[i].addr = p[2]
               PROVE  FALSE
    BY DEF On, Host
  <2>1. CASE rpu[i].fsm = "POP"
    <3>1. rpu[i].tree = t /\ rpu[i].level = p[1] /\ rpu[i].addr = p[2]
      BY <1>1, <2>1, NextRegisters
    <3>. QED
      BY <2>1, <3>1 DEF On
  <2>2. CASE rpu[i].fsm # "POP" /\ Hears(i) # "NONE"
    <3>1. Up(i).tree = t /\ Up(i).level = p[1] /\ Up(i).addr = p[2]
      BY <1>1, <2>2, NextRegisters
    <3>. QED
      BY <2>2, <3>1 DEF Heard, Names
  <2>3. CASE rpu[i].fsm # "POP" /\ Hears(i) = "NONE"
    BY <1>1, <2>3, NextRegisters
  <2>. QED
    BY <2>1, <2>2, <2>3
<1>5. Cell(t, p)' = RestCell(sram'[i][offset[t][p[1]] + p[2]])
  BY <1>4 DEF Cell, NodeAt, Host, RestCell
<1>6. sram'[i][offset[t][p[1]] + p[2]] = n
  BY MemoryAfter
<1>. QED
  BY <1>3, <1>5, <1>6

\* A node with a pop that is answered from below.
LEMMA PopCellStep ==
  ASSUME TypeInv, Paired, RPUClock, LEVEL >= 3, NEW t \in TreeId, NEW p \in Position,
         On(t, p), rpu[Host(t, p)].fsm = "POP"
  PROVE  Cell(t, p)' = NextCell(Tree(t), Cmd(t), p)
<1> DEFINE i == Host(t, p)
           X == Tree(t)
           n == rdata[i]
           b == min_data_port(n)
           w == pop_data_dn(i)'
<1>1. i \in RPU /\ n \in Node /\ b \in Slot
  BY HostFacts, MinDataPort DEF TypeInv, TopTypeOK
<1>2. X[p] = PopCell(n)
  BY DEF Tree, Cell
<1>3. X[p].eff = AfterPop(n) /\ X[p].seen = n /\ X[p].slot = b /\ X[p].mode = "POP"
  BY <1>2 DEF PopCell
<1>4. Given(X, Cmd(t), p) = "NONE"
  BY <1>3, GivenIsHeard
<1>5. NextCell(X, Cmd(t), p) = RestCell(Refilled(X, p))
  BY <1>3, <1>4 DEF NextCell, Rested
<1>6. /\ rpu'[i].fsm = "WB" /\ rpu'[i].tree = t /\ rpu'[i].level = p[1] /\ rpu'[i].addr = p[2]
      /\ rdata'[i] = n
  BY <1>1, NextRegisters DEF On
<1>7. On(t, p)'
  BY <1>6 DEF On, Host
<1>8. Cell(t, p)' = RestCell(wdata(rpu'[i], n, w))
  BY <1>6, <1>7 DEF Cell, Host, RestCell, wdata
<1>9. w \in StoredWord
  <2>1. Succ(i) \in RPU
    BY <1>1, LevelAssumption DEF Succ, RPU
  <2>4. rdata' \in [RPU -> Node]
    BY MemoryStep
  <2>2. \A r, m : m \in Node => pop_data(r, m) \in StoredWord
    BY WordRange, PortSlot DEF pop_data, Node
  <2>3. w = IF level_wb'[i] = LEVEL - 1 THEN AllOnes ELSE pop_data(rpu'[Succ(i)], rdata'[Succ(i)])
    BY DEF pop_data_dn, Succ, Host
  <2>. QED
    BY <2>1, <2>2, <2>3, <2>4, WordRange
<1>10. w = IF Inner(p) THEN Least(X[Child(p, b)].eff) ELSE AllOnes
  <2>1. level_wb'[i] = LEVEL - 1 <=> rpu[i].level = LEVEL - 1
    BY <1>1, LastLevelSeen
  <2>2. rpu[i].level = p[1] /\ p[1] \in 0 .. LEVEL - 1 /\ LEVEL \in Nat
    BY Positions, LevelAssumption DEF On
  <2>3. level_wb'[i] = LEVEL - 1 <=> ~Inner(p)
    BY <2>1, <2>2 DEF Inner
  <2>4. w = IF level_wb'[i] = LEVEL - 1 THEN AllOnes ELSE pop_data(rpu'[Succ(i)], rdata'[Succ(i)])
    BY DEF pop_data_dn, Succ, Host
  <2>5. CASE Inner(p)
    <3> DEFINE q == Child(p, b)
    <3>1. q \in Position /\ q # Root /\ Parent(q) = p /\ Side(q) = b /\ Host(t, q) = Succ(i)
      BY <1>1, <2>5, ChildPosition, HostFacts
    <3>2. Given(X, Cmd(t), q) = "POP"
      BY <1>3, <3>1 DEF Given
    <3>3. Heard(t, q) = "POP"
      BY <3>1, <3>2, GivenIsHeard
    <3>4. rpu'[Succ(i)].fsm = "POP" /\ rdata'[Succ(i)] = X[q].eff
      BY <3>1, <3>3, BusyCellStep
    <3>5. pop_data(rpu'[Succ(i)], rdata'[Succ(i)]) = Least(X[q].eff)
      BY <3>4 DEF pop_data, Popping, Least
    <3>. QED
      BY <2>3, <2>4, <2>5, <3>5
  <2>6. CASE ~Inner(p)
    BY <2>3, <2>4, <2>6
  <2>. QED
    BY <2>5, <2>6
<1>11. wdata(rpu'[i], n, w) = IF n.size[b] = 0 THEN AfterPop(n) ELSE [AfterPop(n) EXCEPT !.val[b] = w]
  <2>1. \A r, v : r.fsm = "WB" /\ v \in StoredWord =>
          wdata(r, n, v) = IF n.size[b] = 0 THEN AfterPop(n) ELSE [AfterPop(n) EXCEPT !.val[b] = v]
    BY <1>1, PopWrites
  <2>. QED
    BY <1>6, <1>9, <2>1
<1>12. Refilled(X, p) = IF n.size[b] = 0 THEN AfterPop(n) ELSE [AfterPop(n) EXCEPT !.val[b] = w]
  BY <1>3, <1>10 DEF Refilled
<1>. QED
  BY <1>5, <1>8, <1>11, <1>12

\* A clock edge of the engine is a step of every tree.
LEMMA ClockIsTreeStep ==
  ASSUME TypeInv, Paired, RPUClock, LEVEL >= 3, NEW t \in TreeId
  PROVE  Tree(t)' = NextTree(Tree(t), Cmd(t))
<1>1. ASSUME NEW p \in Position PROVE Cell(t, p)' = NextCell(Tree(t), Cmd(t), p)
  BY BusyCellStep, QuietCellStep, PopCellStep
<1>2. Tree(t)' = [p \in Position |-> Cell(t, p)']
  BY DEF Tree
<1>. QED
  BY <1>1, <1>2 DEF NextTree

-----------------------------------------------------------------------------
(* The queues' content and the answers.                                    *)
\* What becomes of the bag of a tree: the three cases of Content.
LEMMA ContentCases ==
  ASSUME NEW t, NEW i \in RPU, \A j \in RPU : Issue(j).op # "NONE" /\ Issue(j).tree = t => j = i
  PROVE  /\ Issue(i).op = "PUSH" /\ Issue(i).tree = t =>
              Queues!Content(t) = Add(bag[t], Issue(i).data)
         /\ Issue(i).op = "POP" /\ Issue(i).tree = t =>
              Queues!Content(t) = Remove(bag[t], Out(i)'.word)
         /\ ~(Issue(i).op \in {"PUSH", "POP"} /\ Issue(i).tree = t) => Queues!Content(t) = bag[t]
<1> DEFINE I == [j \in RPU |-> Issue(j)]
           O == [j \in RPU |-> Out(j)]'
           Pu == Queues!Pushed(t)
           Po == Queues!Popped(t)
<1>1. /\ Pu = {j \in RPU : Issue(j).op = "PUSH" /\ Issue(j).tree = t}
      /\ Po = {j \in RPU : Issue(j).op = "POP" /\ Issue(j).tree = t}
  BY DEF Queues!Pushed, Queues!Popped
<1>2. I[i] = Issue(i) /\ O[i] = Out(i)'
  OBVIOUS
<1>3. /\ Pu # {} /\ Po = {} => Queues!Content(t) = Queues!(+)(bag[t], Queues!SetToBag({I[j].data : j \in Pu}))
      /\ Pu = {} /\ Po # {} => Queues!Content(t) = Queues!(-)(bag[t], Queues!SetToBag({O[j].word : j \in Po}))
      /\ Pu = {} /\ Po = {} => Queues!Content(t) = bag[t]
  BY DEF Queues!Content
<1>4. \A B, d : Queues!(+)(B, Queues!SetToBag({d})) = Add(B, d)
  BY DEF Queues!(+), Queues!SetToBag, Add, (+), SetToBag
<1>5. \A B, d : Queues!(-)(B, Queues!SetToBag({d})) = Remove(B, d)
  BY DEF Queues!(-), Queues!SetToBag, Remove, (-), SetToBag
<1> HIDE DEF I, O, Pu, Po
<1>6. CASE Issue(i).op = "PUSH" /\ Issue(i).tree = t
  <2>1. Pu = {i} /\ Po = {}
    BY <1>1, <1>6
  <2>2. {I[j].data : j \in Pu} = {Issue(i).data}
    BY <1>2, <2>1
  <2>. QED
    BY <1>3, <1>4, <1>6, <2>1, <2>2
<1>7. CASE Issue(i).op = "POP" /\ Issue(i).tree = t
  <2>1. Po = {i} /\ Pu = {}
    BY <1>1, <1>7
  <2>2. {O[j].word : j \in Po} = {Out(i)'.word}
    BY <1>2, <2>1
  <2>. QED
    BY <1>3, <1>5, <1>7, <2>1, <2>2
<1>8. CASE ~(Issue(i).op \in {"PUSH", "POP"} /\ Issue(i).tree = t)
  <2>1. Po = {} /\ Pu = {}
    BY <1>1, <1>8
  <2>. QED
    BY <1>3, <1>8, <2>1
<1>. QED
  BY <1>6, <1>7, <1>8

\* The answer of a pop is the least word of the first node, and nothing else is an answer.
LEMMA AnswerFacts ==
  ASSUME TypeInv, RPUClock, NEW i \in RPU
  PROVE  /\ Issue(i).op = "POP" =>
              /\ Issue(i).tree \in TreeId /\ Host(Issue(i).tree, Root) = i
              /\ Heard(Issue(i).tree, Root) = "POP"
              /\ Out(i)' = [tree |-> Issue(i).tree, valid |-> TRUE,
                            word |-> Least(Tree(Issue(i).tree)[Root].eff)]
         /\ Issue(i).op # "POP" => Out(i)' = [tree |-> 0, word |-> AllOnes, valid |-> FALSE]
<1>1. Out(i)' = [tree  |-> IF is_level0_pop(rpu'[i]) THEN rpu'[i].tree ELSE 0,
                 word  |-> IF is_level0_pop(rpu'[i]) THEN pop_data(rpu'[i], rdata'[i]) ELSE AllOnes,
                 valid |-> is_level0_pop(rpu'[i])]
  BY DEF Out, is_level0_pop, pop_data, Popping
<1>2. ASSUME Issue(i).op = "POP"
      PROVE  /\ Issue(i).tree \in TreeId /\ Host(Issue(i).tree, Root) = i
             /\ Heard(Issue(i).tree, Root) = "POP"
             /\ Out(i)' = [tree |-> Issue(i).tree, valid |-> TRUE,
                           word |-> Least(Tree(Issue(i).tree)[Root].eff)]
  <2> DEFINE t == Issue(i).tree
  <2>1. rpu_push_new[i] \/ rpu_pop_new[i]
    BY <1>2 DEF Issue
  <2>2. /\ t = rpu_treeId[i] /\ Up(i).tree = t /\ Up(i).level = 0 /\ Up(i).addr = 0
        /\ Hears(i) = "POP"
    BY <1>2, <2>1, NewWires
  <2>3. t \in TreeId /\ t % LEVEL = i
    BY <1>2, <2>2 DEF TypeInv, HomeInv, TopInv, PathInv, IInv, TypeOK
  <2> HIDE DEF t
  <2>4. Host(t, Root) = i /\ Root \in Position
    BY <2>3, Positions, HostFacts
  <2>5. Heard(t, Root) = "POP"
    BY <2>2, <2>4 DEF Heard, Names, Root
  <2>6. rpu'[i].fsm = "POP" /\ rdata'[i] = Tree(t)[Root].eff
    BY <2>3, <2>4, <2>5, BusyCellStep
  <2>7. rpu'[i].level = 0 /\ rpu'[i].tree = t
    BY <2>2, NextRegisters
  <2>8. is_level0_pop(rpu'[i]) = TRUE
    BY <2>6, <2>7 DEF is_level0_pop
  <2>9. pop_data(rpu'[i], rdata'[i]) = Least(Tree(t)[Root].eff)
    BY <2>6 DEF pop_data, Popping, Least
  <2>10. Out(i)' = [tree |-> t, valid |-> TRUE, word |-> Least(Tree(t)[Root].eff)]
    BY <1>1, <2>7, <2>8, <2>9
  <2>. QED
    BY <2>3, <2>4, <2>5, <2>10 DEF t
<1>3. ASSUME Issue(i).op # "POP"
      PROVE  Out(i)' = [tree |-> 0, word |-> AllOnes, valid |-> FALSE]
  <2>1. ~(rpu'[i].level = 0 /\ rpu'[i].fsm = "POP")
    <3> SUFFICES ASSUME rpu'[i].level = 0, rpu'[i].fsm = "POP" PROVE FALSE
      OBVIOUS
    <3>1. Hears(i) = "POP" /\ Up(i).level = 0
      BY NextRegisters
    <3>2. CASE rpu_push_new[i] \/ rpu_pop_new[i]
      BY <1>3, <3>1, <3>2, NewWires
    <3>3. CASE ~rpu_push_new[i] /\ ~rpu_pop_new[i]
      <4>1. HandsOn(Pred(i), "POP")
        BY <3>1, <3>3, HeardFromBefore
      <4>2. rpu[Pred(i)].level < LEVEL - 1 => Up(i).level = rpu[Pred(i)].level + 1
        BY <3>3, HandedWires
      <4>3. rpu[Pred(i)].level \in Nat
        BY PredRPU DEF TypeInv, TopTypeOK, RPU
      <4>. QED
        BY <3>1, <4>1, <4>2, <4>3 DEF HandsOn
    <3>. QED
      BY <3>2, <3>3
  <2>2. is_level0_pop(rpu'[i]) = FALSE
    BY <2>1 DEF is_level0_pop
  <2>. QED
    BY <1>1, <2>2
<1>. QED
  BY <1>2, <1>3

-----------------------------------------------------------------------------
(* The invariant of the engine.                                            *)
\* At least three levels, and counts wide enough for a whole tree.
Sized == LEVEL >= 3 /\ CTW >= LEVEL

\* The invariant of tree t and of its bag, and that of the engine.
TreeInv(t) ==
  /\ Tree(t) \in [Position -> CellType] /\ TreeOK(Tree(t))
  /\ bag[t] = BagOf(Tree(t))
  /\ IsFiniteSet(Copies(bag[t])) /\ Cardinality(Copies(bag[t])) = Sz(Tree(t)[Root].eff)

EngineInv == TypeInv /\ Paired /\ \A t \in TreeId : TreeInv(t)

\* The command for a tree is what is started on its RPU.
LEMMA CommandOfTree ==
  ASSUME TypeInv, NEW t \in TreeId
  PROVE  LET i == Host(t, Root)
         IN  /\ i \in RPU
             /\ \A j \in RPU : Issue(j).op # "NONE" /\ Issue(j).tree = t => j = i
             /\ Cmd(t).op \in {"NONE", "PUSH", "POP"}
             /\ Cmd(t).op # "NONE" => Issue(i).tree = t /\ Cmd(t) = Issue(i)
             /\ Cmd(t).op = "NONE" => ~(Issue(i).op \in {"PUSH", "POP"} /\ Issue(i).tree = t)
             /\ Cmd(t).op = "PUSH" => Cmd(t).data \in StoredWord
<1> DEFINE i == Host(t, Root)
<1>1. i \in RPU /\ i = t % LEVEL
  BY HostFacts, Positions
<1>2. \A j \in RPU : Issue(j).op # "NONE" /\ Issue(j).tree = t => j = i
  BY <1>1 DEF TypeInv, HomeInv
<1>3. Cmd(t) = IF Issue(i).op # "NONE" /\ Issue(i).tree = t THEN Issue(i) ELSE [op |-> "NONE"]
  BY <1>1 DEF Cmd
<1>4. Cmd(t).op \in {"NONE", "PUSH", "POP"} /\ (Cmd(t).op = "PUSH" => Cmd(t).data = Up(i).data)
  BY RootHears
<1>5. Up(i).data \in StoredWord
  BY <1>1, PortsTyped
<1>. QED
  BY <1>1, <1>2, <1>3, <1>4, <1>5

\* A tree in order, with room for what is pushed, can take a step.
LEMMA TreeCanStep ==
  ASSUME Sized, EngineInv, Fits, NEW t \in TreeId
  PROVE  CanStep(Tree(t), Cmd(t))
<1> DEFINE i == Host(t, Root)
<1>1. TypeInv /\ TreeInv(t)
  BY DEF EngineInv
<1>2. /\ i \in RPU /\ Cmd(t).op \in {"NONE", "PUSH", "POP"}
      /\ Cmd(t).op # "NONE" => Issue(i).tree = t /\ Cmd(t) = Issue(i)
      /\ Cmd(t).op = "PUSH" => Cmd(t).data \in StoredWord
  BY <1>1, CommandOfTree
<1>3. \A p \in Position : Tree(t)[p].mode = "POP" => Given(Tree(t), Cmd(t), p) = "NONE"
  BY <1>1, GivenIsHeard
<1>4. Cmd(t).op = "PUSH" => /\ Rank(Cmd(t).data) # RankOnes
                            /\ Sz(Tree(t)[Root].eff) < 2 ^ (LEVEL + 1) - 2
  BY <1>1, <1>2 DEF Fits, TreeInv
<1>5. LEVEL <= CTW
  BY LevelAssumption, WidthAssumption DEF Sized
<1>. QED
  BY <1>1, <1>2, <1>3, <1>4, <1>5 DEF CanStep, TreeInv

\* The first node of a tree that is popped, and its bag.
LEMMA PopOfTree ==
  ASSUME EngineInv, NEW t \in TreeId, Cmd(t).op = "POP",
         NEW l, l = Least(Tree(t)[Root].eff)
  PROVE  /\ Sz(Tree(t)[Root].eff) # 0 => l \in DOMAIN bag[t] /\ \A w \in DOMAIN bag[t] : Rank(l) <= Rank(w)
         /\ Sz(Tree(t)[Root].eff) = 0 => l = AllOnes /\ DOMAIN bag[t] = {}
         /\ l \in DOMAIN bag[t] <=> Sz(Tree(t)[Root].eff) # 0
<1> DEFINE X == Tree(t)
<1>1. TypeInv /\ X \in [Position -> CellType] /\ TreeOK(X) /\ bag[t] = BagOf(X)
  BY DEF EngineInv, TreeInv
<1>2. Given(X, Cmd(t), Root) = "POP" /\ Root \in Position
  BY Positions DEF Given
<1>3. X[Root].mode # "POP"
  BY <1>1, <1>2, GivenIsHeard
<1>4. DOMAIN bag[t] = Held(X)
  BY <1>1, BagOfTree
<1> HIDE DEF X
<1>5. /\ Sz(X[Root].eff) # 0 => l \in Held(X) /\ \A w \in Held(X) : Rank(l) <= Rank(w)
      /\ Sz(X[Root].eff) = 0 => l = AllOnes /\ Held(X) = {}
  <2>1. l = Least(X[Root].eff)
    BY DEF X
  <2>. QED
    BY <1>1, <1>3, <2>1, LeastOfTree
<1>. QED
  BY <1>4, <1>5 DEF X

\* The invariant of a tree in the next state, part by part.
LEMMA TreeInvNext ==
  ASSUME NEW t, NEW Y, Y = Tree(t)', Y \in [Position -> CellType], TreeOK(Y), bag'[t] = BagOf(Y),
         IsFiniteSet(Copies(bag'[t])), Cardinality(Copies(bag'[t])) = Sz(Y[Root].eff)
  PROVE  TreeInv(t)'
<1>1. TreeOK(Tree(t))'
  BY DEF TreeOK, CellOK
<1>2. (bag[t] = BagOf(Tree(t)))'
  <2>1. \A x, k : WordAt(Tree(t), x, k)' = WordAt(Y, x, k)
    BY DEF WordAt
  <2>2. \A w : Where(Tree(t), w)' = Where(Y, w)
    BY <2>1 DEF Where, Place
  <2>3. Held(Tree(t))' = Held(Y)
    BY <2>2 DEF Held
  <2>. QED
    BY <2>2, <2>3 DEF BagOf
<1>3. (IsFiniteSet(Copies(bag[t])) /\ Cardinality(Copies(bag[t])) = Sz(Tree(t)[Root].eff))'
  BY DEF Copies, Sz
<1>4. (Tree(t) \in [Position -> CellType])'
  OBVIOUS
<1>. QED
  BY <1>1, <1>2, <1>3, <1>4 DEF TreeInv

\* One clock edge keeps every tree in order and the bag that it holds.
LEMMA TreeInvStep ==
  ASSUME Sized, EngineInv, Fits, NEW in, TopClock(in), NEW t \in TreeId
  PROVE  TreeInv(t)'
<1> DEFINE X == Tree(t)
           c == Cmd(t)
           i == Host(t, Root)
           l == Least(Tree(t)[Root].eff)
<1> SUFFICES ASSUME NEW Y, Y = Tree(t)'
             PROVE  /\ Y \in [Position -> CellType] /\ TreeOK(Y) /\ bag'[t] = BagOf(Y)
                    /\ IsFiniteSet(Copies(bag'[t])) /\ Cardinality(Copies(bag'[t])) = Sz(Y[Root].eff)
  BY TreeInvNext
<1>1. TypeInv /\ Paired /\ TreeInv(t) /\ RPUClock
  BY DEF EngineInv, TopClock
<1>2. CanStep(X, c)
  BY TreeCanStep
<1>3. Y = NextTree(X, c)
  BY <1>1, ClockIsTreeStep DEF Sized
<1>4. Y \in [Position -> CellType] /\ TreeOK(Y)
  BY <1>2, <1>3, TreeStep
<1>5. /\ c.op = "NONE" => BagOf(Y) = BagOf(X)
      /\ c.op = "PUSH" => BagOf(Y) = Add(BagOf(X), c.data)
      /\ c.op = "POP" => BagOf(Y) = Remove(BagOf(X), l)
  BY <1>2, <1>3, BagStep
<1>6. /\ i \in RPU
      /\ \A j \in RPU : Issue(j).op # "NONE" /\ Issue(j).tree = t => j = i
      /\ c.op \in {"NONE", "PUSH", "POP"}
      /\ c.op # "NONE" => Issue(i).tree = t /\ c = Issue(i)
      /\ c.op = "NONE" => ~(Issue(i).op \in {"PUSH", "POP"} /\ Issue(i).tree = t)
  BY <1>1, CommandOfTree
<1>7. bag'[t] = Queues!Content(t)
  BY DEF TopClock, History
<1>8. bag[t] = BagOf(X) /\ IsFiniteSet(Copies(bag[t])) /\ Cardinality(Copies(bag[t])) = Sz(X[Root].eff)
  BY <1>1 DEF TreeInv
<1>9. /\ Sz(Y[Root].eff) = Sz(X[Root].eff) + Plus(X, c, Root) - Minus(X, c, Root)
      /\ Sz(X[Root].eff) \in Nat
  BY <1>2, <1>3, Positions, SzStep
<1>10. Given(X, c, Root) = c.op
  BY DEF Given
<1>11. IsABag(bag[t])
  BY <1>2, <1>8, BagOfTree DEF CanStep
<1>12. CASE c.op = "NONE"
  <2>1. bag'[t] = bag[t]
    BY <1>6, <1>7, <1>12, ContentCases
  <2>2. Sz(Y[Root].eff) = Sz(X[Root].eff)
    BY <1>9, <1>10, <1>12 DEF Plus, Minus
  <2>. QED
    BY <1>4, <1>5, <1>8, <1>12, <2>1, <2>2
<1>13. CASE c.op = "PUSH"
  <2>1. bag'[t] = Add(bag[t], c.data)
    BY <1>6, <1>7, <1>13, ContentCases
  <2>2. Sz(Y[Root].eff) = Sz(X[Root].eff) + 1
    BY <1>9, <1>10, <1>13 DEF Plus, Minus
  <2>3. IsFiniteSet(Copies(bag'[t])) /\ Cardinality(Copies(bag'[t])) = Cardinality(Copies(bag[t])) + 1
    BY <1>8, <1>11, <2>1, CopiesAdded
  <2>. QED
    BY <1>4, <1>5, <1>8, <1>13, <2>1, <2>2, <2>3
<1>14. CASE c.op = "POP"
  <2>1. Out(i)'.word = l
    <3>1. Issue(i).op = "POP" /\ Issue(i).tree = t
      BY <1>6, <1>14
    <3>2. Out(i)' = [tree |-> t, valid |-> TRUE, word |-> l]
      BY <1>1, <1>6, <3>1, AnswerFacts
    <3>. QED
      BY <3>2
  <2>2. bag'[t] = Remove(bag[t], l)
    BY <1>6, <1>7, <1>14, <2>1, ContentCases
  <2>3. bag'[t] = BagOf(Y)
    BY <1>5, <1>8, <1>14, <2>2
  <2>4. l \in DOMAIN bag[t] <=> Sz(X[Root].eff) # 0
    BY <1>14, PopOfTree
  <2>5. CASE Sz(X[Root].eff) # 0
    <3>1. IsFiniteSet(Copies(bag'[t])) /\ Cardinality(Copies(bag'[t])) = Cardinality(Copies(bag[t])) - 1
      BY <1>8, <1>11, <2>2, <2>4, <2>5, CopiesRemoved
    <3>2. Sz(Y[Root].eff) = Sz(X[Root].eff) - 1
      BY <1>9, <1>10, <1>14, <2>5 DEF Plus, Minus
    <3>. QED
      BY <1>4, <1>8, <2>3, <3>1, <3>2
  <2>6. CASE Sz(X[Root].eff) = 0
    <3>1. bag'[t] = bag[t]
      BY <1>11, <2>2, <2>4, <2>6, RemoveFacts
    <3>2. Sz(Y[Root].eff) = Sz(X[Root].eff)
      BY <1>9, <1>10, <1>14, <2>6 DEF Plus, Minus
    <3>. QED
      BY <1>4, <1>8, <2>3, <3>1, <3>2
  <2>. QED
    BY <2>5, <2>6
<1>. QED
  BY <1>6, <1>12, <1>13, <1>14

-----------------------------------------------------------------------------
(* The theorems.                                                           *)
\* At first every tree is empty and every node at rest.
LEMMA TreeInvInit ==
  ASSUME TopInit, NEW t \in TreeId
  PROVE  TreeInv(t)
<1> DEFINE X == Tree(t)
<1>1. EmptyNode \in Node /\ AllOnes \in StoredWord /\ Rank(AllOnes) = RankOnes /\ RankOnes \in Nat
  BY WordRange, RankRange
<1>2. ASSUME NEW p \in Position PROVE X[p] = RestCell(EmptyNode)
  <2>1. Host(t, p) \in RPU
    BY HostFacts
  <2>2. ~On(t, p)
    BY <2>1 DEF TopInit, On, ResetRegisters
  <2>3. offset[t][p[1]] + p[2] \in SRAMAddr
    BY Positions, AddrInRange DEF RPU
  <2>4. NodeAt(t, p) = EmptyNode
    BY <2>1, <2>3 DEF TopInit, NodeAt, Host
  <2>. QED
    BY <2>2, <2>4 DEF Tree, Cell
<1>3. RestCell(EmptyNode) \in CellType
  BY <1>1 DEF RestCell, CellType, Slot
<1>4. X \in [Position -> CellType]
  <2>1. X = [p \in Position |-> Cell(t, p)]
    BY DEF Tree
  <2>. QED
    BY <1>2, <1>3, <2>1
<1> HIDE DEF X
<1>5. \A p \in Position : /\ X[p].eff = EmptyNode /\ X[p].seen = EmptyNode /\ X[p].mode = "NONE"
                          /\ X[p].word = AllOnes
  BY <1>2 DEF RestCell
<1>6. \A b \in Slot : EmptyNode.size[b] = 0 /\ EmptyNode.val[b] = AllOnes /\ ~Filled(EmptyNode, b)
  BY <1>1 DEF EmptyNode, Filled
<1>7. ASSUME NEW p \in Position PROVE CellOK(X, p)
  <2>1. \A b \in Slot : SizeBelow(X, p, b) = 0
    <3> SUFFICES ASSUME NEW b \in Slot, Inner(p) PROVE SizeBelow(X, p, b) = 0
      BY DEF SizeBelow
    <3>1. Child(p, b) \in Position /\ 0 \in Slot /\ 1 \in Slot
      BY ChildPosition DEF Slot
    <3>2. X[Child(p, b)].eff.size[0] = 0 /\ X[Child(p, b)].eff.size[1] = 0 /\ X[p].mode # "PUSH"
      BY <1>5, <1>6, <3>1
    <3>. QED
      BY <3>2 DEF SizeBelow
  <2>2. 0 <= 2 ^ (LEVEL - p[1]) - 1
    <3>1. LEVEL - p[1] \in Nat
      BY Positions, LevelAssumption
    <3>2. 2 ^ (LEVEL - p[1]) \in Nat \ {0}
      BY <3>1, PowerSucc
    <3>. QED
      BY <3>2
  <2>3. ASSUME NEW b \in Slot, Inner(p), NEW e \in Slot
        PROVE  Rank(X[p].seen.val[b]) <= Rank(X[Child(p, b)].seen.val[e])
    <3>1. Child(p, b) \in Position
      BY <2>3, ChildPosition
    <3>2. X[p].seen.val[b] = AllOnes /\ X[Child(p, b)].seen.val[e] = AllOnes
      BY <1>5, <1>6, <3>1
    <3>. QED
      BY <1>1, <3>2
  <2>4. /\ X[p].mode = "NONE" /\ X[p].seen = EmptyNode /\ X[p].eff = EmptyNode /\ X[p].word = AllOnes
    BY <1>5
  <2>5. \A b \in Slot : Count(EmptyNode, b) = 0
    BY <1>6 DEF Count
  <2>. QED
    BY <1>6, <2>1, <2>2, <2>3, <2>4, <2>5 DEF CellOK
<1>8. TreeOK(X)
  BY <1>7 DEF TreeOK
<1>9. Held(X) = {}
  <2> SUFFICES ASSUME NEW w \in StoredWord, Rank(w) # RankOnes, NEW x \in Where(X, w) PROVE FALSE
    BY DEF Held
  <2>1. x \in Place /\ WordAt(X, x[1], x[2]) = w
    BY DEF Where
  <2>2. x[1] \in Position /\ x[2] \in {0, 1, 2}
    BY <2>1 DEF Place
  <2>3. WordAt(X, x[1], x[2]) = AllOnes
    BY <1>5, <1>6, <2>2 DEF WordAt, Slot
  <2>. QED
    BY <1>1, <2>1, <2>3
<1>10. bag[t] = EmptyBag
  BY DEF TopInit
<1>11. BagOf(X) = EmptyBag /\ DOMAIN EmptyBag = {}
  BY <1>9 DEF BagOf, EmptyBag, SetToBag
<1>12. Copies(bag[t]) = {}
  BY <1>10, <1>11 DEF Copies
<1>13. Sz(X[Root].eff) = 0
  BY <1>5, <1>6, Positions DEF Sz, Slot
<1>14. IsFiniteSet({}) /\ Cardinality({}) = 0
  BY FS_EmptySet
<1>. QED
  BY <1>4, <1>8, <1>10, <1>11, <1>12, <1>13, <1>14 DEF TreeInv, X

\* After reset.
LEMMA EngineInit == TopInit => EngineInv
<1> SUFFICES ASSUME TopInit PROVE EngineInv
  OBVIOUS
<1>1. Paired
  BY PredRPU DEF TopInit, Paired, HandsOn, ResetRegisters
<1>. QED
  BY <1>1, TypeInit, TreeInvInit DEF EngineInv

\* A step that changes nothing.
LEMMA EngineStutter ==
  ASSUME EngineInv, UNCHANGED topVars
  PROVE  EngineInv'
<1>1. UNCHANGED <<rpu, sram, rdata, level_wb, bag>>
  BY DEF topVars, rpuVars
<1>2. TypeInv'
  BY TypeStutter DEF EngineInv
<1>3. Paired'
  BY <1>1 DEF EngineInv, Paired, HandsOn
<1>4. ASSUME NEW t \in TreeId PROVE TreeInv(t)'
  <2>1. ASSUME NEW p \in Position PROVE Cell(t, p)' = Cell(t, p)
    BY <1>1 DEF Cell, On, NodeAt, pop_data_dn, Host
  <2>2. Tree(t)' = Tree(t)
    BY <2>1 DEF Tree
  <2>3. TreeInv(t)
    BY DEF EngineInv
  <2>4. bag'[t] = bag[t]
    BY <1>1
  <2>. QED
    BY <2>2, <2>3, <2>4, TreeInvNext DEF TreeInv
<1>. QED
  BY <1>2, <1>3, <1>4 DEF EngineInv

\* A clock edge.
LEMMA EngineClock ==
  ASSUME Sized, EngineInv, Fits, NEW in, AllAtHome(in), TopClock(in)
  PROVE  EngineInv'
<1>1. TypeInv'
  BY TypeStep DEF EngineInv
<1>2. Paired'
  BY PairedStep DEF EngineInv, TopClock
<1>3. \A t \in TreeId : TreeInv(t)'
  BY TreeInvStep
<1>. QED
  BY <1>1, <1>2, <1>3 DEF EngineInv

\* A step of the engine.
LEMMA EngineStep ==
  ASSUME Sized, EngineInv, Fits, [TopNext]_topVars
  PROVE  EngineInv'
<1>1. CASE TopNext
  BY <1>1, EngineClock, InputsAtHome DEF TopNext
<1>2. CASE UNCHANGED topVars
  BY <1>2, EngineStutter
<1>. QED
  BY <1>1, <1>2

\* A tree at rest: its memory is the tree.
LEMMA RestIsOrder ==
  ASSUME EngineInv PROVE TreesInOrder
<1> SUFFICES ASSUME NEW t \in TreeId, AtRest(t)
    PROVE
    /\ bag[t] = LET S == FilledSlots(t, Position)
                    V(s) == NodeAt(t, s[1]).val[s[2]]
                IN  [w \in {V(s) : s \in S} |-> Cardinality({s \in S : V(s) = w})]
    /\ \A p \in Position, b \in Slot :
         LET node == NodeAt(t, p)
             S    == FilledSlots(t, Below(p, b))
         IN  /\ node.size[b] = Cardinality(S) + (IF Filled(node, b) THEN 1 ELSE 0)
             /\ \A s \in S : Rank(node.val[b]) <= Rank(NodeAt(t, s[1]).val[s[2]])
  BY DEF TreesInOrder
<1> DEFINE X == Tree(t)
<1>1. X \in [Position -> CellType] /\ TreeOK(X) /\ bag[t] = BagOf(X)
  BY DEF EngineInv, TreeInv
<1>2. ASSUME NEW p \in Position PROVE X[p].eff = NodeAt(t, p) /\ X[p].mode = "NONE"
  <2>1. Host(t, p) \in RPU
    BY HostFacts
  <2>2. ~On(t, p)
    BY <2>1 DEF AtRest, On
  <2>3. X[p] = RestCell(NodeAt(t, p))
    BY <2>2 DEF Tree, Cell
  <2>. QED
    BY <2>3 DEF RestCell
<1> HIDE DEF X
<1>3. ASSUME NEW P, P \subseteq Position PROVE SlotsOf(X, P) = FilledSlots(t, P)
  BY <1>2, <1>3 DEF SlotsOf, FilledSlots
<1>4. \A s \in FilledSlots(t, Position) : X[s[1]].eff.val[s[2]] = NodeAt(t, s[1]).val[s[2]]
  BY <1>2 DEF FilledSlots
<1>5. bag[t] = LET S == FilledSlots(t, Position)
                   V(s) == NodeAt(t, s[1]).val[s[2]]
               IN  [w \in {V(s) : s \in S} |-> Cardinality({s \in S : V(s) = w})]
  <2> DEFINE S == FilledSlots(t, Position)
             V(s) == NodeAt(t, s[1]).val[s[2]]
             W(s) == X[s[1]].eff.val[s[2]]
  <2>1. BagOf(X) = [w \in {W(s) : s \in S} |-> Cardinality({s \in S : W(s) = w})]
    <3>1. SlotsOf(X, Position) = S
      BY <1>3
    <3>2. BagOf(X) = LET R == SlotsOf(X, Position)
                         U(s) == X[s[1]].eff.val[s[2]]
                     IN  [w \in {U(s) : s \in R} |-> Cardinality({s \in R : U(s) = w})]
      BY <1>1, <1>2, BagInSlots
    <3> HIDE DEF S
    <3>. QED
      BY <3>1, <3>2
  <2>2. \A s \in S : W(s) = V(s)
    BY <1>4
  <2> HIDE DEF S, V, W
  <2>3. {W(s) : s \in S} = {V(s) : s \in S} /\ \A w : {s \in S : W(s) = w} = {s \in S : V(s) = w}
    BY <2>2
  <2>4. BagOf(X) = [w \in {V(s) : s \in S} |-> Cardinality({s \in S : V(s) = w})]
    BY <2>1, <2>3
  <2>. QED
    BY <1>1, <2>4 DEF S, V
<1>6. ASSUME NEW p \in Position, NEW b \in Slot
      PROVE  LET node == NodeAt(t, p)
                 S    == FilledSlots(t, Below(p, b))
             IN  /\ node.size[b] = Cardinality(S) + (IF Filled(node, b) THEN 1 ELSE 0)
                 /\ \A s \in S : Rank(node.val[b]) <= Rank(NodeAt(t, s[1]).val[s[2]])
  <2>1. Heads(X, p, b)
    BY <1>1, <1>2, AllHeads
  <2>2. Below(p, b) \subseteq Position
    BY DEF Below
  <2>3. SlotsOf(X, Below(p, b)) = FilledSlots(t, Below(p, b))
    BY <1>3, <2>2
  <2>4. \A s \in FilledSlots(t, Below(p, b)) : X[s[1]].eff = NodeAt(t, s[1])
    BY <1>2, <2>2 DEF FilledSlots
  <2>5. X[p].eff = NodeAt(t, p)
    BY <1>2
  <2>. QED
    BY <2>1, <2>3, <2>4, <2>5 DEF Heads, Count
<1>. QED
  BY <1>5, <1>6

\* Between operations every tree of the engine (PIFO_SRAM_TOP.sv, its RPUs in
\* PIFO_SRAM.sv) is in order: a slot counts exactly the words in and below it and
\* has the smallest rank of them, however the operations of different trees
\* overlapped in the pipeline, for every number of levels from three, every set
\* of trees and all widths that can count a tree.  Pushes must fit (Fits): the
\* RPUs neither refuse a push to a full tree nor tell a rank of all ones from an
\* empty slot.
THEOREM EngineKeepsOrder ==
  ASSUME LEVEL >= 3, CTW >= LEVEL
  PROVE  TopSpec /\ []Fits => []TreesInOrder
<1>1. EngineInv /\ Fits /\ [TopNext]_topVars => EngineInv'
  BY EngineStep DEF Sized
<1>2. EngineInv => TreesInOrder
  BY RestIsOrder
<1>. QED
  BY <1>1, <1>2, EngineInit, PTL DEF TopSpec

\* A step of the engine is a step of the priority queues.
LEMMA EngineIsQueues ==
  ASSUME Sized, EngineInv, Fits, NEW in, TopClock(in)
  PROVE  Queues!Next
<1>1. TypeInv /\ RPUClock
  BY DEF EngineInv, TopClock
<1>2. bag' = [t \in TreeId |-> Queues!Content(t)]
  BY DEF TopClock, History
<1>3. ASSUME NEW i \in RPU PROVE Queues!Answer(i)
  <2> DEFINE I == [j \in RPU |-> Issue(j)]
             O == [j \in RPU |-> Out(j)]'
             t == Issue(i).tree
             l == Least(Tree(t)[Root].eff)
  <2>1. I[i] = Issue(i) /\ O[i] = Out(i)'
    OBVIOUS
  <2>2. Queues!Answer(i) = IF I[i].op = "POP"
                           THEN \E w \in Queues!First(bag[I[i].tree]) : O[i] = [tree |-> I[i].tree, word |-> w, valid |-> TRUE]
                           ELSE O[i] = Queues!NoAnswer
    BY DEF Queues!Answer
  <2>3. CASE Issue(i).op = "POP"
    <3>1. /\ t \in TreeId /\ Host(t, Root) = i
          /\ Out(i)' = [tree |-> t, valid |-> TRUE, word |-> l]
      BY <1>1, <2>3, AnswerFacts
    <3>2. Cmd(t).op = "POP"
      <4>1. i = t % LEVEL
        BY <3>1, HostFacts, Positions
      <4>. QED
        BY <2>3, <4>1 DEF Cmd
    <3> HIDE DEF l, t
    <3>3. /\ Sz(Tree(t)[Root].eff) # 0 => l \in DOMAIN bag[t] /\ \A w \in DOMAIN bag[t] : Rank(l) <= Rank(w)
          /\ Sz(Tree(t)[Root].eff) = 0 => l = AllOnes /\ DOMAIN bag[t] = {}
      BY <3>1, <3>2, PopOfTree DEF l
    <3>4. l \in Queues!First(bag[t])
      <4>1. DOMAIN Queues!EmptyBag = {}
        BY DEF Queues!EmptyBag, Queues!SetToBag
      <4>2. IsABag(bag[t])
        BY <3>1, BagOfTree DEF EngineInv, TreeInv
      <4>3. bag[t] = [w \in DOMAIN bag[t] |-> bag[t][w]]
        BY <4>2 DEF IsABag
      <4>4. CASE Sz(Tree(t)[Root].eff) # 0
        <5>1. bag[t] # Queues!EmptyBag
          BY <3>3, <4>1, <4>4
        <5>. QED
          BY <3>3, <4>4, <5>1 DEF Queues!First, Queues!BagToSet
      <4>5. CASE Sz(Tree(t)[Root].eff) = 0
        <5>1. bag[t] = Queues!EmptyBag
          BY <3>3, <4>3, <4>5 DEF Queues!EmptyBag, Queues!SetToBag
        <5>. QED
          BY <3>3, <4>5, <5>1 DEF Queues!First
      <4>. QED
        BY <4>4, <4>5
    <3>5. O[i] = [tree |-> t, word |-> l, valid |-> TRUE] /\ I[i].op = "POP" /\ I[i].tree = t
      BY <2>1, <2>3, <3>1 DEF t
    <3> HIDE DEF I, O
    <3>. QED
      BY <2>2, <3>4, <3>5
  <2>4. CASE Issue(i).op # "POP"
    <3>1. O[i] = Queues!NoAnswer
      BY <1>1, <2>1, <2>4, AnswerFacts DEF Queues!NoAnswer
    <3> HIDE DEF I, O
    <3>. QED
      BY <2>1, <2>2, <2>4, <3>1
  <2>. QED
    BY <2>3, <2>4
<1>. QED
  BY <1>2, <1>3 DEF Queues!Next

\* The engine is a set of priority queues, one per tree (PIFO.tla): a push that
\* PIFO_SRAM_TOP.sv starts adds its word to the tree's queue, and a pop answers,
\* one cycle later, a word of the smallest rank of all that were pushed before it
\* and not popped, or all ones if there is none, though earlier operations are
\* still on their way down the levels.
THEOREM EngineImplementsPIFO ==
  ASSUME LEVEL >= 3, CTW >= LEVEL
  PROVE  TopSpec /\ []Fits => ImplementsPIFO
<1>1. EngineInv /\ Fits /\ [TopNext]_topVars => EngineInv'
  BY EngineStep DEF Sized
<1>2. TopInit => Queues!Init
  <2> SUFFICES ASSUME TopInit PROVE Queues!Init
    OBVIOUS
  <2>1. \A i \in RPU : Issue(i) = [op |-> "NONE"]
    BY DEF TopInit, Init, Issue
  <2>2. \A i \in RPU : Out(i) = Queues!NoAnswer
    BY DEF TopInit, Out, is_level0_pop, ResetRegisters, Queues!NoAnswer
  <2>3. bag = [t \in TreeId |-> Queues!EmptyBag]
    BY DEF TopInit, EmptyBag, SetToBag, Queues!EmptyBag, Queues!SetToBag
  <2>. QED
    BY <2>1, <2>2, <2>3 DEF Queues!Init
<1>3. EngineInv /\ Fits /\ TopNext => Queues!Next
  BY EngineIsQueues DEF TopNext, Sized
<1>4. UNCHANGED topVars => UNCHANGED <<[i \in RPU |-> Issue(i)], bag, [i \in RPU |-> Out(i)]>>
  BY DEF topVars, tdVars, issueVars, rpuVars, Issue, Out
<1>5. EngineInv /\ Fits /\ [TopNext]_topVars
        => [Queues!Next]_<<[i \in RPU |-> Issue(i)], bag, [i \in RPU |-> Out(i)]>>
  BY <1>3, <1>4
<1>. QED
  BY <1>1, <1>2, <1>5, EngineInit, PTL DEF TopSpec, ImplementsPIFO, Queues!Spec

\* An empty answer comes from an empty tree.
LEMMA EmptyAnswer ==
  ASSUME EngineInv
  PROVE  PopToEmpty
<1> SUFFICES ASSUME NEW i \in RPU, Out(i).valid, Out(i).word = AllOnes
             PROVE  bag[Out(i).tree] = EmptyBag
  BY DEF PopToEmpty
<1> DEFINE t == rpu[i].tree
           X == Tree(t)
           n == rdata[i]
           b == min_data_port(n)
<1>1. TypeInv
  BY DEF EngineInv
<1>2. rpu[i].fsm = "POP" /\ rpu[i].level = 0 /\ Out(i).tree = t /\ Least(n) = AllOnes
  BY DEF Out, is_level0_pop, pop_data, Popping, Least
<1>3. t \in TreeId /\ rpu[i].addr = 0 /\ Host(t, Root) = i /\ n \in Node
  <2>1. rpu[i].addr \in Nat /\ rpu[i].addr < 2 ^ 0 /\ t \in TreeId /\ (t + 0) % LEVEL = i /\ n \in Node
    BY <1>1, <1>2 DEF TypeInv, TopTypeOK
  <2>. QED
    BY <2>1, PowerZero DEF Host, Root
<1>4. TreeInv(t) /\ Root \in Position
  BY <1>3, Positions DEF EngineInv
<1>5. X[Root] = PopCell(n)
  BY <1>2, <1>3, <1>4 DEF Tree, Cell, On, Root
<1>6. X[Root].seen = n /\ X[Root].eff = AfterPop(n)
  BY <1>5 DEF PopCell
<1>7. \A c \in Slot : Filled(n, c) <=> n.size[c] # 0
  BY <1>4, <1>6 DEF TreeInv, TreeOK, CellOK
<1>8. b \in Slot /\ \A c \in Slot : Rank(n.val[b]) <= Rank(n.val[c])
  BY <1>3, MinDataPort
<1>9. /\ Rank(n.val[b]) = RankOnes /\ RankOnes \in Nat
      /\ \A c \in Slot : Rank(n.val[c]) \in 0 .. RankOnes
  BY <1>2, <1>3, RankRange, NodeType DEF Least
<1>10. \A c \in Slot : n.size[c] = 0
  BY <1>7, <1>8, <1>9 DEF Filled
<1>11. Sz(X[Root].eff) = 0
  BY <1>3, <1>6, <1>8, <1>10, AfterPopNode DEF Sz, Slot
<1>12. Copies(bag[t]) = {} /\ IsABag(bag[t])
  BY <1>4, <1>11, FS_EmptySet, BagOfTree DEF TreeInv
<1>13. DOMAIN bag[t] = {}
  <2> SUFFICES ASSUME NEW w \in DOMAIN bag[t] PROVE FALSE
    OBVIOUS
  <2>1. bag[t][w] \in Nat /\ bag[t][w] > 0
    BY <1>12 DEF IsABag
  <2>2. <<w, 1>> \in Copies(bag[t])
    BY <2>1, CopyIn
  <2>. QED
    BY <1>12, <2>2
<1>14. bag[t] = [w \in DOMAIN bag[t] |-> bag[t][w]]
  BY <1>12 DEF IsABag
<1>15. bag[t] = EmptyBag
  BY <1>13, <1>14 DEF EmptyBag, SetToBag
<1>. QED
  BY <1>2, <1>15

\* An RPU answers a pop with the empty word only when its tree is empty, given at
\* least three levels (the default is four).  With two levels it fails: level_wb
\* (PIFO_SRAM_TOP.sv) takes the level an idle RPU drives for the last one, and
\* the word that should move up is thrown away.
THEOREM PopsGoToEmpty ==
  ASSUME LEVEL >= 3, CTW >= LEVEL
  PROVE  TopSpec /\ []Fits => []PopToEmpty
<1>1. EngineInv /\ Fits /\ [TopNext]_topVars => EngineInv'
  BY EngineStep DEF Sized
<1>2. EngineInv => PopToEmpty
  BY EmptyAnswer
<1>. QED
  BY <1>1, <1>2, EngineInit, PTL DEF TopSpec

-----------------------------------------------------------------------------
(* The two-level scheduler: counting the tasks of a list.                  *)
\* How many of the first k places are in f.
Num(f, k) == Cardinality({j \in 1 .. k : j \in f})

\* It is a number, and there are none among no places.
LEMMA NumType ==
  ASSUME NEW f, NEW k \in Nat
  PROVE  IsFiniteSet({j \in 1 .. k : j \in f}) /\ Num(f, k) \in Nat /\ Num(f, 0) = 0
<1>1. IsFiniteSet(1 .. k)
  BY FS_Interval
<1>2. IsFiniteSet({j \in 1 .. k : j \in f})
  BY <1>1, FS_Subset
<1>3. {j \in 1 .. 0 : j \in f} = {}
  OBVIOUS
<1>. QED
  BY <1>2, <1>3, FS_EmptySet, FS_CardinalityType DEF Num

\* One place more.
LEMMA NumSucc ==
  ASSUME NEW f, NEW k \in Nat
  PROVE  Num(f, k + 1) = Num(f, k) + Asked(k + 1 \in f)
<1> DEFINE S == {j \in 1 .. k : j \in f}
           T == {j \in 1 .. k + 1 : j \in f}
<1>1. IsFiniteSet(S) /\ k + 1 \notin S /\ Cardinality(S) \in Nat
  <2>1. IsFiniteSet(S) /\ Cardinality(S) \in Nat
    BY NumType DEF Num
  <2>. QED
    BY <2>1
<1>2. CASE k + 1 \in f
  <2>1. T = S \cup {k + 1}
    BY <1>2
  <2> HIDE DEF S, T
  <2>2. Cardinality(T) = Cardinality(S) + 1
    BY <1>1, <2>1, FS_AddElement
  <2>. QED
    BY <1>2, <2>2 DEF S, T, Num, Asked
<1>3. CASE k + 1 \notin f
  <2>1. T = S
    BY <1>3
  <2> HIDE DEF S, T
  <2>2. Cardinality(T) = Cardinality(S) + 0
    BY <1>1, <2>1
  <2>. QED
    BY <1>3, <2>2 DEF S, T, Num, Asked
<1>. QED
  BY <1>2, <1>3

\* The same marks.
LEMMA NumSame ==
  ASSUME NEW f, NEW g, NEW k \in Nat, \A j \in 1 .. k : j \in f <=> j \in g
  PROVE  Num(f, k) = Num(g, k)
<1>1. {j \in 1 .. k : j \in f} = {j \in 1 .. k : j \in g}
  OBVIOUS
<1>. QED
  BY <1>1 DEF Num

\* The marks without the first.
LEMMA NumShift ==
  ASSUME NEW f, NEW g, NEW n \in Nat, \A j \in 1 .. n : j \in g <=> j + 1 \in f
  PROVE  \A k \in 0 .. n : Num(f, k + 1) = Asked(1 \in f) + Num(g, k)
<1> DEFINE S == {k \in Nat : k <= n => Num(f, k + 1) = Asked(1 \in f) + Num(g, k)}
<1>1. 0 \in S
  <2>1. Num(f, 0 + 1) = Num(f, 0) + Asked(0 + 1 \in f)
    BY NumSucc
  <2>2. Num(f, 0) = 0 /\ Num(g, 0) = 0 /\ Asked(1 \in f) \in Nat
    BY NumType DEF Asked
  <2>. QED
    BY <2>1, <2>2
<1>2. ASSUME NEW k \in S PROVE k + 1 \in S
  <2>1. CASE k + 1 <= n
    <3>1. Num(f, k + 1) = Asked(1 \in f) + Num(g, k)
      BY <2>1
    <3>2. Num(f, (k + 1) + 1) = Num(f, k + 1) + Asked((k + 1) + 1 \in f)
      BY NumSucc
    <3>3. Num(g, k + 1) = Num(g, k) + Asked(k + 1 \in g)
      BY NumSucc
    <3>4. k + 1 \in g <=> (k + 1) + 1 \in f
      BY <2>1
    <3>5. Asked(k + 1 \in g) = Asked((k + 1) + 1 \in f)
      BY <3>4 DEF Asked
    <3>6. Num(g, k) \in Nat /\ Asked(1 \in f) \in Nat /\ Asked(k + 1 \in g) \in Nat
      BY NumType DEF Asked
    <3>. QED
      BY <3>1, <3>2, <3>3, <3>5, <3>6
  <2>2. CASE ~(k + 1 <= n)
    BY <2>2
  <2>. QED
    BY <2>1, <2>2
<1> HIDE DEF S
<1>3. S = Nat
  BY <1>1, <1>2, SetInduction DEF S
<1>. QED
  BY <1>3 DEF S

-----------------------------------------------------------------------------
(* What the tasks of a list add to a tree.                                 *)
\* The places of a list where a word is pushed to tree t, where one is popped
\* from it, and where one that names tree t is pushed.
PushMarks(l, t) == {j \in 1 .. Len(l) : l[j].push /\ l[j].push_tree = t}
PopMarks(l, t) == {j \in 1 .. Len(l) : l[j].pop /\ l[j].pop_tree = t}
NameMarks(l, t) == {j \in 1 .. Len(l) : l[j].push /\ l[j].data \div TreeSpan = t}

\* What the first k tasks of a list add to tree t, and what one task adds.
Balance(l, t, k) == Num(PushMarks(l, t), k) - Num(PopMarks(l, t), k)
Adds(w, t) == Asked(w.push /\ w.push_tree = t) - Asked(w.pop /\ w.pop_tree = t)

\* What an operation adds that is started.
Effect(op, t) == IF op.op = "PUSH" /\ op.tree = t THEN 1
                 ELSE IF op.op = "POP" /\ op.tree = t THEN 0 - 1 ELSE 0

\* The tasks of a list that push a name of tree t.
NamesIn(l, t) == Num(NameMarks(l, t), Len(l))

\* They are numbers; an empty list adds nothing.
LEMMA BalanceType ==
  ASSUME NEW l, NEW t, NEW k \in Nat
  PROVE  Balance(l, t, k) \in Int /\ Balance(l, t, 0) = 0
<1>1. /\ Num(PushMarks(l, t), k) \in Nat /\ Num(PopMarks(l, t), k) \in Nat
      /\ Num(PushMarks(l, t), 0) = 0 /\ Num(PopMarks(l, t), 0) = 0
  BY NumType
<1>. QED
  BY <1>1 DEF Balance

\* Numbers of 0 and 1.
LEMMA AskedType ==
  ASSUME NEW b, NEW w, NEW t, NEW op
  PROVE  Asked(b) \in {0, 1} /\ Adds(w, t) \in {0 - 1, 0, 1} /\ Effect(op, t) \in {0 - 1, 0, 1}
  BY DEF Asked, Adds, Effect

\* One more task of a list.
LEMMA BalanceSucc ==
  ASSUME NEW S, NEW l \in Seq(S), NEW t, NEW k \in Nat, k + 1 <= Len(l)
  PROVE  Balance(l, t, k + 1) = Balance(l, t, k) + Adds(l[k + 1], t)
<1>1. k + 1 \in 1 .. Len(l)
  BY LenProperties
<1>2. /\ k + 1 \in PushMarks(l, t) <=> l[k + 1].push /\ l[k + 1].push_tree = t
      /\ k + 1 \in PopMarks(l, t) <=> l[k + 1].pop /\ l[k + 1].pop_tree = t
  BY <1>1, Zenon DEF PushMarks, PopMarks
<1> DEFINE f == PushMarks(l, t)
           g == PopMarks(l, t)
<1>3. /\ Num(f, k + 1) = Num(f, k) + Asked(k + 1 \in f) /\ Num(g, k + 1) = Num(g, k) + Asked(k + 1 \in g)
      /\ Num(f, k) \in Nat /\ Num(g, k) \in Nat /\ Num(f, k + 1) \in Nat /\ Num(g, k + 1) \in Nat
  <2> HIDE DEF f, g
  <2>1. k + 1 \in Nat
    OBVIOUS
  <2>. QED
    BY <2>1, NumSucc, NumType
<1>4. Asked(k + 1 \in f) \in {0, 1} /\ Asked(k + 1 \in g) \in {0, 1}
  BY AskedType
<1>5. Adds(l[k + 1], t) = Asked(k + 1 \in f) - Asked(k + 1 \in g)
  BY <1>2 DEF Adds, Asked
<1>. QED
  <2> HIDE DEF f, g
  <2>1. Balance(l, t, k) = Num(f, k) - Num(g, k) /\ Balance(l, t, k + 1) = Num(f, k + 1) - Num(g, k + 1)
    BY DEF Balance, f, g
  <2>. QED
    BY <1>3, <1>4, <1>5, <2>1

\* Lists that agree on their first tasks.
LEMMA BalanceSame ==
  ASSUME NEW l, NEW m, NEW t, NEW n \in Nat, Len(l) \in Nat, Len(m) \in Nat, n <= Len(l), n <= Len(m),
         \A j \in 1 .. n : l[j] = m[j]
  PROVE  /\ \A k \in 0 .. n : Balance(l, t, k) = Balance(m, t, k)
         /\ Num(NameMarks(l, t), n) = Num(NameMarks(m, t), n)
<1>1. ASSUME NEW j \in 1 .. n
      PROVE  /\ (j \in PushMarks(l, t)) <=> (j \in PushMarks(m, t))
             /\ (j \in PopMarks(l, t)) <=> (j \in PopMarks(m, t))
             /\ (j \in NameMarks(l, t)) <=> (j \in NameMarks(m, t))
  <2>1. j \in 1 .. Len(l) /\ j \in 1 .. Len(m) /\ l[j] = m[j]
    OBVIOUS
  <2>. QED
    BY <2>1, Zenon DEF PushMarks, PopMarks, NameMarks
<1>2. ASSUME NEW k \in 0 .. n PROVE Balance(l, t, k) = Balance(m, t, k)
  <2>1. Num(PushMarks(l, t), k) = Num(PushMarks(m, t), k) /\ Num(PopMarks(l, t), k) = Num(PopMarks(m, t), k)
    BY <1>1, NumSame
  <2>. QED
    BY <2>1 DEF Balance
<1>3. Num(NameMarks(l, t), n) = Num(NameMarks(m, t), n)
  BY <1>1, NumSame
<1>. QED
  BY <1>2, <1>3

\* A list with one more task.
LEMMA BalanceLonger ==
  ASSUME NEW l, NEW m, NEW n \in Nat, Len(l) = n, Len(m) = n + 1, \A j \in 1 .. n : l[j] = m[j], NEW t,
         NEW S, m \in Seq(S)
  PROVE  /\ \A k \in 0 .. n : Balance(m, t, k) = Balance(l, t, k)
         /\ Balance(m, t, n + 1) = Balance(l, t, n) + Adds(m[n + 1], t)
         /\ NamesIn(m, t) = NamesIn(l, t) + Asked(m[n + 1].push /\ m[n + 1].data \div TreeSpan = t)
<1>2. /\ \A k \in 0 .. n : Balance(l, t, k) = Balance(m, t, k)
      /\ Num(NameMarks(l, t), n) = Num(NameMarks(m, t), n)
  BY BalanceSame
<1>3. Balance(m, t, n + 1) = Balance(m, t, n) + Adds(m[n + 1], t)
  BY BalanceSucc
<1>4. Num(NameMarks(m, t), n + 1) = Num(NameMarks(m, t), n) + Asked(n + 1 \in NameMarks(m, t))
  BY NumSucc
<1>5. n + 1 \in NameMarks(m, t) <=> m[n + 1].push /\ m[n + 1].data \div TreeSpan = t
  <2>1. n + 1 \in 1 .. Len(m)
    OBVIOUS
  <2>. QED
    BY <2>1, Zenon DEF NameMarks
<1>. QED
  BY <1>2, <1>3, <1>4, <1>5 DEF NamesIn, Asked

\* What a list with one more task adds.
TaskNames(w, t) == Asked(w.push /\ w.data \div TreeSpan = t)
Grown(l, w, m, t) ==
  /\ m \in Seq(Task) /\ Len(m) = Len(l) + 1 /\ Len(l) \in Nat
  /\ \A k \in 0 .. Len(l) : Balance(m, t, k) = Balance(l, t, k)
  /\ Balance(m, t, Len(m)) = Balance(l, t, Len(l)) + Adds(w, t)
  /\ NamesIn(m, t) = NamesIn(l, t) + TaskNames(w, t)

\* A task written to a list comes last.
LEMMA BalanceAppend ==
  ASSUME NEW l \in Seq(Task), NEW w \in Task, NEW t, NEW m, m = Append(l, w)
  PROVE  Grown(l, w, m, t)
<1>1. /\ m \in Seq(Task) /\ Len(m) = Len(l) + 1 /\ Len(l) \in Nat
      /\ \A j \in 1 .. Len(l) : l[j] = m[j]
      /\ m[Len(l) + 1] = w
  BY AppendProperties, LenProperties
<1> DEFINE n == Len(l)
<1>2. n \in Nat /\ Len(l) = n /\ Len(m) = n + 1 /\ (\A j \in 1 .. n : l[j] = m[j]) /\ m[n + 1] = w
  BY <1>1
<1> HIDE DEF n
<1>3. /\ \A k \in 0 .. n : Balance(m, t, k) = Balance(l, t, k)
      /\ Balance(m, t, n + 1) = Balance(l, t, n) + Adds(m[n + 1], t)
      /\ NamesIn(m, t) = NamesIn(l, t) + Asked(m[n + 1].push /\ m[n + 1].data \div TreeSpan = t)
  <2> DEFINE Q(y) == /\ y \in Seq(Task) /\ Len(y) = n + 1 /\ \A j \in 1 .. n : l[j] = y[j]
             R(y) == /\ \A k \in 0 .. n : Balance(y, t, k) = Balance(l, t, k)
                     /\ Balance(y, t, n + 1) = Balance(l, t, n) + Adds(y[n + 1], t)
                     /\ NamesIn(y, t) = NamesIn(l, t) + Asked(y[n + 1].push /\ y[n + 1].data \div TreeSpan = t)
  <2>1. ASSUME NEW y, Q(y) PROVE R(y)
    BY <1>2, <2>1, BalanceLonger
  <2>2. Q(m)
    BY <1>1, <1>2
  <2> HIDE DEF Q, R
  <2>3. R(m)
    BY <2>1, <2>2, Zenon
  <2>. QED
    BY <2>3 DEF R
<1>. QED
  BY <1>1, <1>2, <1>3, Zenon DEF n, Grown, TaskNames

\* A list and its tail.
LEMMA BalanceHead ==
  ASSUME NEW l, NEW m, NEW n \in Nat, Len(m) = n, Len(l) = n + 1, \A j \in 1 .. n : l[j + 1] = m[j], NEW t
  PROVE  /\ \A k \in 0 .. n : Balance(l, t, k + 1) = Adds(l[1], t) + Balance(m, t, k)
         /\ NamesIn(l, t) = Asked(l[1].push /\ l[1].data \div TreeSpan = t) + NamesIn(m, t)
<1>1. 1 \in 1 .. Len(l) /\ \A j \in 1 .. n : j \in 1 .. Len(m) /\ j + 1 \in 1 .. Len(l)
  OBVIOUS
<1>2. /\ 1 \in PushMarks(l, t) <=> l[1].push /\ l[1].push_tree = t
      /\ 1 \in PopMarks(l, t) <=> l[1].pop /\ l[1].pop_tree = t
      /\ 1 \in NameMarks(l, t) <=> l[1].push /\ l[1].data \div TreeSpan = t
  BY <1>1, Zenon DEF PushMarks, PopMarks, NameMarks
<1>3. ASSUME NEW j \in 1 .. n
      PROVE  /\ j \in PushMarks(m, t) <=> j + 1 \in PushMarks(l, t)
             /\ j \in PopMarks(m, t) <=> j + 1 \in PopMarks(l, t)
             /\ j \in NameMarks(m, t) <=> j + 1 \in NameMarks(l, t)
  <2>1. j \in 1 .. Len(m) /\ j + 1 \in 1 .. Len(l) /\ l[j + 1] = m[j]
    BY <1>1
  <2>. QED
    BY <2>1, Zenon DEF PushMarks, PopMarks, NameMarks
<1> DEFINE fa == PushMarks(l, t)
           fo == PopMarks(l, t)
           fn == NameMarks(l, t)
           ga == PushMarks(m, t)
           go == PopMarks(m, t)
           gn == NameMarks(m, t)
<1>4. /\ \A k \in 0 .. n : Num(fa, k + 1) = Asked(1 \in fa) + Num(ga, k)
      /\ \A k \in 0 .. n : Num(fo, k + 1) = Asked(1 \in fo) + Num(go, k)
      /\ \A k \in 0 .. n : Num(fn, k + 1) = Asked(1 \in fn) + Num(gn, k)
  <2> HIDE DEF fa, fo, fn, ga, go, gn
  <2>1. /\ \A j \in 1 .. n : j \in ga <=> j + 1 \in fa
        /\ \A j \in 1 .. n : j \in go <=> j + 1 \in fo
        /\ \A j \in 1 .. n : j \in gn <=> j + 1 \in fn
    BY <1>3 DEF fa, fo, fn, ga, go, gn
  <2>2. \A k \in 0 .. n : Num(fa, k + 1) = Asked(1 \in fa) + Num(ga, k)
    BY <2>1, NumShift, Zenon
  <2>3. \A k \in 0 .. n : Num(fo, k + 1) = Asked(1 \in fo) + Num(go, k)
    BY <2>1, NumShift, Zenon
  <2>4. \A k \in 0 .. n : Num(fn, k + 1) = Asked(1 \in fn) + Num(gn, k)
    BY <2>1, NumShift, Zenon
  <2>. QED
    BY <2>2, <2>3, <2>4
<1>5. ASSUME NEW k \in 0 .. n PROVE Balance(l, t, k + 1) = Adds(l[1], t) + Balance(m, t, k)
  <2>1. /\ Balance(l, t, k + 1) = Num(fa, k + 1) - Num(fo, k + 1)
        /\ Balance(m, t, k) = Num(ga, k) - Num(go, k)
    BY DEF Balance
  <2>5. /\ Asked(1 \in fa) = Asked(l[1].push /\ l[1].push_tree = t)
        /\ Asked(1 \in fo) = Asked(l[1].pop /\ l[1].pop_tree = t)
    BY <1>2 DEF Asked
  <2> HIDE DEF fa, fo, fn, ga, go, gn
  <2>6. Adds(l[1], t) = Asked(1 \in fa) - Asked(1 \in fo)
    BY <2>5 DEF Adds
  <2>7. k \in Nat
    OBVIOUS
  <2>2. Num(ga, k) \in Nat /\ Num(go, k) \in Nat
    BY <2>7, NumType
  <2>3. Asked(1 \in fa) \in {0, 1} /\ Asked(1 \in fo) \in {0, 1}
    BY AskedType
  <2>4. Num(fa, k + 1) = Asked(1 \in fa) + Num(ga, k) /\ Num(fo, k + 1) = Asked(1 \in fo) + Num(go, k)
    BY <1>4
  <2>. QED
    BY <2>1, <2>2, <2>3, <2>4, <2>6
<1>6. NamesIn(l, t) = Asked(l[1].push /\ l[1].data \div TreeSpan = t) + NamesIn(m, t)
  <2>1. NamesIn(l, t) = Num(fn, n + 1) /\ NamesIn(m, t) = Num(gn, n)
    BY DEF NamesIn
  <2>2. Asked(1 \in fn) = Asked(l[1].push /\ l[1].data \div TreeSpan = t)
    BY <1>2 DEF Asked
  <2> HIDE DEF fa, fo, fn, ga, go, gn
  <2>. QED
    BY <1>4, <2>1, <2>2
<1>. QED
  BY <1>5, <1>6

\* What is started of a list and what is left of it.
LEMMA BalanceLeft ==
  ASSUME NEW l \in Seq(Word), l # << >>, NEW t,
         NEW r, r = Lists!Left(l), NEW op, op = Lists!Started(l)
  PROVE  /\ r \in Seq(Task) /\ Len(r) \in Nat
         /\ \A k \in 0 .. Len(r) : \E j \in 0 .. Len(l) :
              Effect(op, t) + Balance(r, t, k) >= Balance(l, t, j)
         /\ Effect(op, t) + Balance(r, t, Len(r)) = Balance(l, t, Len(l))
         /\ NamesIn(l, t) = NamesIn(r, t) + Asked(op.op = "PUSH" /\ op.data \div TreeSpan = t)
<1> DEFINE h == Head(l)
           m == Tail(l)
           n == Len(m)
           g == [h EXCEPT !.push = FALSE]
<1>1. /\ h \in Word /\ h = l[1] /\ m \in Seq(Word) /\ n \in Nat /\ Len(l) = n + 1
      /\ \A j \in 1 .. n : l[j + 1] = m[j]
  BY HeadTailProperties, EmptySeq, LenProperties
<1>2. h \in Task /\ Busy(h) /\ m \in Seq(Task) /\ l \in Seq(Task)
  BY <1>1, WordsAreTasks DEF Word
<1>3. /\ \A k \in 0 .. n : Balance(l, t, k + 1) = Adds(h, t) + Balance(m, t, k)
      /\ NamesIn(l, t) = Asked(h.push /\ h.data \div TreeSpan = t) + NamesIn(m, t)
  <2> HIDE DEF m, n
  <2>1. Len(m) = n
    BY DEF n
  <2>. QED
    BY <1>1, <2>1, BalanceHead
<1>4. /\ \A k \in 0 .. n : Balance(m, t, k) \in Int
      /\ Balance(l, t, 0) = 0 /\ Balance(r, t, 0) = 0
      /\ NamesIn(m, t) \in Nat
      /\ Adds(h, t) \in Int /\ Effect(op, t) \in Int
  <2>1. \A k \in 0 .. n : k \in Nat
    BY <1>1
  <2>2. NamesIn(m, t) \in Nat
    BY <1>1, NumType DEF NamesIn
  <2> HIDE DEF n, m
  <2>3. \A k \in 0 .. n : Balance(m, t, k) \in Int
    BY <2>1, BalanceType
  <2>4. Balance(l, t, 0) = 0 /\ Balance(r, t, 0) = 0
    BY BalanceType
  <2>5. Adds(h, t) \in Int /\ Effect(op, t) \in Int
    BY AskedType
  <2>. QED
    BY <2>2, <2>3, <2>4, <2>5
<1>5. CASE h.push /\ h.pop
  <2>1. r = <<g>> \o m /\ op = [op |-> "PUSH", tree |-> h.push_tree, data |-> h.data]
    BY <1>5 DEF Lists!Left, Lists!Started, Lists!Push
  <2>2. g \in Task /\ ~g.push /\ g.pop = h.pop /\ g.pop_tree = h.pop_tree
    BY <1>2 DEF Task
  <2>3. /\ r \in Seq(Task) /\ Len(r) = n + 1 /\ r[1] = g
        /\ \A j \in 1 .. n : r[j + 1] = m[j]
    <3> HIDE DEF g, m
    <3>1. /\ <<g>> \o m \in Seq(Task) /\ <<g>> \o m # << >> /\ Len(<<g>> \o m) = Len(m) + 1
          /\ Head(<<g>> \o m) = g /\ Tail(<<g>> \o m) = m
      BY <1>2, <2>2, ConsProperties
    <3>2. /\ Head(r) = r[1] /\ \A j \in 1 .. Len(Tail(r)) : Tail(r)[j] = r[j + 1]
      BY <2>1, <3>1, HeadTailProperties
    <3>. QED
      BY <2>1, <3>1, <3>2
  <2>4. /\ \A k \in 0 .. n : Balance(r, t, k + 1) = Adds(g, t) + Balance(m, t, k)
        /\ NamesIn(r, t) = Asked(g.push /\ g.data \div TreeSpan = t) + NamesIn(m, t)
    <3> DEFINE Q(y) == Len(y) = n + 1 /\ \A j \in 1 .. n : y[j + 1] = m[j]
               R(y) == /\ \A k \in 0 .. n : Balance(y, t, k + 1) = Adds(y[1], t) + Balance(m, t, k)
                       /\ NamesIn(y, t) = Asked(y[1].push /\ y[1].data \div TreeSpan = t) + NamesIn(m, t)
    <3>1. Q(r)
      BY <2>3
    <3> HIDE DEF m, n
    <3>2. n \in Nat /\ Len(m) = n
      BY <1>1 DEF n
    <3>3. ASSUME NEW y, Q(y) PROVE R(y)
      BY <3>2, <3>3, BalanceHead
    <3> HIDE DEF Q, R
    <3>4. R(r)
      BY <3>1, <3>3, Zenon
    <3>. QED
      BY <2>3, <3>4 DEF R
  <2>5. Effect(op, t) >= 0 /\ Effect(op, t) + Adds(g, t) = Adds(h, t) /\ Adds(g, t) \in Int
    BY <1>5, <2>1, <2>2 DEF Effect, Adds, Asked
  <2>6. ASSUME NEW k \in 0 .. n PROVE Effect(op, t) + Balance(r, t, k + 1) = Balance(l, t, k + 1)
    <3> HIDE DEF g, h, m
    <3>. QED
      BY <1>3, <1>4, <2>4, <2>5
  <2>7. ASSUME NEW k \in 0 .. Len(r)
        PROVE  \E j \in 0 .. Len(l) : Effect(op, t) + Balance(r, t, k) >= Balance(l, t, j)
    <3>1. CASE k = 0
      <4>1. 0 \in 0 .. Len(l) /\ Effect(op, t) + Balance(r, t, 0) >= Balance(l, t, 0)
        BY <1>1, <1>4, <2>5
      <4>. QED
        BY <3>1, <4>1
    <3>2. CASE k # 0
      <4>1. k - 1 \in 0 .. n /\ k = (k - 1) + 1 /\ k \in 0 .. Len(l)
        BY <1>1, <2>3, <3>2
      <4>2. Effect(op, t) + Balance(r, t, k) = Balance(l, t, k)
        BY <2>6, <4>1
      <4>3. Balance(l, t, k) \in Int
        BY <4>1, BalanceType
      <4>. QED
        BY <4>1, <4>2, <4>3
    <3>. QED
      BY <3>1, <3>2
  <2>8. Effect(op, t) + Balance(r, t, Len(r)) = Balance(l, t, Len(l))
    BY <1>1, <2>3, <2>6
  <2>9. NamesIn(l, t) = NamesIn(r, t) + Asked(op.op = "PUSH" /\ op.data \div TreeSpan = t)
    <3>1. /\ Asked(g.push /\ g.data \div TreeSpan = t) = 0
          /\ Asked(op.op = "PUSH" /\ op.data \div TreeSpan = t) = Asked(h.push /\ h.data \div TreeSpan = t)
          /\ Asked(h.push /\ h.data \div TreeSpan = t) \in {0, 1}
      BY <1>5, <2>1, <2>2 DEF Asked
    <3>. QED
      BY <1>3, <1>4, <2>4, <3>1
  <2>. QED
    BY <1>1, <2>3, <2>7, <2>8, <2>9
<1>6. CASE ~(h.push /\ h.pop)
  <2>1. r = m /\ op = IF h.push THEN [op |-> "PUSH", tree |-> h.push_tree, data |-> h.data]
                      ELSE [op |-> "POP", tree |-> h.pop_tree]
    BY <1>6 DEF Lists!Left, Lists!Started, Lists!Push, Lists!Pop
  <2>2. Effect(op, t) = Adds(h, t)
    BY <1>2, <1>6, <2>1 DEF Effect, Adds, Asked, Busy
  <2>3. ASSUME NEW k \in 0 .. n PROVE Effect(op, t) + Balance(r, t, k) = Balance(l, t, k + 1)
    BY <1>3, <2>1, <2>2
  <2>4. ASSUME NEW k \in 0 .. Len(r)
        PROVE  \E j \in 0 .. Len(l) : Effect(op, t) + Balance(r, t, k) >= Balance(l, t, j)
    <3>1. k \in 0 .. n /\ k + 1 \in 0 .. Len(l) /\ k + 1 \in Nat
      BY <1>1, <2>1
    <3>2. Balance(l, t, k + 1) \in Int
      BY <3>1, BalanceType
    <3>. QED
      BY <2>3, <3>1, <3>2
  <2>5. Effect(op, t) + Balance(r, t, Len(r)) = Balance(l, t, Len(l))
    BY <1>1, <2>1, <2>3
  <2>6. NamesIn(l, t) = NamesIn(r, t) + Asked(op.op = "PUSH" /\ op.data \div TreeSpan = t)
    <3>1. Asked(op.op = "PUSH" /\ op.data \div TreeSpan = t) = Asked(h.push /\ h.data \div TreeSpan = t)
      BY <1>6, <2>1 DEF Asked
    <3>2. Asked(h.push /\ h.data \div TreeSpan = t) \in {0, 1}
      BY AskedType
    <3> HIDE DEF h, m
    <3>. QED
      BY <1>3, <1>4, <2>1, <3>1, <3>2
  <2>. QED
    BY <1>1, <1>2, <2>1, <2>4, <2>5, <2>6
<1>. QED
  BY <1>5, <1>6

-----------------------------------------------------------------------------
(* A list across a clock edge.                                             *)
\* A list across a clock edge on which its FIFO is not full: op is started,
\* w is written, new is left.
RestOf(l, op, rest) == \/ op = Lists!Nothing /\ rest = l
                       \/ l # << >> /\ op = Lists!Started(l) /\ rest = Lists!Left(l)
Moves(l, op, w, new) ==
  \E rest : RestOf(l, op, rest) /\ new = IF Busy(w) THEN Append(rest, w) ELSE rest

\* That is what a clock edge does.
LEMMA ListMoves ==
  ASSUME PathInv, NEW in, PathClock(in), NEW i \in RPU, in[i] \in Task, ~TaskFIFO_full(i)
  PROVE  /\ Waiting(i) \in Seq(Word)
         /\ Moves(Waiting(i), Issue(i)', in[i], Waiting(i)')
<1>1. Edge(i, in[i])
  BY ClockIsEdge
<1>2. Len(fifo[i]) # FIFO_SIZE
  BY DEF TaskFIFO_full
<1>3. Moves(Waiting(i), Issue(i)', in[i], Waiting(i)')
  BY <1>1, <1>2, EdgeParts DEF Moves, RestOf
<1>4. TaskHead(fifo_out)[i] \in Task /\ fifo[i] \in Seq(Word)
  BY HeadType DEF PathInv
<1>5. Waiting(i) \in Seq(Word)
  <2> DEFINE h == TaskHead(fifo_out)[i]
  <2>1. fifo[i] \in Seq(Task)
    BY <1>4, WordsAreTasks
  <2>2. CASE Busy(h)
    <3>1. Waiting(i) = <<h>> \o fifo[i] /\ h \in Word
      BY <1>4, <2>1, <2>2, PendingProperties, WaitingIsPending DEF Word
    <3> HIDE DEF h
    <3>. QED
      BY <1>4, <3>1, ConsProperties
  <2>3. CASE ~Busy(h)
    <3>1. Waiting(i) = fifo[i]
      BY <1>4, <2>1, <2>3, PendingProperties, WaitingIsPending
    <3>. QED
      BY <1>4, <3>1
  <2>. QED
    BY <2>2, <2>3
<1>. QED
  BY <1>3, <1>5

\* An operation that pushes a name of tree t.
IssueNames(op, t) == Asked(op.op = "PUSH" /\ op.data \div TreeSpan = t)

\* What an operation that is started and the list left behind it add, and what
\* a list adds across a clock edge.
Kept(l, op, rest, t) ==
  /\ rest \in Seq(Task) /\ Len(rest) \in Nat
  /\ \A k \in 0 .. Len(rest) : \E j \in 0 .. Len(l) :
       Effect(op, t) + Balance(rest, t, k) >= Balance(l, t, j)
  /\ Effect(op, t) + Balance(rest, t, Len(rest)) = Balance(l, t, Len(l))
  /\ NamesIn(l, t) = NamesIn(rest, t) + IssueNames(op, t)
Moved(l, op, w, new, t) ==
  /\ new \in Seq(Task) /\ Len(new) \in Nat /\ Len(l) \in Nat
  /\ \A k \in 0 .. Len(new) :
       \/ k = Len(new)
       \/ \E j \in 0 .. Len(l) : Effect(op, t) + Balance(new, t, k) >= Balance(l, t, j)
  /\ Effect(op, t) + Balance(new, t, Len(new)) = Balance(l, t, Len(l)) + Adds(w, t)
  /\ NamesIn(new, t) + IssueNames(op, t) = NamesIn(l, t) + TaskNames(w, t)

\* What is started and left of a list, before the word on the ports is written.
LEMMA BalanceRest ==
  ASSUME NEW l \in Seq(Word), NEW op, NEW rest, NEW t, RestOf(l, op, rest)
  PROVE  Kept(l, op, rest, t)
<1>1. CASE op = Lists!Nothing /\ rest = l
  <2>1. Effect(op, t) = 0 /\ IssueNames(op, t) = 0
    BY <1>1 DEF Lists!Nothing, Effect, Asked, IssueNames
  <2>2. l \in Seq(Task) /\ Len(l) \in Nat
    BY WordsAreTasks, LenProperties
  <2>3. \A k \in 0 .. Len(l) : Balance(l, t, k) \in Int
    BY <2>2, BalanceType
  <2>4. NamesIn(l, t) \in Nat
    BY <2>2, NumType DEF NamesIn
  <2>. QED
    BY <1>1, <2>1, <2>2, <2>3, <2>4 DEF Kept
<1>2. CASE l # << >> /\ op = Lists!Started(l) /\ rest = Lists!Left(l)
  <2>1. ASSUME NEW o, NEW r, r = Lists!Left(l), o = Lists!Started(l) PROVE Kept(l, o, r, t)
    BY <1>2, <2>1, BalanceLeft DEF Kept, IssueNames
  <2>. QED
    BY <1>2, <2>1, Zenon
<1>. QED
  BY <1>1, <1>2 DEF RestOf

\* A list across a clock edge.
LEMMA BalanceMoves ==
  ASSUME NEW l \in Seq(Word), NEW op, NEW w \in Task, NEW new, NEW t, Moves(l, op, w, new)
  PROVE  Moved(l, op, w, new, t)
<1>1. PICK rest : RestOf(l, op, rest) /\ new = IF Busy(w) THEN Append(rest, w) ELSE rest
  BY DEF Moves
<1>2. Kept(l, op, rest, t)
  BY <1>1, BalanceRest, Zenon
<1>3. /\ Len(l) \in Nat /\ IssueNames(op, t) \in {0, 1} /\ TaskNames(w, t) \in {0, 1}
      /\ Effect(op, t) \in Int /\ Adds(w, t) \in Int
      /\ NamesIn(rest, t) \in Nat /\ Len(rest) \in Nat
      /\ \A k \in 0 .. Len(rest) : Balance(rest, t, k) \in Int
  <2>1. Len(l) \in Nat
    BY LenProperties
  <2>2. Effect(op, t) \in Int /\ Adds(w, t) \in Int
    BY AskedType
  <2>5. Len(rest) \in Nat
    BY <1>2 DEF Kept
  <2>3. NamesIn(rest, t) \in Nat
    BY <2>5, NumType DEF NamesIn
  <2>4. \A k \in 0 .. Len(rest) : Balance(rest, t, k) \in Int
    BY <2>5, BalanceType
  <2>. QED
    BY <2>1, <2>2, <2>3, <2>4, <2>5 DEF Asked, IssueNames, TaskNames
<1>4. CASE Busy(w)
  <2>0. new = Append(rest, w) /\ rest \in Seq(Task)
    BY <1>1, <1>2, <1>4 DEF Kept
  <2>1. Grown(rest, w, new, t)
    BY <2>0, BalanceAppend, Zenon
  <2>2. ASSUME NEW k \in 0 .. Len(new), k # Len(new)
        PROVE  \E j \in 0 .. Len(l) : Effect(op, t) + Balance(new, t, k) >= Balance(l, t, j)
    <3>1. k \in 0 .. Len(rest)
      BY <1>3, <2>1, <2>2 DEF Grown
    <3>. QED
      BY <1>2, <2>1, <3>1 DEF Grown, Kept
  <2>3. Effect(op, t) + Balance(new, t, Len(new)) = Balance(l, t, Len(l)) + Adds(w, t)
    <3>1. Len(rest) \in 0 .. Len(rest)
      BY <1>3
    <3>2. Balance(rest, t, Len(rest)) \in Int
      BY <1>3, <3>1
    <3>. QED
      BY <1>2, <1>3, <2>1, <3>2 DEF Grown, Kept
  <2>4. NamesIn(new, t) + IssueNames(op, t) = NamesIn(l, t) + TaskNames(w, t)
    BY <1>2, <1>3, <2>1 DEF Grown, Kept
  <2>5. new \in Seq(Task) /\ Len(new) \in Nat
    BY <1>3, <2>1 DEF Grown
  <2>. QED
    BY <1>3, <2>2, <2>3, <2>4, <2>5 DEF Moved
<1>5. CASE ~Busy(w)
  <2>1. new = rest /\ Adds(w, t) = 0 /\ TaskNames(w, t) = 0
    BY <1>1, <1>5 DEF Busy, Adds, Asked, TaskNames
  <2>2. Balance(l, t, Len(l)) \in Int
    BY <1>3, BalanceType
  <2>3. Effect(op, t) + Balance(new, t, Len(new)) = Balance(l, t, Len(l)) + Adds(w, t)
    BY <1>2, <2>1, <2>2 DEF Kept
  <2>4. NamesIn(new, t) + IssueNames(op, t) = NamesIn(l, t) + TaskNames(w, t)
    BY <1>2, <1>3, <2>1 DEF Kept
  <2>5. /\ new \in Seq(Task) /\ Len(new) \in Nat
        /\ \A k \in 0 .. Len(new) : \E j \in 0 .. Len(l) : Effect(op, t) + Balance(new, t, k) >= Balance(l, t, j)
    BY <1>2, <2>1 DEF Kept
  <2>. QED
    BY <1>3, <2>3, <2>4, <2>5 DEF Moved
<1>. QED
  BY <1>4, <1>5

\* The tasks of a list never take more from tree t than there is: c words are
\* in it before the first of them.
Covered(l, t, c) == \A k \in 0 .. Len(l) : c + Balance(l, t, k) >= 0

\* Covered stays so if the word written last is covered.
LEMMA CoveredMoves ==
  ASSUME NEW l \in Seq(Word), NEW op, NEW w \in Task, NEW new, NEW t, Moves(l, op, w, new),
         NEW c \in Int, Covered(l, t, c), c + Balance(l, t, Len(l)) + Adds(w, t) >= 0
  PROVE  Covered(new, t, c + Effect(op, t))
<1> SUFFICES ASSUME NEW k \in 0 .. Len(new)
             PROVE  c + Effect(op, t) + Balance(new, t, k) >= 0
  BY DEF Covered
<1>0. Moved(l, op, w, new, t)
  BY BalanceMoves, Zenon
<1>1. /\ new \in Seq(Task) /\ Len(new) \in Nat /\ Len(l) \in Nat
      /\ \/ k = Len(new)
         \/ \E j \in 0 .. Len(l) : Effect(op, t) + Balance(new, t, k) >= Balance(l, t, j)
      /\ Effect(op, t) + Balance(new, t, Len(new)) = Balance(l, t, Len(l)) + Adds(w, t)
  BY <1>0 DEF Moved
<1>2. k \in Nat /\ Balance(new, t, k) \in Int /\ Effect(op, t) \in Int /\ Adds(w, t) \in Int
  <2>1. k \in Nat
    BY <1>1
  <2>. QED
    BY <2>1, BalanceType, AskedType
<1>3. \A j \in 0 .. Len(l) : Balance(l, t, j) \in Int /\ c + Balance(l, t, j) >= 0
  <2>1. \A j \in 0 .. Len(l) : j \in Nat
    BY <1>1
  <2>. QED
    BY <2>1, BalanceType DEF Covered
<1>4. CASE k = Len(new)
  <2>1. Balance(l, t, Len(l)) \in Int
    BY <1>1, BalanceType
  <2>. QED
    BY <1>1, <1>2, <1>4, <2>1
<1>5. CASE k # Len(new)
  <2>1. PICK j \in 0 .. Len(l) : Effect(op, t) + Balance(new, t, k) >= Balance(l, t, j)
    BY <1>1, <1>5
  <2>. QED
    BY <1>2, <1>3, <2>1
<1>. QED
  BY <1>4, <1>5

-----------------------------------------------------------------------------
(* The words a tree holds, and those of them that name a tree.             *)
\* The words of a bag that name tree t.
Named(B, t) == {c \in Copies(B) : c[1] \div TreeSpan = t}

\* One more word.
LEMMA NamedAdded ==
  ASSUME NEW B, IsABag(B), IsFiniteSet(Copies(B)), NEW d, NEW R, R = Add(B, d), NEW t
  PROVE  /\ Cardinality(Named(R, t)) = Cardinality(Named(B, t)) + Asked(d \div TreeSpan = t)
         /\ Cardinality(Named(B, t)) \in Nat
<1>1. PICK k : <<d, k>> \notin Copies(B) /\ Copies(R) = Copies(B) \cup {<<d, k>>}
  BY CopiesAdded DEF OneMore
<1> DEFINE S == Named(B, t)
           x == <<d, k>>
<1>2. IsFiniteSet(S) /\ x \notin S /\ Cardinality(S) \in Nat
  BY <1>1, FS_Subset, FS_CardinalityType DEF Named
<1>3. x[1] = d
  OBVIOUS
<1>4. CASE d \div TreeSpan = t
  <2>1. Named(R, t) = S \cup {x}
    BY <1>1, <1>3, <1>4 DEF Named
  <2> HIDE DEF S, x
  <2>2. Cardinality(S \cup {x}) = Cardinality(S) + 1
    BY <1>2, FS_AddElement
  <2>. QED
    BY <1>2, <1>4, <2>1, <2>2 DEF S, Asked
<1>5. CASE d \div TreeSpan # t
  <2>1. Named(R, t) = S
    BY <1>1, <1>3, <1>5 DEF Named
  <2>. QED
    BY <1>2, <1>5, <2>1 DEF Asked
<1>. QED
  BY <1>4, <1>5

\* One word less.
LEMMA NamedRemoved ==
  ASSUME NEW B, IsABag(B), IsFiniteSet(Copies(B)), NEW l \in DOMAIN B, NEW R, R = Remove(B, l), NEW t
  PROVE  /\ Cardinality(Named(R, t)) = Cardinality(Named(B, t)) - Asked(l \div TreeSpan = t)
         /\ Cardinality(Named(B, t)) \in Nat
<1>0. OneLess(B, l, R)
  BY CopiesRemoved
<1>1. PICK k : <<l, k>> \in Copies(B) /\ Copies(R) = Copies(B) \ {<<l, k>>}
  BY <1>0 DEF OneLess
<1> DEFINE S == Named(B, t)
           x == <<l, k>>
<1>2. IsFiniteSet(S) /\ Cardinality(S) \in Nat
  BY FS_Subset, FS_CardinalityType DEF Named
<1>3. x[1] = l
  OBVIOUS
<1>4. CASE l \div TreeSpan = t
  <2>1. Named(R, t) = S \ {x} /\ x \in S
    BY <1>1, <1>3, <1>4 DEF Named
  <2> HIDE DEF S, x
  <2>2. Cardinality(S \ {x}) = Cardinality(S) - 1
    BY <1>2, <2>1, FS_RemoveElement
  <2>. QED
    BY <1>2, <1>4, <2>1, <2>2 DEF S, Asked
<1>5. CASE l \div TreeSpan # t
  <2>1. Named(R, t) = S
    BY <1>1, <1>3, <1>5 DEF Named
  <2>. QED
    BY <1>2, <1>5, <2>1 DEF Asked
<1>. QED
  BY <1>4, <1>5

\* How many words tree t holds.
Holds(t) == Cardinality(Copies(bag[t]))

\* What a clock edge does to a tree that holds a word for every pop.
LEMMA TreeHolds ==
  ASSUME EngineInv, NEW in, TopClock(in), NEW t \in TreeId, NEW i, i = t % LEVEL,
         NEW op, op = Issue(i), Holds(t) + Effect(op, t) >= 0
  PROVE  /\ i \in RPU /\ Holds(t) \in Nat /\ IsABag(bag[t]) /\ IsFiniteSet(Copies(bag[t]))
         /\ Cardinality(Copies(bag'[t])) = Holds(t) + Effect(op, t)
         /\ op.op = "PUSH" /\ op.tree = t => bag'[t] = Add(bag[t], op.data)
         /\ op.op = "POP" /\ op.tree = t =>
              /\ bag'[t] = Remove(bag[t], Out(i)'.word)
              /\ Out(i)'.word \in DOMAIN bag[t] /\ Out(i)'.word # AllOnes
         /\ ~(op.op \in {"PUSH", "POP"} /\ op.tree = t) => bag'[t] = bag[t]
<1>1. TypeInv /\ TreeInv(t) /\ RPUClock
  BY DEF EngineInv, TopClock
<1>2. i = Host(t, Root)
  BY Positions, HostFacts
<1>3. /\ i \in RPU
      /\ \A j \in RPU : Issue(j).op # "NONE" /\ Issue(j).tree = t => j = i
      /\ Cmd(t).op \in {"NONE", "PUSH", "POP"}
      /\ Cmd(t).op # "NONE" => op.tree = t /\ Cmd(t) = op
      /\ Cmd(t).op = "NONE" => ~(op.op \in {"PUSH", "POP"} /\ op.tree = t)
  BY <1>1, <1>2, CommandOfTree
<1>4. bag'[t] = Queues!Content(t)
  BY DEF TopClock, History
<1>5. /\ op.op = "PUSH" /\ op.tree = t => bag'[t] = Add(bag[t], op.data)
      /\ op.op = "POP" /\ op.tree = t => bag'[t] = Remove(bag[t], Out(i)'.word)
      /\ ~(op.op \in {"PUSH", "POP"} /\ op.tree = t) => bag'[t] = bag[t]
  BY <1>3, <1>4, ContentCases
<1>6. /\ bag[t] = BagOf(Tree(t)) /\ IsFiniteSet(Copies(bag[t])) /\ Tree(t) \in [Position -> CellType]
      /\ Holds(t) = Sz(Tree(t)[Root].eff) /\ Holds(t) \in Nat
  BY <1>1, FS_CardinalityType DEF TreeInv, Holds
<1>7. IsABag(bag[t]) /\ DOMAIN bag[t] = Held(Tree(t))
  BY <1>6, BagOfTree
<1>8. CASE op.op = "PUSH" /\ op.tree = t
  <2>1. Cardinality(Copies(bag'[t])) = Holds(t) + 1
    BY <1>5, <1>6, <1>7, <1>8, CopiesAdded DEF Holds
  <2>2. Effect(op, t) = 1
    BY <1>8 DEF Effect
  <2>. QED
    BY <1>3, <1>5, <1>6, <1>7, <1>8, <2>1, <2>2
<1>9. CASE op.op = "POP" /\ op.tree = t
  <2> DEFINE l == Out(i)'.word
  <2>1. Effect(op, t) = 0 - 1 /\ Holds(t) # 0
    BY <1>6, <1>9 DEF Effect
  <2>2. Cmd(t).op = "POP"
    BY <1>2, <1>9 DEF Cmd
  <2>3. l = Least(Tree(t)[Root].eff)
    <3>1. Out(i)' = [tree |-> t, valid |-> TRUE, word |-> Least(Tree(t)[Root].eff)]
      BY <1>1, <1>3, <1>9, AnswerFacts
    <3>. QED
      BY <3>1
  <2>4. l \in DOMAIN bag[t]
    BY <1>6, <2>1, <2>2, <2>3, PopOfTree
  <2>5. l # AllOnes
    BY <1>7, <2>4, RankRange DEF Held
  <2>6. Cardinality(Copies(bag'[t])) = Holds(t) - 1
    BY <1>5, <1>6, <1>7, <1>9, <2>4, CopiesRemoved DEF Holds
  <2>. QED
    BY <1>3, <1>5, <1>6, <1>7, <1>9, <2>1, <2>4, <2>5, <2>6
<1>10. CASE ~(op.op \in {"PUSH", "POP"} /\ op.tree = t)
  <2>1. Effect(op, t) = 0 /\ bag'[t] = bag[t]
    BY <1>5, <1>10 DEF Effect
  <2>. QED
    BY <1>3, <1>6, <1>7, <1>10, <2>1 DEF Holds
<1>. QED
  BY <1>8, <1>9, <1>10

-----------------------------------------------------------------------------
(* Requests and what they put on the ports of the lists.                   *)
\* The trees of the packets, and the tree that the root's answer names.
Trees == {p.tree : p \in Packet}
Answers(t) == Out(ROOT).valid /\ Out(ROOT).word \div TreeSpan = t
AnswerNamed == Out(ROOT).valid => Out(ROOT).word \div TreeSpan \in Trees

\* The word pushed into the root for a packet names the packet's tree.
LEMMA RootWordNames ==
  ASSUME NEW p \in Packet
  PROVE  /\ RootWord(p.tree, p.priority) \in StoredWord
         /\ RootWord(p.tree, p.priority) \div TreeSpan = p.tree
<1> DEFINE k == MTW + PTW - TREE_NUM_BITS
           j == MTW - TREE_NUM_BITS
           x == p.tree
           y == p.priority
<1>1. /\ x \in Nat /\ x < 2 ^ TREE_NUM_BITS /\ y \in 0 .. 2 ^ PTW - 1
      /\ TREE_NUM_BITS \in Nat /\ PTW \in Nat /\ MTW \in Nat /\ j \in Nat /\ k \in Nat
      /\ k = j + PTW /\ MTW + PTW = TREE_NUM_BITS + k
  <2>1. x \in Nat /\ x < 2 ^ TREE_NUM_BITS /\ y \in 0 .. 2 ^ PTW - 1
    BY PacketAssumption, TreeIdAssumption
  <2>2. TREE_NUM_BITS \in Nat /\ PTW \in Nat /\ MTW \in Nat /\ TREE_NUM_BITS <= MTW
    BY TreeBitsAssumption, WidthAssumption
  <2>3. j \in Nat /\ k \in Nat /\ k = j + PTW /\ MTW + PTW = TREE_NUM_BITS + k
    BY <2>2
  <2>. QED
    BY <2>1, <2>2, <2>3
<1> DEFINE S == 2 ^ k
           T == 2 ^ TREE_NUM_BITS
           P == 2 ^ PTW
           J == 2 ^ j
<1>2. S \in Nat \ {0} /\ T \in Nat \ {0} /\ P \in Nat \ {0} /\ J \in Nat \ {0}
  <2> HIDE DEF k, j
  <2>. QED
    BY <1>1, PowerSucc
<1>3. S = J * P /\ 2 ^ (MTW + PTW) = T * S
  <2> HIDE DEF k, j
  <2>. QED
    BY <1>1, PowerAdd
<1>4. TreeSpan = S /\ AllOnes = T * S - 1
  <2>1. TreeSpan = S
    BY DEF TreeSpan
  <2>2. AllOnes = 2 ^ (MTW + PTW) - 1
    BY DEF AllOnes
  <2>. QED
    BY <1>3, <2>1, <2>2
<1>5. x < T /\ y \in 0 .. P - 1
  BY <1>1
<1> HIDE DEF S, T, P, J, x, y, k, j
<1>6. P <= S
  BY <1>2, <1>3
<1>7. y \in 0 .. S - 1
  BY <1>2, <1>5, <1>6
<1>8. x * S + y <= T * S - 1 /\ x * S + y \in Nat
  <2>1. x + 1 <= T
    BY <1>1, <1>2, <1>5
  <2>2. (x + 1) * S <= T * S
    BY <1>1, <1>2, <2>1
  <2>3. (x + 1) * S = x * S + S
    BY <1>1, <1>2
  <2>4. x * S \in Nat /\ T * S \in Nat
    BY <1>1, <1>2
  <2>. QED
    BY <1>1, <1>2, <1>7, <2>2, <2>3, <2>4
<1>9. (S * x + y) \div S = x /\ S * x = x * S
  BY <1>1, <1>2, <1>7, DivModUnique
<1>10. RootWord(x, y) = x * S + y
  BY <1>4 DEF RootWord
<1>11. RootWord(x, y) \in StoredWord
  BY <1>4, <1>8, <1>10 DEF StoredWord
<1>12. RootWord(x, y) \div TreeSpan = x
  BY <1>4, <1>9, <1>10
<1>. QED
  BY <1>11, <1>12 DEF x, y

\* A request is for nothing, for a pop, or for a packet.
LEMMA RequestCases ==
  ASSUME NEW req \in Requests
  PROVE  /\ req.push \in BOOLEAN /\ req.pop \in BOOLEAN
         /\ req.tree \in TreeId
         /\ req.push => /\ \E p \in Packet : req.tree = p.tree /\ req.priority = p.priority /\ req.data = p.data
                        /\ req.tree \in Trees /\ req.data \in StoredWord /\ req.tree % LEVEL # 0
<1>1. req = Idle \/ req = [Idle EXCEPT !.pop = TRUE]
        \/ \E p \in Packet, b \in BOOLEAN :
             req = [push |-> TRUE, tree |-> p.tree, priority |-> p.priority, data |-> p.data, pop |-> b]
  BY DEF Requests
<1>2. CASE req = Idle \/ req = [Idle EXCEPT !.pop = TRUE]
  <2>1. ~req.push /\ req.push \in BOOLEAN /\ req.pop \in BOOLEAN /\ req.tree = 0
    <3>1. CASE req = Idle
      BY <3>1 DEF Idle
    <3>2. CASE req = [Idle EXCEPT !.pop = TRUE]
      <4>1. /\ "push" \in DOMAIN Idle /\ "pop" \in DOMAIN Idle /\ "tree" \in DOMAIN Idle
            /\ ~Idle.push /\ Idle.push \in BOOLEAN /\ Idle.tree = 0
        BY DEF Idle
      <4>2. req.push = Idle.push /\ req.tree = Idle.tree /\ req.pop = TRUE
        BY <3>2, <4>1
      <4>. QED
        BY <4>1, <4>2
    <3>. QED
      BY <1>2, <3>1, <3>2
  <2>. QED
    BY <2>1, ZeroWordAssumption
<1>3. ASSUME NEW p \in Packet, NEW b \in BOOLEAN,
             req = [push |-> TRUE, tree |-> p.tree, priority |-> p.priority, data |-> p.data, pop |-> b]
      PROVE  /\ req.push \in BOOLEAN /\ req.pop \in BOOLEAN /\ req.tree \in TreeId
             /\ req.tree = p.tree /\ req.priority = p.priority /\ req.data = p.data
             /\ req.tree \in Trees /\ req.data \in StoredWord /\ req.tree % LEVEL # 0
  <2>1. p.tree \in TreeId /\ p.tree % LEVEL # 0 /\ p.data \in StoredWord /\ p.tree \in Trees
    BY PacketAssumption DEF Trees
  <2>. QED
    BY <1>3, <2>1
<1>. QED
  BY <1>1, <1>2, <1>3

\* The tree of the root's answer begins on another RPU than the root.
LEMMA TreesApart ==
  ASSUME NEW t \in Trees
  PROVE  t \in TreeId /\ t \in Nat /\ t # ROOT /\ t % LEVEL # ROOT /\ t % LEVEL \in RPU
<1>1. t \in TreeId /\ t \in Nat /\ t % LEVEL # 0
  BY PacketAssumption, TreeIdAssumption DEF Trees
<1>2. t % LEVEL \in RPU /\ 0 % LEVEL = 0
  BY <1>1, LevelAssumption DEF RPU
<1>. QED
  BY <1>1, <1>2 DEF ROOT

\* The tree that is popped next.
LEMMA PopTree ==
  ASSUME AnswerNamed
  PROVE  /\ Out(ROOT).valid => pop_tree_id = Out(ROOT).word \div TreeSpan /\ pop_tree_id \in Trees
         /\ ~Out(ROOT).valid => pop_tree_id = ROOT
         /\ Out(ROOT).valid \in BOOLEAN
BY DEF AnswerNamed, pop_tree_id, Out, is_level0_pop

\* What is on the ports of the root's list.
LEMMA RootPort ==
  ASSUME NEW req \in Requests, NEW w, w = Ports(req)[ROOT]
  PROVE  /\ w \in Task /\ AtHome(w, ROOT)
         /\ w.push <=> req.push
         /\ w.pop <=> req.pop
         /\ w.push_tree = ROOT /\ w.pop_tree = ROOT
         /\ req.push => w.data \in StoredWord /\ w.data \div TreeSpan = req.tree /\ req.tree \in Trees
<1>1. ROOT \in RPU /\ ROOT = 0 /\ 0 % LEVEL = 0
  BY LevelAssumption DEF RPU, ROOT
<1>2. w = Port(req, ROOT)
  BY <1>1 DEF Ports
<1>3. /\ req.push \in BOOLEAN /\ req.pop \in BOOLEAN
      /\ req.push => \E p \in Packet : req.tree = p.tree /\ req.priority = p.priority
      /\ req.push => req.tree \in Trees
  BY RequestCases
<1>4. /\ w.push = req.push /\ w.pop = req.pop /\ w.push_tree = ROOT /\ w.pop_tree = ROOT
      /\ w.data = IF req.push THEN RootWord(req.tree, req.priority) ELSE AllOnes
      /\ w = [push |-> w.push, pop |-> w.pop, push_tree |-> w.push_tree, pop_tree |-> w.pop_tree,
              data |-> w.data]
  BY <1>2, <1>3 DEF Port
<1>5. req.push => /\ RootWord(req.tree, req.priority) \in StoredWord
                  /\ RootWord(req.tree, req.priority) \div TreeSpan = req.tree
  BY <1>3, RootWordNames
<1>6. w.data \in PushData
  BY <1>4, <1>5, DataAssumption, WordRange
<1>7. w \in Task
  <2>1. w.push \in BOOLEAN /\ w.pop \in BOOLEAN /\ w.push_tree \in TreeId /\ w.pop_tree \in TreeId
    BY <1>1, <1>3, <1>4, ZeroWordAssumption
  <2>. QED
    BY <1>4, <1>6, <2>1 DEF Task
<1>8. AtHome(w, ROOT)
  BY <1>1, <1>4 DEF AtHome
<1>. QED
  BY <1>3, <1>4, <1>5, <1>7, <1>8

\* What is on the ports of another list.
LEMMA OtherPort ==
  ASSUME AnswerNamed, NEW req \in Requests, NEW i \in RPU \ {ROOT}, NEW w, w = Ports(req)[i]
  PROVE  /\ w \in Task /\ AtHome(w, i)
         /\ w.push <=> req.push /\ i = req.tree % LEVEL
         /\ w.push => w.push_tree = req.tree
         /\ w.pop <=> i = pop_tree_id % LEVEL
         /\ w.pop => w.pop_tree = pop_tree_id /\ Out(ROOT).valid
<1>1. ROOT = 0 /\ 0 % LEVEL = 0 /\ i # 0
  BY LevelAssumption DEF RPU, ROOT
<1>2. w = Port(req, i)
  BY DEF Ports
<1>3. /\ req.push \in BOOLEAN /\ req.pop \in BOOLEAN /\ req.tree \in TreeId
      /\ req.push => req.data \in StoredWord
  BY RequestCases
<1>4. pop_tree_id \in TreeId /\ (~Out(ROOT).valid => pop_tree_id = 0)
  BY <1>1, PopTree, TreesApart, ZeroWordAssumption
<1>5. /\ w.push = (req.push /\ i = req.tree % LEVEL)
      /\ w.pop = (i = pop_tree_id % LEVEL)
      /\ w.push_tree = IF i = req.tree % LEVEL THEN req.tree ELSE ROOT
      /\ w.pop_tree = IF i = pop_tree_id % LEVEL THEN pop_tree_id ELSE ROOT
      /\ w.data = IF req.push /\ i = req.tree % LEVEL THEN req.data ELSE AllOnes
      /\ w = [push |-> w.push, pop |-> w.pop, push_tree |-> w.push_tree, pop_tree |-> w.pop_tree,
              data |-> w.data]
  BY <1>2, <1>3 DEF Port
<1>6. w.data \in PushData
  BY <1>3, <1>5, DataAssumption, WordRange
<1>7. w \in Task
  <2>1. w.push \in BOOLEAN /\ w.pop \in BOOLEAN /\ w.push_tree \in TreeId /\ w.pop_tree \in TreeId
    BY <1>1, <1>3, <1>4, <1>5, ZeroWordAssumption
  <2>. QED
    BY <1>5, <1>6, <2>1 DEF Task
<1>8. AtHome(w, i)
  BY <1>5 DEF AtHome
<1>9. w.pop => Out(ROOT).valid
  BY <1>1, <1>4, <1>5, PopTree
<1>. QED
  BY <1>3, <1>5, <1>7, <1>8, <1>9

\* Words that ask for nothing are not written: the ports without them.
Clean(in) == [i \in RPU |-> IF Busy(in[i]) THEN in[i] ELSE NoTask]

\* A clock edge of the scheduler is one of the engine.
LEMMA GeneratorClocks ==
  ASSUME AnswerNamed, NEW req \in Requests, DispatcherClock, FIFOClock(Ports(req)), RPUClock, History
  PROVE  /\ \A i \in RPU : Ports(req)[i] \in Task
         /\ TopClock(Ports(req)) /\ PathClock(Ports(req))
         /\ TopClock(Clean(Ports(req))) /\ AllAtHome(Clean(Ports(req)))
<1> DEFINE in == Ports(req)
<1>1. ASSUME NEW i \in RPU PROVE in[i] \in Task /\ AtHome(in[i], i)
  <2>1. CASE i = ROOT
    BY <2>1, RootPort
  <2>2. CASE i # ROOT
    BY <2>2, OtherPort
  <2>. QED
    BY <2>1, <2>2
<1>2. TopClock(in) /\ PathClock(in)
  BY DEF TopClock, PathClock
<1>3. FIFOClock(Clean(in))
  <2>1. ASSUME NEW i \in RPU, NEW rd PROVE FIFO_nxt(i, rd, Clean(in)[i]) = FIFO_nxt(i, rd, in[i])
    <3>1. CASE Busy(in[i])
      BY <3>1 DEF Clean
    <3>2. CASE ~Busy(in[i])
      <4>1. Clean(in)[i] = NoTask /\ ~push_TaskFIFO(NoTask) /\ ~push_TaskFIFO(in[i])
        BY <3>2 DEF Clean, NoTask, push_TaskFIFO, Busy
      <4>. QED
        BY <4>1 DEF FIFO_nxt
    <3>. QED
      BY <3>1, <3>2
  <2>2. fifo' = [i \in RPU |-> FIFO_nxt(i, pop_TaskFIFO_last'[i], in[i])]
    BY DEF FIFOClock
  <2> HIDE DEF in
  <2>3. fifo' = [i \in RPU |-> FIFO_nxt(i, pop_TaskFIFO_last'[i], Clean(in)[i])]
    BY <2>1, <2>2
  <2>. QED
    BY <2>3 DEF FIFOClock
<1>4. AllAtHome(Clean(in))
  <2> HIDE DEF in
  <2>1. ASSUME NEW i \in RPU
        PROVE  /\ Clean(in)[i] \in Task /\ AtHome(Clean(in)[i], i)
               /\ Clean(in)[i] = NoTask \/ Busy(Clean(in)[i])
    <3>1. AtHome(NoTask, i)
      BY DEF AtHome, NoTask
    <3>. QED
      BY <1>1, <3>1, NoTaskType DEF Clean
  <2>2. Clean(in) \in [RPU -> Task]
    BY <2>1 DEF Clean
  <2>. QED
    BY <2>1, <2>2 DEF AllAtHome, Wellformed
<1>5. TopClock(Clean(in))
  BY <1>2, <1>3 DEF TopClock
<1>. QED
  BY <1>1, <1>2, <1>4, <1>5

\* What a request adds to the root and to the other trees: a packet's push
\* goes straight to its tree, a pop is what the root's answer asks for.
LEMMA RequestAdds ==
  ASSUME AnswerNamed, NEW req \in Requests
  PROVE  /\ Adds(Ports(req)[ROOT], ROOT) = Asked(req.push) - Asked(req.pop)
         /\ \A t \in TreeId \ {ROOT} :
              /\ Adds(Ports(req)[t % LEVEL], t) = Asked(req.push /\ req.tree = t) - Asked(Answers(t))
              /\ TaskNames(Ports(req)[ROOT], t) = Asked(req.push /\ req.tree = t)
<1> DEFINE r == Ports(req)[ROOT]
<1>1. /\ r.push <=> req.push
      /\ r.pop <=> req.pop
      /\ r.push_tree = ROOT /\ r.pop_tree = ROOT
      /\ req.push => r.data \div TreeSpan = req.tree /\ req.tree \in Trees
  BY RootPort
<1>2. Adds(r, ROOT) = Asked(req.push) - Asked(req.pop)
  <2> HIDE DEF r
  <2>. QED
    BY <1>1 DEF Adds, Asked
<1>3. ASSUME NEW t \in TreeId \ {ROOT}
      PROVE  TaskNames(r, t) = Asked(req.push /\ req.tree = t)
  <2> HIDE DEF r
  <2>. QED
    BY <1>1 DEF TaskNames, Asked
<1>4. ASSUME NEW t \in TreeId \ {ROOT}
      PROVE  Adds(Ports(req)[t % LEVEL], t) = Asked(req.push /\ req.tree = t) - Asked(Answers(t))
  <2> DEFINE i == t % LEVEL
             w == Ports(req)[i]
  <2>1. i \in RPU
    BY TreeIdAssumption, LevelAssumption DEF RPU
  <2>2. CASE i = ROOT
    <3>1. Adds(w, t) = 0
      <4>1. w.push_tree # t /\ w.pop_tree # t
        BY <1>1, <2>2
      <4> HIDE DEF w
      <4>. QED
        BY <4>1 DEF Adds, Asked
    <3>2. t \notin Trees
      BY <2>2, TreesApart
    <3>3. ~(req.push /\ req.tree = t) /\ ~Answers(t)
      BY <1>1, <3>2 DEF AnswerNamed, Answers
    <3>. QED
      BY <3>1, <3>3 DEF Asked
  <2>3. CASE i # ROOT
    <3>1. /\ w.push <=> req.push /\ i = req.tree % LEVEL
          /\ w.push => w.push_tree = req.tree
          /\ w.pop <=> i = pop_tree_id % LEVEL
          /\ w.pop => w.pop_tree = pop_tree_id /\ Out(ROOT).valid
      BY <2>1, <2>3, OtherPort
    <3>2. w.push /\ w.push_tree = t <=> req.push /\ req.tree = t
      <4> HIDE DEF w
      <4>. QED
        BY <3>1
    <3>3. w.pop /\ w.pop_tree = t <=> Answers(t)
      <4>1. /\ Out(ROOT).valid => pop_tree_id = Out(ROOT).word \div TreeSpan
            /\ Out(ROOT).valid \in BOOLEAN
        BY PopTree
      <4> HIDE DEF w
      <4>. QED
        BY <3>1, <4>1 DEF Answers
    <3>4. Adds(w, t) = Asked(req.push /\ req.tree = t) - Asked(Answers(t))
      <4> HIDE DEF w
      <4>. QED
        BY <3>2, <3>3 DEF Adds, Asked
    <3>. QED
      BY <3>4
  <2>. QED
    BY <2>2, <2>3
<1>. QED
  BY <1>2, <1>3, <1>4

-----------------------------------------------------------------------------
(* The inductive invariant of the scheduler.                               *)
\* The words that tree t will hold once the operation being started is done,
\* and once its list is.
Due(t) == Holds(t) + Effect(Issue(t % LEVEL), t)
Ahead(t) == LET l == Waiting(t % LEVEL) IN Due(t) + Balance(l, t, Len(l))

\* The names of tree t between the request that pushes one and the pop of the
\* tree that it turns into.
Tokens(t) == NamesIn(Waiting(ROOT), t) + IssueNames(Issue(ROOT), t)
               + Cardinality(Named(bag[ROOT], t)) + Asked(Answers(t))

\* The list, the tree and the answers of the root hold names of packets' trees.
RootTask == {w \in Task : /\ w.push => w.push_tree = ROOT /\ w.data \div TreeSpan \in Trees
                          /\ w.pop => w.pop_tree = ROOT}
RootInv ==
  /\ Waiting(ROOT) \in Seq(RootTask)
  /\ Issue(ROOT).op # "NONE" => Issue(ROOT).tree = ROOT
  /\ Issue(ROOT).op = "PUSH" => Issue(ROOT).data \div TreeSpan \in Trees
  /\ \A w \in DOMAIN bag[ROOT] : w \div TreeSpan \in Trees
  /\ AnswerNamed

(* The inductive invariant: no list takes more from a tree than was put    *)
(* there before, the root has what was requested in and not out, and every *)
(* other tree has a packet for each of its names.                          *)
GenInv ==
  /\ EngineInv /\ RootInv /\ PopsFindPackets
  /\ backlog \in Nat /\ Ahead(ROOT) = backlog
  /\ \A t \in TreeId : Covered(Waiting(t % LEVEL), t, Due(t))
  /\ \A t \in TreeId \ {ROOT} : Ahead(t) = Tokens(t)

\* What a clock edge leaves of the root's list is made of the root's tasks.
LEMMA RootTasksMove ==
  ASSUME NEW l \in Seq(RootTask), l \in Seq(Word), NEW op, NEW w \in RootTask, NEW new, Moves(l, op, w, new)
  PROVE  /\ new \in Seq(RootTask)
         /\ op.op # "NONE" => op.tree = ROOT
         /\ op.op = "PUSH" => op.data \div TreeSpan \in Trees
<1>1. PICK rest : RestOf(l, op, rest) /\ new = IF Busy(w) THEN Append(rest, w) ELSE rest
  BY DEF Moves
<1>2. /\ rest \in Seq(RootTask)
      /\ op.op # "NONE" => op.tree = ROOT
      /\ op.op = "PUSH" => op.data \div TreeSpan \in Trees
  <2>1. CASE op = Lists!Nothing /\ rest = l
    BY <2>1 DEF Lists!Nothing
  <2>2. CASE l # << >> /\ op = Lists!Started(l) /\ rest = Lists!Left(l)
    <3> DEFINE h == Head(l)
               g == [h EXCEPT !.push = FALSE]
    <3>1. h \in RootTask /\ h \in Word /\ Tail(l) \in Seq(RootTask)
      BY <2>2, HeadTail
    <3>2. h \in Task /\ Busy(h) /\ (h.push => h.push_tree = ROOT /\ h.data \div TreeSpan \in Trees)
          /\ (h.pop => h.pop_tree = ROOT)
      BY <3>1 DEF RootTask, Word
    <3>3. g \in RootTask
      <4>1. g \in Task /\ ~g.push /\ g.pop = h.pop /\ g.pop_tree = h.pop_tree
        BY <3>2 DEF Task
      <4> HIDE DEF g
      <4>. QED
        BY <3>2, <4>1 DEF RootTask
    <3>4. <<g>> \o Tail(l) \in Seq(RootTask)
      <4> HIDE DEF g
      <4>. QED
        BY <3>1, <3>3, ConsProperties
    <3>5. rest \in Seq(RootTask)
      BY <2>2, <3>1, <3>4 DEF Lists!Left
    <3>6. op = IF h.push THEN [op |-> "PUSH", tree |-> h.push_tree, data |-> h.data]
               ELSE [op |-> "POP", tree |-> h.pop_tree]
      BY <2>2 DEF Lists!Started, Lists!Push, Lists!Pop
    <3> HIDE DEF h
    <3>7. /\ op.op # "NONE" => op.tree = ROOT
          /\ op.op = "PUSH" => op.data \div TreeSpan \in Trees
      BY <3>2, <3>6 DEF Busy
    <3>. QED
      BY <3>5, <3>7
  <2>. QED
    BY <1>1, <2>1, <2>2 DEF RestOf
<1>3. Append(rest, w) \in Seq(RootTask)
  BY <1>2, AppendProperties
<1>. QED
  BY <1>1, <1>2, <1>3

\* One clock edge, as seen by tree t.
LEMMA AheadStep ==
  ASSUME GenInv, NoneFull, NEW req \in Requests, TopClock(Ports(req)), PathClock(Ports(req)),
         NEW t \in TreeId, NEW i, i = t % LEVEL, NEW w \in Task, w = Ports(req)[i]
  PROVE  /\ i \in RPU /\ Waiting(i) \in Seq(Word) /\ Moves(Waiting(i), Issue(i)', w, Waiting(i)')
         /\ Holds(t)' = Due(t) /\ Due(t) \in Nat /\ Ahead(t) \in Int
         /\ Ahead(t)' = Ahead(t) + Adds(w, t)
         /\ Ahead(t) + Adds(w, t) >= 0 => Covered(Waiting(i)', t, Due(t)')
<1> DEFINE l == Waiting(i)
           op == Issue(i)
           new == Waiting(i)'
           nop == Issue(i)'
<1>1. i \in RPU
  BY TreeIdAssumption, LevelAssumption DEF RPU
<1>2. EngineInv /\ Covered(l, t, Due(t)) /\ PathInv
  BY DEF GenInv, EngineInv, TypeInv, TopInv
<1>3. l \in Seq(Word) /\ Moves(l, nop, w, new)
  BY <1>1, <1>2, ListMoves DEF NoneFull
<1>4. Holds(t) \in Nat /\ Effect(op, t) \in Int /\ Due(t) = Holds(t) + Effect(op, t)
  <2>1. Holds(t) \in Nat
    BY <1>2, FS_CardinalityType DEF EngineInv, TreeInv, Holds
  <2>. QED
    BY <2>1, AskedType DEF Due
<1>5. Due(t) >= 0
  <2>1. Len(l) \in Nat
    BY <1>3, LenProperties
  <2>2. Due(t) + Balance(l, t, 0) >= 0 /\ Balance(l, t, 0) = 0
    <3> HIDE DEF l
    <3>. QED
      BY <1>2, <2>1, BalanceType DEF Covered
  <2>. QED
    BY <1>4, <2>2
<1>6. Cardinality(Copies(bag'[t])) = Holds(t) + Effect(op, t)
  BY <1>2, <1>4, <1>5, TreeHolds
<1>7. Holds(t)' = Due(t) /\ Due(t) \in Nat
  <2>1. Holds(t)' = Cardinality(Copies(bag'[t]))
    BY DEF Holds, Copies
  <2>. QED
    BY <1>4, <1>5, <1>6, <2>1
<1>8. Due(t)' = Due(t) + Effect(nop, t)
  <2>1. Due(t)' = Holds(t)' + Effect(nop, t)
    BY DEF Due, Effect
  <2>. QED
    BY <1>7, <2>1
<1>9. /\ Ahead(t) = Due(t) + Balance(l, t, Len(l))
      /\ Ahead(t)' = Due(t)' + Balance(new, t, Len(new))
  BY DEF Ahead, Balance, Num, PushMarks, PopMarks
<1> HIDE DEF l, new, op, nop
<1>10. Moved(l, nop, w, new, t)
  BY <1>3, BalanceMoves, Zenon
<1>11. /\ Len(l) \in Nat /\ Len(new) \in Nat
       /\ Effect(nop, t) + Balance(new, t, Len(new)) = Balance(l, t, Len(l)) + Adds(w, t)
  BY <1>10 DEF Moved
<1>12. Balance(l, t, Len(l)) \in Int /\ Balance(new, t, Len(new)) \in Int /\ Effect(nop, t) \in Int
       /\ Adds(w, t) \in Int
  BY <1>11, BalanceType, AskedType
<1>13. Ahead(t)' = Ahead(t) + Adds(w, t) /\ Ahead(t) \in Int
  BY <1>7, <1>8, <1>9, <1>11, <1>12
<1>14. Ahead(t) + Adds(w, t) >= 0 => Covered(new, t, Due(t)')
  <2> SUFFICES ASSUME Ahead(t) + Adds(w, t) >= 0 PROVE Covered(new, t, Due(t)')
    OBVIOUS
  <2>1. Due(t) + Balance(l, t, Len(l)) + Adds(w, t) >= 0 /\ Due(t) \in Int
    BY <1>7, <1>9
  <2>2. Covered(new, t, Due(t) + Effect(nop, t))
    BY <1>2, <1>3, <2>1, CoveredMoves
  <2>. QED
    BY <1>8, <2>2
<1>. QED
  BY <1>1, <1>3, <1>7, <1>13, <1>14 DEF l, new, nop

\* The root's tree and answer across a clock edge.
LEMMA RootStep ==
  ASSUME GenInv, NEW in, TopClock(in)
  PROVE  /\ ROOT \in TreeId /\ ROOT % LEVEL = ROOT /\ ROOT \in RPU
         /\ \A w \in DOMAIN bag'[ROOT] : w \div TreeSpan \in Trees
         /\ Out(ROOT)'.valid => Out(ROOT)'.word \div TreeSpan \in Trees
         /\ \A t : /\ Cardinality(Named(bag'[ROOT], t)) + Asked(Answers(t)')
                        = Cardinality(Named(bag[ROOT], t)) + IssueNames(Issue(ROOT), t)
                   /\ Cardinality(Named(bag[ROOT], t)) \in Nat
                   /\ Cardinality(Named(bag'[ROOT], t)) \in Nat
<1> DEFINE op == Issue(ROOT)
           B == bag[ROOT]
           R == bag'[ROOT]
           o == Out(ROOT)'
<1>1. ROOT \in TreeId /\ ROOT % LEVEL = ROOT /\ ROOT \in RPU
  BY ZeroWordAssumption, LevelAssumption DEF ROOT, RPU
<1>2. EngineInv /\ TypeInv /\ RPUClock /\ RootInv /\ Covered(Waiting(ROOT), ROOT, Due(ROOT))
  BY <1>1 DEF GenInv, EngineInv, TopClock
<1>3. Holds(ROOT) + Effect(op, ROOT) >= 0
  <2>1. Waiting(ROOT) \in Seq(RootTask)
    BY <1>2 DEF RootInv
  <2> DEFINE l == Waiting(ROOT)
  <2>2. Len(l) \in Nat
    BY <2>1, LenProperties
  <2>3. Holds(ROOT) \in Nat
    BY <1>1, <1>2, FS_CardinalityType DEF EngineInv, TreeInv, Holds
  <2>4. Effect(op, ROOT) \in Int /\ Due(ROOT) = Holds(ROOT) + Effect(op, ROOT)
    BY <1>1, AskedType DEF Due
  <2> HIDE DEF l, op
  <2>5. Due(ROOT) + Balance(l, ROOT, 0) >= 0 /\ Balance(l, ROOT, 0) = 0
    BY <1>2, <2>2, BalanceType DEF Covered, l
  <2>. QED
    BY <2>3, <2>4, <2>5
<1>4. /\ IsABag(B) /\ IsFiniteSet(Copies(B))
      /\ op.op = "PUSH" /\ op.tree = ROOT => R = Add(B, op.data)
      /\ op.op = "POP" /\ op.tree = ROOT => R = Remove(B, o.word) /\ o.word \in DOMAIN B
      /\ ~(op.op \in {"PUSH", "POP"} /\ op.tree = ROOT) => R = B
  BY <1>1, <1>2, <1>3, TreeHolds
<1>5. /\ op.op = "POP" => o.valid
      /\ op.op # "POP" => ~o.valid
  <2>1. /\ op.op = "POP" => o = [tree |-> op.tree, valid |-> TRUE, word |-> Least(Tree(op.tree)[Root].eff)]
        /\ op.op # "POP" => o = [tree |-> 0, word |-> AllOnes, valid |-> FALSE]
    BY <1>1, <1>2, AnswerFacts
  <2> HIDE DEF op, o
  <2>. QED
    BY <2>1
<1>6. /\ op.op # "NONE" => op.tree = ROOT
      /\ op.op = "PUSH" => op.data \div TreeSpan \in Trees
      /\ \A w \in DOMAIN B : w \div TreeSpan \in Trees
  BY <1>2 DEF RootInv
<1>7. \A t : Answers(t)' <=> o.valid /\ o.word \div TreeSpan = t
  BY DEF Answers, TreeSpan
<1>8. op.op \in {"NONE", "PUSH", "POP"}
  BY DEF Issue
<1>9. ASSUME NEW t PROVE Cardinality(Named(B, t)) \in Nat
  BY <1>4, FS_Subset, FS_CardinalityType DEF Named
<1> HIDE DEF op, o, B, R
<1>10. CASE op.op = "PUSH"
  <2>1. R = Add(B, op.data) /\ ~o.valid
    BY <1>4, <1>5, <1>6, <1>10
  <2>2. DOMAIN R = DOMAIN B \cup {op.data}
    BY <1>4, <2>1, AddFacts DEF Added
  <2>3. \A w \in DOMAIN R : w \div TreeSpan \in Trees
    BY <1>6, <1>10, <2>2
  <2>4. ASSUME NEW t
        PROVE  /\ Cardinality(Named(R, t)) + Asked(Answers(t)') = Cardinality(Named(B, t)) + IssueNames(op, t)
               /\ Cardinality(Named(R, t)) \in Nat
    <3>1. Cardinality(Named(R, t)) = Cardinality(Named(B, t)) + Asked(op.data \div TreeSpan = t)
      BY <1>4, <2>1, NamedAdded
    <3>2. Asked(Answers(t)') = 0
      BY <1>7, <2>1 DEF Asked
    <3>3. IssueNames(op, t) = Asked(op.data \div TreeSpan = t) /\ IssueNames(op, t) \in {0, 1}
      BY <1>10 DEF IssueNames, Asked
    <3>. QED
      BY <1>9, <3>1, <3>2, <3>3
  <2>. QED
    BY <1>1, <1>9, <2>1, <2>3, <2>4 DEF op, o, B, R
<1>11. CASE op.op = "POP"
  <2>1. R = Remove(B, o.word) /\ o.word \in DOMAIN B /\ o.valid
    BY <1>4, <1>5, <1>6, <1>11
  <2>2. DOMAIN R \subseteq DOMAIN B
    <3>1. R = Removed(B, o.word)
      BY <1>4, <2>1, RemoveFacts
    <3>. QED
      BY <3>1 DEF Removed
  <2>3. \A w \in DOMAIN R : w \div TreeSpan \in Trees
    BY <1>6, <2>2
  <2>5. o.word \div TreeSpan \in Trees
    BY <1>6, <2>1
  <2>4. ASSUME NEW t
        PROVE  /\ Cardinality(Named(R, t)) + Asked(Answers(t)') = Cardinality(Named(B, t)) + IssueNames(op, t)
               /\ Cardinality(Named(R, t)) \in Nat
    <3> DEFINE v == o.word
    <3>0. v \in DOMAIN B /\ R = Remove(B, v)
      BY <2>1
    <3> HIDE DEF v
    <3>1. Cardinality(Named(R, t)) = Cardinality(Named(B, t)) - Asked(v \div TreeSpan = t)
      BY <1>4, <3>0, NamedRemoved
    <3>2. Asked(Answers(t)') = Asked(v \div TreeSpan = t) /\ Asked(v \div TreeSpan = t) \in {0, 1}
      BY <1>7, <2>1 DEF Asked, v
    <3>3. IssueNames(op, t) = 0
      BY <1>11 DEF IssueNames, Asked
    <3>4. Cardinality(Named(R, t)) \in Nat
      <4>1. IsFiniteSet(Copies(R))
        BY <1>4, <3>0, CopiesRemoved
      <4>. QED
        BY <4>1, FS_Subset, FS_CardinalityType DEF Named
    <3>. QED
      BY <1>9, <3>1, <3>2, <3>3, <3>4
  <2>. QED
    BY <1>1, <1>9, <2>3, <2>4, <2>5 DEF op, o, B, R
<1>12. CASE op.op = "NONE"
  <2>1. R = B /\ ~o.valid
    BY <1>4, <1>5, <1>12
  <2>2. ASSUME NEW t
        PROVE  /\ Cardinality(Named(R, t)) + Asked(Answers(t)') = Cardinality(Named(B, t)) + IssueNames(op, t)
               /\ Cardinality(Named(R, t)) \in Nat
    <3>1. Asked(Answers(t)') = 0 /\ IssueNames(op, t) = 0
      BY <1>7, <1>12, <2>1 DEF Asked, IssueNames
    <3>. QED
      BY <1>9, <2>1, <3>1
  <2>. QED
    BY <1>1, <1>6, <1>9, <2>1, <2>2 DEF op, o, B, R
<1>. QED
  BY <1>8, <1>10, <1>11, <1>12

\* One clock edge keeps the root's names.
LEMMA RootInvStep ==
  ASSUME GenInv, NoneFull, NEW req \in Requests, TopClock(Ports(req)), PathClock(Ports(req))
  PROVE  RootInv'
<1> DEFINE w == Ports(req)[ROOT]
<1>1. /\ ROOT \in TreeId /\ ROOT % LEVEL = ROOT /\ ROOT \in RPU
      /\ \A v \in DOMAIN bag'[ROOT] : v \div TreeSpan \in Trees
      /\ Out(ROOT)'.valid => Out(ROOT)'.word \div TreeSpan \in Trees
  BY RootStep
<1>2. w \in Task /\ w \in RootTask
  BY RootPort DEF RootTask
<1> HIDE DEF w
<1>3. w = Ports(req)[ROOT]
  BY DEF w
<1>4. Waiting(ROOT) \in Seq(Word) /\ Moves(Waiting(ROOT), Issue(ROOT)', w, Waiting(ROOT)')
  BY <1>1, <1>2, <1>3, AheadStep
<1>5. Waiting(ROOT) \in Seq(RootTask)
  BY DEF GenInv, RootInv
<1>6. /\ Waiting(ROOT)' \in Seq(RootTask)
      /\ Issue(ROOT)'.op # "NONE" => Issue(ROOT)'.tree = ROOT
      /\ Issue(ROOT)'.op = "PUSH" => Issue(ROOT)'.data \div TreeSpan \in Trees
  BY <1>2, <1>4, <1>5, RootTasksMove
<1>. QED
  BY <1>1, <1>6 DEF RootInv, AnswerNamed, TreeSpan

\* Every answer is a word of the tree.
LEMMA AnswersFound ==
  ASSUME GenInv, NoneFull, NEW req \in Requests, TopClock(Ports(req)), PathClock(Ports(req))
  PROVE  PopsFindPackets'
<1> SUFFICES ASSUME NEW i \in RPU, is_level0_pop(rpu[i])' PROVE Out(i)'.word # AllOnes
  BY DEF PopsFindPackets, AllOnes
<1>1. EngineInv /\ TypeInv /\ RPUClock
  BY DEF GenInv, EngineInv, TopClock
<1>2. Out(i)'.valid
  BY DEF Out
<1> DEFINE op == Issue(i)
           t == op.tree
           o == Out(i)'
<1>3. op.op = "POP"
  <2>1. op.op # "POP" => o = [tree |-> 0, word |-> AllOnes, valid |-> FALSE]
    BY <1>1, AnswerFacts
  <2> HIDE DEF op, o
  <2>. QED
    BY <1>2, <2>1 DEF o
<1>4. t \in TreeId /\ t % LEVEL = i
  <2>1. t \in TreeId /\ Host(t, Root) = i
    BY <1>1, <1>3, AnswerFacts
  <2> HIDE DEF t
  <2>. QED
    BY <2>1, Positions, HostFacts
<1>5. Holds(t) + Effect(op, t) >= 0
  <2>1. Covered(Waiting(i), t, Due(t))
    BY <1>4 DEF GenInv
  <2>2. Waiting(i) \in Seq(Word)
    <3>1. PathInv
      BY <1>1 DEF TypeInv, TopInv
    <3>2. AnswerNamed
      BY DEF GenInv, RootInv
    <3>3. Ports(req)[i] \in Task
      <4>1. CASE i = ROOT
        BY <4>1, RootPort
      <4>2. CASE i # ROOT
        BY <3>2, <4>2, OtherPort
      <4>. QED
        BY <4>1, <4>2
    <3>. QED
      BY <3>1, <3>3, ListMoves DEF NoneFull
  <2> DEFINE l == Waiting(i)
  <2>3. Len(l) \in Nat
    BY <2>2, LenProperties
  <2>4. Holds(t) \in Nat
    BY <1>1, <1>4, FS_CardinalityType DEF EngineInv, TreeInv, Holds
  <2>5. Effect(op, t) \in Int /\ Due(t) = Holds(t) + Effect(op, t)
    BY <1>4, AskedType DEF Due
  <2> HIDE DEF l, op, t
  <2>6. Due(t) + Balance(l, t, 0) >= 0 /\ Balance(l, t, 0) = 0
    BY <2>1, <2>3, BalanceType DEF Covered, l
  <2>. QED
    BY <2>4, <2>5, <2>6
<1>. QED
  BY <1>1, <1>3, <1>4, <1>5, TreeHolds

\* One clock edge keeps a packet for every name.
LEMMA TokensStep ==
  ASSUME GenInv, NoneFull, NEW req \in Requests, TopClock(Ports(req)), PathClock(Ports(req)),
         NEW t \in TreeId \ {ROOT}
  PROVE  /\ Tokens(t)' = Tokens(t) + Asked(req.push /\ req.tree = t) - Asked(Answers(t))
         /\ Tokens(t) \in Nat /\ Tokens(t) >= Asked(Answers(t))
<1> DEFINE l == Waiting(ROOT)
           op == Issue(ROOT)
           new == Waiting(ROOT)'
           nop == Issue(ROOT)'
           w == Ports(req)[ROOT]
           P == Asked(req.push /\ req.tree = t)
           C == Cardinality(Named(bag[ROOT], t))
           D == Cardinality(Named(bag'[ROOT], t))
           A == Asked(Answers(t))
           Z == Asked(Answers(t)')
<1>1. /\ ROOT \in TreeId /\ ROOT % LEVEL = ROOT /\ ROOT \in RPU
      /\ D + Z = C + IssueNames(op, t) /\ C \in Nat /\ D \in Nat
  BY RootStep
<1>2. TaskNames(w, t) = P
  BY RequestAdds DEF GenInv, RootInv
<1>3. w \in Task
  BY RootPort
<1>4. l \in Seq(Word) /\ Moves(l, nop, w, new)
  BY <1>1, <1>3, AheadStep
<1>5. /\ Tokens(t) = NamesIn(l, t) + IssueNames(op, t) + C + A
      /\ Tokens(t)' = NamesIn(new, t) + IssueNames(nop, t) + D + Z
  <2>1. Tokens(t)' = NamesIn(new, t) + IssueNames(nop, t) + D + Z
    BY DEF Tokens, NamesIn, IssueNames, Num, NameMarks, Named, Copies, TreeSpan, Asked
  <2>. QED
    BY <2>1 DEF Tokens
<1>6. P \in {0, 1} /\ A \in {0, 1} /\ Z \in {0, 1} /\ IssueNames(op, t) \in {0, 1} /\ IssueNames(nop, t) \in {0, 1}
  BY DEF IssueNames, Asked
<1> HIDE DEF l, op, new, nop, w, P, C, D, A, Z
<1>7. Moved(l, nop, w, new, t)
  BY <1>3, <1>4, BalanceMoves, Zenon
<1>8. NamesIn(new, t) + IssueNames(nop, t) = NamesIn(l, t) + P /\ Len(l) \in Nat /\ Len(new) \in Nat
  BY <1>2, <1>7 DEF Moved
<1>9. NamesIn(l, t) \in Nat /\ NamesIn(new, t) \in Nat
  BY <1>8, NumType DEF NamesIn
<1>10. Tokens(t)' = Tokens(t) + P - A /\ Tokens(t) \in Nat /\ Tokens(t) >= A
  <2> DEFINE N == NamesIn(l, t)
             M == NamesIn(new, t)
             I == IssueNames(op, t)
             J == IssueNames(nop, t)
  <2>1. /\ N \in Nat /\ M \in Nat /\ C \in Nat /\ D \in Nat
        /\ P \in {0, 1} /\ A \in {0, 1} /\ Z \in {0, 1} /\ I \in {0, 1} /\ J \in {0, 1}
        /\ M + J = N + P /\ D + Z = C + I
        /\ Tokens(t) = N + I + C + A /\ Tokens(t)' = M + J + D + Z
    BY <1>1, <1>5, <1>6, <1>8, <1>9
  <2> HIDE DEF N, M, I, J
  <2>2. Tokens(t)' = N + P + C + I
    BY <2>1
  <2>. QED
    BY <2>1, <2>2
<1>. QED
  BY <1>10 DEF P, A

\* One step of the scheduler keeps the invariant.
LEMMA GenStep ==
  ASSUME Sized, GenInv, Fits, NoneFull, GenNext
  PROVE  GenInv'
<1>1. PICK req \in Requests : Request(req) /\ FIFOClock(Ports(req))
  BY DEF GenNext
<1>2. DispatcherClock /\ RPUClock /\ History /\ AnswerNamed /\ EngineInv
  BY DEF GenNext, GenInv, RootInv
<1>3. /\ \A i \in RPU : Ports(req)[i] \in Task
      /\ TopClock(Ports(req)) /\ PathClock(Ports(req))
      /\ TopClock(Clean(Ports(req))) /\ AllAtHome(Clean(Ports(req)))
  BY <1>1, <1>2, GeneratorClocks
<1>4. EngineInv'
  BY <1>2, <1>3, EngineClock
<1>5. RootInv' /\ PopsFindPackets'
  BY <1>3, RootInvStep, AnswersFound
<1>6. /\ ROOT \in TreeId /\ ROOT % LEVEL = ROOT /\ ROOT \in RPU
  BY ZeroWordAssumption, LevelAssumption DEF ROOT, RPU
<1>7. /\ Adds(Ports(req)[ROOT], ROOT) = Asked(req.push) - Asked(req.pop)
      /\ \A t \in TreeId \ {ROOT} :
           Adds(Ports(req)[t % LEVEL], t) = Asked(req.push /\ req.tree = t) - Asked(Answers(t))
  BY <1>2, RequestAdds
<1>8. /\ backlog' = (backlog + Asked(req.push)) - Asked(req.pop)
      /\ req.pop => backlog + Asked(req.push) > 0
  BY <1>1 DEF Request
<1>9. ASSUME NEW t \in TreeId
      PROVE  /\ t % LEVEL \in RPU /\ Ahead(t) \in Int
             /\ Ahead(t)' = Ahead(t) + Adds(Ports(req)[t % LEVEL], t)
             /\ Ahead(t) + Adds(Ports(req)[t % LEVEL], t) >= 0 => Covered(Waiting(t % LEVEL)', t, Due(t)')
  <2>1. t % LEVEL \in RPU
    BY TreeIdAssumption, LevelAssumption DEF RPU
  <2> DEFINE i == t % LEVEL
             w == Ports(req)[i]
  <2>2. w \in Task
    BY <1>3, <2>1
  <2> HIDE DEF w, i
  <2>3. i = t % LEVEL /\ w = Ports(req)[i]
    BY DEF i, w
  <2>4. /\ Ahead(t) \in Int /\ Ahead(t)' = Ahead(t) + Adds(w, t)
        /\ Ahead(t) + Adds(w, t) >= 0 => Covered(Waiting(i)', t, Due(t)')
    BY <1>3, <2>2, <2>3, AheadStep
  <2>. QED
    BY <2>1, <2>4 DEF w, i
<1>10. /\ backlog' \in Nat /\ Ahead(ROOT)' = backlog'
       /\ Covered(Waiting(ROOT)', ROOT, Due(ROOT)')
  <2>1. backlog \in Nat /\ Ahead(ROOT) = backlog
    BY DEF GenInv
  <2>2. Asked(req.push) \in {0, 1} /\ Asked(req.pop) \in {0, 1} /\ (~req.pop => Asked(req.pop) = 0)
    BY DEF Asked
  <2>3. backlog' \in Nat
    BY <1>8, <2>1, <2>2
  <2>4. Ahead(ROOT)' = Ahead(ROOT) + (Asked(req.push) - Asked(req.pop))
    BY <1>6, <1>7, <1>9
  <2>5. Ahead(ROOT)' = backlog'
    BY <1>8, <2>1, <2>2, <2>4
  <2>6. Covered(Waiting(ROOT % LEVEL)', ROOT, Due(ROOT)')
    BY <1>6, <1>9, <2>3, <2>5
  <2>. QED
    BY <1>6, <2>3, <2>5, <2>6
<1>11. ASSUME NEW t \in TreeId \ {ROOT}
       PROVE  Ahead(t)' = Tokens(t)' /\ Covered(Waiting(t % LEVEL)', t, Due(t)')
  <2> DEFINE P == Asked(req.push /\ req.tree = t)
             A == Asked(Answers(t))
  <2>1. Ahead(t) = Tokens(t)
    BY DEF GenInv
  <2>2. Tokens(t)' = Tokens(t) + P - A /\ Tokens(t) \in Nat /\ Tokens(t) >= A
    BY <1>3, TokensStep
  <2>3. P \in {0, 1} /\ A \in {0, 1}
    BY DEF Asked
  <2>4. Ahead(t)' = Ahead(t) + (P - A)
    BY <1>7, <1>9
  <2>5. Ahead(t)' = Tokens(t)' /\ Ahead(t)' >= 0
    <3> HIDE DEF P, A
    <3>. QED
      BY <2>1, <2>2, <2>3, <2>4
  <2>. QED
    BY <1>9, <2>5
<1>12. (\A t \in TreeId : Covered(Waiting(t % LEVEL), t, Due(t)))'
  <2> SUFFICES ASSUME NEW t \in TreeId PROVE Covered(Waiting(t % LEVEL)', t, Due(t)')
    BY DEF Covered, Balance, Num, PushMarks, PopMarks
  <2>. QED
    BY <1>6, <1>10, <1>11
<1>13. (\A t \in TreeId \ {ROOT} : Ahead(t) = Tokens(t))'
  BY <1>11
<1>. QED
  BY <1>4, <1>5, <1>10, <1>12, <1>13 DEF GenInv

-----------------------------------------------------------------------------
(* The theorems about the scheduler.                                       *)
\* A tree whose list is empty and on which nothing is started.
LEMMA AtRestAhead ==
  ASSUME NEW t, Holds(t) \in Nat, Waiting(t % LEVEL) = << >>, Issue(t % LEVEL).op = "NONE"
  PROVE  /\ Due(t) = Holds(t) /\ Ahead(t) = Holds(t)
         /\ Covered(Waiting(t % LEVEL), t, Due(t))
<1> DEFINE l == Waiting(t % LEVEL)
<1>1. Len(l) = 0 /\ Balance(l, t, 0) = 0
  BY BalanceType, EmptySeq
<1>2. Due(t) = Holds(t)
  BY DEF Due, Effect
<1>3. Ahead(t) = Holds(t)
  BY <1>1, <1>2 DEF Ahead
<1>4. Covered(l, t, Due(t))
  <2> HIDE DEF l
  <2>1. \A k \in 0 .. Len(l) : k = 0
    BY <1>1
  <2>. QED
    BY <1>1, <1>2, <2>1 DEF Covered
<1>. QED
  BY <1>2, <1>3, <1>4

\* The names of a tree when nothing waits, is started or answered.
LEMMA AtRestTokens ==
  ASSUME NEW t, Waiting(ROOT) = << >>, Issue(ROOT).op = "NONE", ~Out(ROOT).valid,
         Cardinality(Named(bag[ROOT], t)) \in Nat
  PROVE  Tokens(t) = Cardinality(Named(bag[ROOT], t))
<1>1. Len(<< >>) = 0 /\ Num(NameMarks(<< >>, t), 0) = 0
  BY NumType, EmptySeq
<1>2. NamesIn(Waiting(ROOT), t) = 0
  BY <1>1 DEF NamesIn
<1>3. IssueNames(Issue(ROOT), t) = 0 /\ Asked(Answers(t)) = 0
  BY DEF IssueNames, Answers, Asked
<1>. QED
  BY <1>2, <1>3 DEF Tokens

\* After reset.
LEMMA GenInitInv == GenInit => GenInv
<1> SUFFICES ASSUME GenInit PROVE GenInv
  OBVIOUS
<1>1. TopInit /\ backlog = 0 /\ EngineInv
  BY EngineInit DEF GenInit
<1>2. ASSUME NEW i \in RPU PROVE Waiting(i) = << >> /\ Issue(i).op = "NONE" /\ ~Out(i).valid /\ ~is_level0_pop(rpu[i])
  <2>1. TaskHead(fifo_out)[i] = NoTask /\ fifo[i] = << >>
    BY <1>1 DEF TopInit, FIFOInit, Init, TaskHead
  <2>2. Waiting(i) = << >>
    BY <2>1, ConcatEmptySeq, EmptySeq DEF Waiting, NoTask
  <2>3. Issue(i).op = "NONE"
    BY <1>1 DEF TopInit, Init, Issue
  <2>4. ~is_level0_pop(rpu[i])
    BY <1>1 DEF TopInit, ResetRegisters, is_level0_pop
  <2>. QED
    BY <2>2, <2>3, <2>4 DEF Out
<1>3. ASSUME NEW t \in TreeId
      PROVE  /\ DOMAIN bag[t] = {} /\ Holds(t) = 0
             /\ \A u : Cardinality(Named(bag[t], u)) = 0
  <2>1. bag[t] = EmptyBag
    BY <1>1 DEF TopInit
  <2>2. DOMAIN bag[t] = {}
    BY <2>1 DEF EmptyBag, SetToBag
  <2>3. Copies(bag[t]) = {} /\ \A u : Named(bag[t], u) = {}
    BY <2>2 DEF Copies, Named
  <2>4. Cardinality({}) = 0
    BY FS_EmptySet
  <2>. QED
    BY <2>2, <2>3, <2>4 DEF Holds
<1>4. ROOT \in TreeId /\ ROOT % LEVEL = ROOT /\ ROOT \in RPU
  BY ZeroWordAssumption, LevelAssumption DEF ROOT, RPU
<1>5. ASSUME NEW t \in TreeId PROVE Ahead(t) = 0 /\ Covered(Waiting(t % LEVEL), t, Due(t))
  <2>1. t % LEVEL \in RPU
    BY TreeIdAssumption, LevelAssumption DEF RPU
  <2>. QED
    BY <1>2, <1>3, <2>1, AtRestAhead
<1>6. \A t : Tokens(t) = 0
  BY <1>2, <1>3, <1>4, AtRestTokens
<1>7. RootInv
  BY <1>2, <1>3, <1>4, EmptySeq DEF RootInv, AnswerNamed
<1>8. PopsFindPackets
  BY <1>2 DEF PopsFindPackets
<1>. QED
  BY <1>1, <1>4, <1>5, <1>6, <1>7, <1>8 DEF GenInv

\* A step that changes nothing.
LEMMA GenStutter ==
  ASSUME GenInv, UNCHANGED genVars
  PROVE  GenInv'
<1>1. UNCHANGED topVars /\ backlog' = backlog
  BY DEF genVars
<1>2. EngineInv'
  BY <1>1, EngineStutter DEF GenInv
<1>3. /\ rpu_push_new' = rpu_push_new /\ rpu_pop_new' = rpu_pop_new /\ rpu_treeId' = rpu_treeId
      /\ rpu_push_data' = rpu_push_data /\ TaskHead_last' = TaskHead_last
      /\ pop_TaskFIFO_last' = pop_TaskFIFO_last
      /\ fifo' = fifo /\ fifo_out' = fifo_out /\ rpu' = rpu /\ rdata' = rdata /\ bag' = bag
  BY <1>1 DEF topVars, tdVars, shadowVars, issueVars, headVars, fifoVars, rpuVars
<1>4. \A i : /\ Waiting(i)' = Waiting(i) /\ Issue(i)' = Issue(i) /\ Out(i)' = Out(i)
             /\ is_level0_pop(rpu[i])' <=> is_level0_pop(rpu[i])
  BY <1>3 DEF Waiting, Issue, Out, TaskHead, is_level0_pop
<1>5. \A t : Holds(t)' = Holds(t) /\ Cardinality(Named(bag[ROOT], t))' = Cardinality(Named(bag[ROOT], t))
             /\ Answers(t)' = Answers(t)
  BY <1>3, <1>4 DEF Holds, Copies, Named, Answers, TreeSpan
<1>6. \A t : Due(t)' = Due(t)
  BY <1>4, <1>5 DEF Due, Effect
<1>7. \A t : /\ Ahead(t)' = Ahead(t)
             /\ Covered(Waiting(t % LEVEL), t, Due(t))' <=> Covered(Waiting(t % LEVEL), t, Due(t))
  BY <1>4, <1>6 DEF Ahead, Covered, Balance, Num, PushMarks, PopMarks
<1>8. \A t : Tokens(t)' = Tokens(t)
  BY <1>4, <1>5 DEF Tokens, NamesIn, Num, NameMarks, IssueNames, Asked, TreeSpan
<1>9. RootInv'
  BY <1>3, <1>4 DEF GenInv, RootInv, AnswerNamed, TreeSpan
<1>10. PopsFindPackets'
  BY <1>4 DEF GenInv, PopsFindPackets
<1>. QED
  BY <1>1, <1>2, <1>6, <1>7, <1>8, <1>9, <1>10 DEF GenInv

\* When the scheduler is quiet, names and packets are where they belong.
LEMMA QuietAccounts ==
  ASSUME GenInv PROVE PacketsAccounted
<1> SUFFICES ASSUME Quiet
             PROVE  /\ backlog = Cardinality(Copies(bag[ROOT]))
                    /\ \A t \in TreeId \ {ROOT} :
                         Cardinality(Copies(bag[t])) = Cardinality(Named(bag[ROOT], t))
  BY DEF PacketsAccounted, Named
<1>1. \A i \in RPU : Waiting(i) = << >> /\ Issue(i).op = "NONE" /\ ~Out(i).valid
  BY DEF Quiet, Out, is_level0_pop
<1>2. ROOT \in TreeId /\ ROOT % LEVEL = ROOT /\ ROOT \in RPU
  BY ZeroWordAssumption, LevelAssumption DEF ROOT, RPU
<1>3. ASSUME NEW t \in TreeId PROVE Holds(t) \in Nat /\ IsFiniteSet(Copies(bag[t]))
  BY FS_CardinalityType DEF GenInv, EngineInv, TreeInv, Holds
<1>4. ASSUME NEW t \in TreeId PROVE Ahead(t) = Holds(t)
  <2>1. t % LEVEL \in RPU
    BY TreeIdAssumption, LevelAssumption DEF RPU
  <2>. QED
    BY <1>1, <1>3, <2>1, AtRestAhead
<1>5. ASSUME NEW t PROVE Tokens(t) = Cardinality(Named(bag[ROOT], t))
  <2>1. Cardinality(Named(bag[ROOT], t)) \in Nat
    BY <1>2, <1>3, FS_Subset, FS_CardinalityType DEF Named
  <2>. QED
    BY <1>1, <1>2, <2>1, AtRestTokens
<1>. QED
  BY <1>2, <1>4, <1>5 DEF GenInv, Holds

\* With three levels no two RPUs beside the root's answer at once.
LEMMA OneAnswer ==
  ASSUME TopInv, LEVEL = 3 PROVE EveryAnswerShown
<1> SUFFICES ASSUME NEW i \in AnswerRPUs PROVE o_pop = Out(i)
  BY DEF EveryAnswerShown
<1>1. RPU = {0, 1, 2}
  BY DEF RPU
<1>2. AnswerRPUs \subseteq {1, 2}
  BY <1>1 DEF AnswerRPUs, ROOT
<1>3. ~(1 \in AnswerRPUs /\ 2 \in AnswerRPUs)
  <2> SUFFICES ASSUME 1 \in AnswerRPUs, 2 \in AnswerRPUs PROVE FALSE
    OBVIOUS
  <2>1. /\ rpu[1].fsm = "POP" /\ rpu[1].level = 0
        /\ rpu[2].fsm = "POP" /\ rpu[2].level = 0
    BY DEF AnswerRPUs, is_level0_pop
  <2>2. Pred(2) = 1
    BY <1>1, PredRPU
  <2>3. HandsOn(1, "POP")
    BY <2>1 DEF HandsOn
  <2>4. rpu_level[2] = rpu[1].level + 1
    BY <1>1, <2>2, <2>3 DEF TopInv, InStep, HandedPredicted
  <2>5. rpu_level[2] = rpu[2].level
    BY <1>1, <2>1 DEF TopInv, InStep, Behind
  <2>. QED
    BY <2>1, <2>4, <2>5
<1>4. AnswerRPUs = {i}
  BY <1>2, <1>3
<1>5. (CHOOSE j \in AnswerRPUs : \A k \in AnswerRPUs : k <= j) = i
  <2>1. i \in {1, 2} /\ i <= i
    BY <1>2
  <2>. QED
    BY <1>4, <2>1
<1>. QED
  BY <1>4, <1>5 DEF o_pop

\* The invariant holds in every reachable state.
LEMMA GenInvInvariant ==
  ASSUME LEVEL >= 3, CTW >= LEVEL
  PROVE  GenSpec /\ []Fits /\ []NoneFull => []GenInv
<1>1. Sized
  BY DEF Sized
<1>2. GenInv /\ Fits /\ NoneFull /\ [GenNext]_genVars => GenInv'
  BY <1>1, GenStep, GenStutter
<1>. QED
  BY <1>2, GenInitInv, PTL DEF GenSpec

\* The scheduler never asks a tree for a packet before the packet is there: for
\* all numbers of levels, trees, packets and requests, a pop of a tree that the
\* root's answer asks for finds a word, although push and pop take different
\* ways.  No FIFO may be full (NoneFull), for a full one drops words unseen, and
\* pushes must fit.
THEOREM PopsFindThePackets ==
  ASSUME LEVEL >= 3, CTW >= LEVEL
  PROVE  GenSpec /\ []Fits /\ []NoneFull => []PopsFindPackets
<1>1. GenInv => PopsFindPackets
  BY DEF GenInv
<1>. QED
  BY <1>1, GenInvInvariant, PTL

\* No packet is lost and none is left without its identifier: whenever the
\* scheduler has come to rest, the root holds what was requested in and not out,
\* and every tree as many packets as the root names it.
THEOREM PacketsAreAccounted ==
  ASSUME LEVEL >= 3, CTW >= LEVEL
  PROVE  GenSpec /\ []Fits /\ []NoneFull => []PacketsAccounted
<1>1. GenInv => PacketsAccounted
  BY QuietAccounts
<1>. QED
  BY <1>1, GenInvInvariant, PTL

\* With three levels every packet that leaves its tree is seen on the one output
\* port: the RPUs 1 and 2 are neighbours, and a pop that begins on the first is
\* on the second one cycle later.
THEOREM AnswersAreShown ==
  ASSUME LEVEL = 3, CTW >= LEVEL
  PROVE  GenSpec /\ []Fits /\ []NoneFull => []EveryAnswerShown
<1>1. GenInv => EveryAnswerShown
  BY OneAnswer DEF GenInv, EngineInv, TypeInv
<1>2. LEVEL >= 3
  OBVIOUS
<1>. QED
  BY <1>1, <1>2, GenInvInvariant, PTL
=============================================================================
