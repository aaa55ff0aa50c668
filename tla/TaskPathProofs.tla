--------------------------- MODULE TaskPathProofs ---------------------------
(***************************************************************************)
(* The dispatcher (module TaskDistribute) never loses a command, for every *)
(* number of RPUs, every mix of tasks and every behaviour of the FIFOs.    *)
(* The inductive invariant joins EveryCommandTaken with PopUndisturbed: an *)
(* RPU may only enter POP when the RPU before it will have nothing to hand *)
(* on in the next cycle, which is what the ready wires are there to        *)
(* ensure.  The task path (module TaskPath) implements the task lists for  *)
(* every number of RPUs, every FIFO size and every alphabet of tasks.  The *)
(* argument is local to a list and to a clock edge: what the dispatcher    *)
(* leaves of the task at the head is either empty, and the next word takes *)
(* its place, or stays the head.                                           *)
(***************************************************************************)
EXTENDS TaskPath, SequenceTheorems, TLAPS


InheritedIsTaken == \A i \in RPU : rpu_pop_inherit[i] => rpu_pop[i]

IInv == TypeOK /\ EveryCommandTaken /\ PopUndisturbed /\ InheritedIsTaken

\* The RPU before an RPU is an RPU.
LEMMA PredRPU == \A i \in RPU : Pred(i) \in RPU /\ (i # 0 => Pred(i) = i - 1)
BY LevelAssumption DEF RPU, Pred

\* The all-zero task is a task.
LEMMA NoTaskType == NoTask \in Task
BY ZeroWordAssumption DEF NoTask, Task

\* The registers start in the invariant.
LEMMA InitIInv == Init => IInv
<1> SUFFICES ASSUME Init PROVE IInv
  OBVIOUS
<1>1. 0 \in RPU
  BY LevelAssumption DEF RPU
<1>2. TypeOK
  BY <1>1, NoTaskType, ZeroWordAssumption DEF Init, TypeOK
<1>3. EveryCommandTaken /\ InheritedIsTaken
  BY DEF Init, EveryCommandTaken, InheritedIsTaken
<1>4. PopUndisturbed
  BY DEF Init, PopUndisturbed
<1> QED
  BY <1>2, <1>3, <1>4 DEF IInv

(* What the prediction says of an RPU that is left alone in this cycle.    *)
LEMMA MidFacts ==
  ASSUME IInv, NEW i \in RPU
  PROVE  /\ ~(rpu_push_inherit_nxt(i) /\ rpu_pop_inherit_nxt(i))
         /\ rpu_state_mid(i) = "IDLE"
              => /\ rpu_state[i] # "POP"
                 /\ ~rpu_push_inherit_nxt(i) /\ ~rpu_pop_inherit_nxt(i)
<1>1. Pred(i) \in RPU
  BY PredRPU
<1>2. ~(rpu_push[Pred(i)] /\ rpu_pop[Pred(i)])
  BY <1>1 DEF IInv, EveryCommandTaken
<1>3. ~(rpu_push_inherit_nxt(i) /\ rpu_pop_inherit_nxt(i))
  BY <1>2 DEF rpu_push_inherit_nxt, rpu_pop_inherit_nxt
<1> QED
  BY <1>3 DEF rpu_state_mid, FsmNext

-----------------------------------------------------------------------------
(* The start wires in a settled cycle: a start needs an RPU that would be  *)
(* idle, never is both a push and a pop, and a pop needs an RPU before it  *)
(* that is ready and starts nothing itself.                                *)
StartsAllowed(push_new, pop_new) ==
  \A i \in RPU :
    /\ push_new[i] \/ pop_new[i] => rpu_state_mid(i) = "IDLE"
    /\ ~(push_new[i] /\ pop_new[i])
    /\ pop_new[i] => /\ rpu_ready_nxt(Pred(i))
                     /\ ~push_new[Pred(i)] /\ ~pop_new[Pred(i)]

\* What the settled start wires imply about the RPU and the one before.
LEMMA SettledStarts ==
  ASSUME NEW head, NEW pop_new \in [RPU -> BOOLEAN], Settled(head, pop_new)
  PROVE  StartsAllowed([i \in RPU |-> rpu_push_new_nxt(head, pop_new, i)], pop_new)
<1> DEFINE push_new == [i \in RPU |-> rpu_push_new_nxt(head, pop_new, i)]
<1> SUFFICES ASSUME NEW i \in RPU
             PROVE  /\ push_new[i] \/ pop_new[i] => rpu_state_mid(i) = "IDLE"
                    /\ ~(push_new[i] /\ pop_new[i])
                    /\ pop_new[i] => /\ rpu_ready_nxt(Pred(i))
                                     /\ ~push_new[Pred(i)] /\ ~pop_new[Pred(i)]
  BY DEF StartsAllowed
<1>1. \A j \in RPU : push_new[j] = rpu_push_new_nxt(head, pop_new, j)
  OBVIOUS
<1>2. \A j \in RPU : pop_new[j] = rpu_pop_new_nxt(head, pop_new, j)
  BY DEF Settled
<1> HIDE DEF push_new
<1>3. push_new[i] => rpu_state_mid(i) = "IDLE" /\ head[i].push
  BY <1>1 DEF rpu_push_new_nxt
<1>4. pop_new[i] => /\ rpu_state_mid(i) = "IDLE" /\ rpu_ready_nxt(Pred(i))
                   /\ ~head[i].push
  BY <1>2 DEF rpu_pop_new_nxt
<1>5. ASSUME pop_new[i] PROVE ~push_new[Pred(i)] /\ ~pop_new[Pred(i)]
  <2>1. CASE i # 0
    <3>1. Pred(i) = i - 1 /\ i - 1 \in RPU
      BY <2>1, PredRPU
    <3>2. ~pop_new[i - 1] /\ ~rpu_push_new_nxt(head, pop_new, i - 1)
      BY <1>2, <1>5, <2>1 DEF rpu_pop_new_nxt
    <3> QED
      BY <1>1, <3>1, <3>2
  <2>2. CASE i = 0
    <3>1. Pred(i) = LEVEL - 1 /\ LEVEL - 1 \in RPU /\ pop_new[0]
      BY <1>5, <2>2, PredRPU DEF Pred
    <3>2. ~rpu_push_new_nxt(head, pop_new, LEVEL - 1)
      BY <3>1 DEF rpu_push_new_nxt
    <3>3. ~rpu_pop_new_nxt(head, pop_new, LEVEL - 1)
      BY <3>1 DEF rpu_pop_new_nxt
    <3> QED
      BY <1>1, <1>2, <3>1, <3>2, <3>3
  <2> QED
    BY <2>1, <2>2
<1> QED
  BY <1>3, <1>4, <1>5

-----------------------------------------------------------------------------
(* The commands of one cycle keep the shadow part of the invariant.        *)
ShadowTypeOK ==
  /\ rpu_state \in [RPU -> {"IDLE", "PUSH", "POP", "WB"}]
  /\ rpu_level \in [RPU -> RPU]
  /\ rpu_push \in [RPU -> BOOLEAN] /\ rpu_pop \in [RPU -> BOOLEAN]
  /\ rpu_pop_inherit \in [RPU -> BOOLEAN]

ShadowInv == /\ ShadowTypeOK /\ EveryCommandTaken
             /\ PopUndisturbed /\ InheritedIsTaken

\* The prediction keeps the invariant when only ready RPUs get new commands.
LEMMA CommandsShadow ==
  ASSUME IInv, NEW push_new \in [RPU -> BOOLEAN], NEW pop_new \in [RPU -> BOOLEAN],
         StartsAllowed(push_new, pop_new), Commands(push_new, pop_new)
  PROVE  ShadowInv'
<1> DEFINE push(i) == push_new[i] \/ rpu_push_inherit_nxt(i)
           pop(i)  == pop_new[i] \/ rpu_pop_inherit_nxt(i)
<1>1. \A i \in RPU :
        /\ rpu_push'[i] = push(i)
        /\ rpu_pop'[i] = pop(i)
        /\ rpu_pop_inherit'[i] = rpu_pop_inherit_nxt(i)
        /\ rpu_state'[i] = FsmNext(rpu_state[i], push(i), pop(i))
        /\ rpu_level'[i] = IF rpu_state[i] = "POP" THEN rpu_level[i]
                           ELSE IF push(i) # pop(i) THEN rpu_level_nxt(i) ELSE 0
  BY DEF Commands
<1>2. ASSUME NEW i \in RPU
      PROVE  /\ ~(push(i) /\ pop(i))
             /\ rpu_state[i] = "POP" => ~push(i) /\ ~pop(i)
  BY MidFacts DEF StartsAllowed, IInv, PopUndisturbed
<1> HIDE DEF push, pop
<1>3. EveryCommandTaken'
  BY <1>1, <1>2 DEF EveryCommandTaken, FsmNext
<1>4. ShadowTypeOK'
  <2>1. ASSUME NEW i \in RPU PROVE rpu_level'[i] \in RPU
    <3>1. rpu_level[i] \in RPU /\ rpu_level[Pred(i)] \in RPU /\ 0 \in RPU
      <4>1. 0 \in RPU
        BY LevelAssumption DEF RPU
      <4> QED
        BY <4>1, PredRPU DEF IInv, TypeOK
    <3>2. CASE rpu_state[i] = "POP"
      BY <1>1, <3>1, <3>2
    <3>3. CASE rpu_state[i] # "POP"
      <4>1. ~rpu_pop_inherit[i]
        BY <3>3 DEF IInv, InheritedIsTaken, EveryCommandTaken
      <4>2. rpu_level_nxt(i) \in RPU
        BY <3>1, <4>1, LevelAssumption
           DEF rpu_level_nxt, rpu_push_inherit_nxt, rpu_pop_inherit_nxt, RPU
      <4> QED
        BY <1>1, <3>1, <3>3, <4>2
    <3> QED
      BY <3>2, <3>3
  <2>2. ASSUME NEW i \in RPU PROVE rpu_state'[i] \in {"IDLE", "PUSH", "POP", "WB"}
    BY <1>1 DEF FsmNext
  <2>3. /\ rpu_level' = [i \in RPU |-> rpu_level'[i]]
        /\ rpu_state' = [i \in RPU |-> rpu_state'[i]]
    BY DEF Commands
  <2>4. /\ rpu_push' \in [RPU -> BOOLEAN] /\ rpu_pop' \in [RPU -> BOOLEAN]
        /\ rpu_pop_inherit' \in [RPU -> BOOLEAN]
    BY DEF Commands, rpu_pop_inherit_nxt
  <2>5. rpu_level' \in [RPU -> RPU]
    BY <2>1, <2>3
  <2>6. rpu_state' \in [RPU -> {"IDLE", "PUSH", "POP", "WB"}]
    BY <2>2, <2>3
  <2> QED
    BY <2>4, <2>5, <2>6 DEF ShadowTypeOK
<1>5. PopUndisturbed'
  <2> SUFFICES ASSUME NEW i \in RPU, rpu_state'[i] = "POP"
               PROVE  \/ ~rpu_push'[Pred(i)] /\ ~rpu_pop'[Pred(i)]
                      \/ ~(rpu_level'[Pred(i)] < LEVEL - 1)
    BY DEF PopUndisturbed, rpu_push_inherit_nxt, rpu_pop_inherit_nxt
  <2>1. Pred(i) \in RPU
    BY PredRPU
  <2>2. rpu_pop'[i]
    BY <1>3 DEF EveryCommandTaken
  <2>3. CASE rpu_pop_inherit_nxt(i)
    <3>1. rpu_state[Pred(i)] = "POP"
      BY <2>1, <2>3 DEF rpu_pop_inherit_nxt, IInv, EveryCommandTaken
    <3>2. rpu_state'[Pred(i)] = "WB"
      BY <1>1, <2>1, <3>1 DEF FsmNext
    <3> QED
      BY <1>3, <2>1, <3>2 DEF EveryCommandTaken
  <2>4. CASE ~rpu_pop_inherit_nxt(i)
    <3>1. pop_new[i]
      BY <1>1, <2>2, <2>4 DEF pop
    <3>2. rpu_ready_nxt(Pred(i)) /\ ~push_new[Pred(i)] /\ ~pop_new[Pred(i)]
      BY <3>1 DEF StartsAllowed
    <3>3. push(Pred(i)) = rpu_push_inherit_nxt(Pred(i))
      BY <2>1, <3>2 DEF push, rpu_push_inherit_nxt
    <3>4. pop(Pred(i)) = rpu_pop_inherit_nxt(Pred(i))
      BY <2>1, <3>2 DEF pop, rpu_pop_inherit_nxt
    <3>5. rpu_state'[Pred(i)] = rpu_state_mid(Pred(i))
      BY <1>1, <2>1, <3>3, <3>4 DEF rpu_state_mid
    <3>6. CASE rpu_state_mid(Pred(i)) \in {"IDLE", "WB", "POP"}
      BY <1>3, <2>1, <3>2, <3>5, <3>6 DEF EveryCommandTaken, rpu_ready_nxt
    <3>7. CASE rpu_state_mid(Pred(i)) = "PUSH"
      <4>1. rpu_level_nxt(Pred(i)) = LEVEL - 1
        BY <3>2, <3>7 DEF rpu_ready_nxt
      <4>2. rpu_state[Pred(i)] # "POP" /\ push(Pred(i)) # pop(Pred(i))
        BY <3>3, <3>4, <3>7 DEF rpu_state_mid, FsmNext
      <4>3. rpu_level'[Pred(i)] = LEVEL - 1
        BY <1>1, <2>1, <4>1, <4>2
      <4> QED
        BY <4>3, LevelAssumption
    <3>8. rpu_state_mid(Pred(i)) \in {"IDLE", "PUSH", "POP", "WB"}
      BY DEF rpu_state_mid, FsmNext
    <3> QED
      BY <3>6, <3>7, <3>8
  <2> QED
    BY <2>3, <2>4
<1>6. InheritedIsTaken'
  BY <1>1 DEF InheritedIsTaken, pop
<1> QED
  BY <1>3, <1>4, <1>5, <1>6 DEF ShadowInv

-----------------------------------------------------------------------------
(* The head of every list stays a task, and so do the operands issued.     *)
IssueTypeOK ==
  /\ rpu_push_new \in [RPU -> BOOLEAN] /\ rpu_pop_new \in [RPU -> BOOLEAN]
  /\ rpu_treeId \in [RPU -> TreeId] /\ rpu_push_data \in [RPU -> PushData]
  /\ TaskHead_last \in [RPU -> Task]
  /\ pop_TaskFIFO_last \in [RPU -> BOOLEAN]

\* The type invariant is that of the prediction and that of the rest.
LEMMA TypeParts == TypeOK <=> ShadowTypeOK /\ IssueTypeOK
BY DEF TypeOK, ShadowTypeOK, IssueTypeOK

\* Operands and head register keep their types.
LEMMA OperandsType ==
  ASSUME NEW head \in [RPU -> Task], NEW push_new \in [RPU -> BOOLEAN],
         NEW pop_new \in [RPU -> BOOLEAN], NEW empty,
         Operands(head, push_new, pop_new),
         TaskHead_last' = TaskHead_after(head, push_new, pop_new),
         pop_TaskFIFO_last' = [i \in RPU |->
           /\ ~TaskHead_after(head, push_new, pop_new)[i].push
           /\ ~TaskHead_after(head, push_new, pop_new)[i].pop
           /\ ~empty[i]]
  PROVE  IssueTypeOK'
<1>1. /\ rpu_push_new' \in [RPU -> BOOLEAN] /\ rpu_pop_new' \in [RPU -> BOOLEAN]
  BY DEF Operands
<1>2. \A i \in RPU : /\ head[i].push_tree \in TreeId /\ head[i].pop_tree \in TreeId
                     /\ head[i].data \in PushData
  BY DEF Task
<1>3. rpu_push_data' \in [RPU -> PushData]
  BY <1>2 DEF Operands
<1>4. rpu_treeId' \in [RPU -> TreeId]
  BY <1>2, ZeroWordAssumption DEF Operands
<1>5. \A t \in Task : /\ [t EXCEPT !.push = ~@] \in Task
                      /\ [t EXCEPT !.pop = ~@] \in Task
  BY DEF Task
<1>6. TaskHead_last' \in [RPU -> Task]
  BY <1>5 DEF TaskHead_after
<1>7. pop_TaskFIFO_last' \in [RPU -> BOOLEAN]
  OBVIOUS
<1> QED
  BY <1>1, <1>3, <1>4, <1>6, <1>7 DEF IssueTypeOK

(* One clock edge, whatever tasks the FIFOs show.                          *)
LEMMA ClockSettles ==
  ASSUME IInv, NEW data \in [RPU -> Task], NEW empty, Clock(data, empty)
  PROVE  \E push_new, pop_new \in [RPU -> BOOLEAN] :
           /\ StartsAllowed(push_new, pop_new)
           /\ Commands(push_new, pop_new)
           /\ rpu_push_new' = push_new /\ rpu_pop_new' = pop_new
           /\ IssueTypeOK'
<1> DEFINE head == TaskHead(data)
           push_new(pop_new) == [i \in RPU |-> rpu_push_new_nxt(head, pop_new, i)]
<1>1. PICK pop_new \in [RPU -> BOOLEAN] :
        /\ Settled(head, pop_new)
        /\ Commands(push_new(pop_new), pop_new)
        /\ Operands(head, push_new(pop_new), pop_new)
        /\ TaskHead_last' = TaskHead_after(head, push_new(pop_new), pop_new)
        /\ pop_TaskFIFO_last' = [i \in RPU |->
              /\ ~TaskHead_after(head, push_new(pop_new), pop_new)[i].push
              /\ ~TaskHead_after(head, push_new(pop_new), pop_new)[i].pop
              /\ ~empty[i]]
  BY DEF Clock
<1>2. head \in [RPU -> Task]
  BY DEF TaskHead, IInv, TypeOK
<1>3. \A i \in RPU : rpu_push_new_nxt(head, pop_new, i) \in BOOLEAN
  <2>1. \A i \in RPU : head[i].push \in BOOLEAN
    BY <1>2 DEF Task
  <2> QED
    BY <2>1 DEF rpu_push_new_nxt
<1>4. push_new(pop_new) \in [RPU -> BOOLEAN]
  BY <1>3
<1>5. StartsAllowed(push_new(pop_new), pop_new)
  BY <1>1, SettledStarts
<1>6. IssueTypeOK'
  BY <1>1, <1>2, <1>4, OperandsType
<1>7. rpu_push_new' = push_new(pop_new) /\ rpu_pop_new' = pop_new
  BY <1>1 DEF Operands
<1> HIDE DEF head, push_new
<1> QED
  BY <1>1, <1>4, <1>5, <1>6, <1>7

\* A clock edge keeps the invariant.
LEMMA ClockIInv ==
  ASSUME IInv, NEW data \in [RPU -> Task], NEW empty, Clock(data, empty)
  PROVE  IInv'
<1>1. ShadowInv' /\ IssueTypeOK'
  BY ClockSettles, CommandsShadow
<1> QED
  BY <1>1 DEF IInv, ShadowInv, TypeOK, ShadowTypeOK, IssueTypeOK

\* So does a step that changes nothing.
LEMMA StutterIInv == IInv /\ UNCHANGED tdVars => IInv'
BY DEF IInv, TypeOK, EveryCommandTaken, PopUndisturbed, InheritedIsTaken,
       tdVars, shadowVars, issueVars, headVars,
       rpu_push_inherit_nxt, rpu_pop_inherit_nxt

\* The inductive invariant holds in every reachable state.
LEMMA IInvInvariant == Spec => []IInv
<1>1. IInv /\ [Next]_tdVars => IInv'
  BY ClockIInv, StutterIInv DEF Next, FIFOData
<1> QED
  BY InitIInv, <1>1, PTL DEF Spec

(* Every register of TaskDistribute.sv keeps to its type for any LEVEL; in *)
(* particular the predicted levels never need more than 0..LEVEL-1.        *)
THEOREM TypeCorrect == Spec => []TypeOK
BY IInvInvariant, PTL DEF IInv

(* For every LEVEL and any FIFOs, no RPU ever gets a push with a pop or a  *)
(* command while in POP: no command is dropped.                            *)
THEOREM CommandsTaken == Spec => []EveryCommandTaken
BY IInvInvariant, PTL DEF IInv

(* For every LEVEL and any FIFOs, an RPU in POP has a quiet predecessor.   *)
THEOREM PopsUndisturbed == Spec => []PopUndisturbed
BY IInvInvariant, PTL DEF IInv

(* For every LEVEL and any FIFOs, a started operation goes through all its *)
(* levels, one RPU and one level per cycle, and nothing is started over    *)
(* it.                                                                     *)
THEOREM OperationsGoOn == Spec => OperationsAdvance
<1>1. ASSUME IInv, Next
      PROVE  /\ Advance(rpu_push, rpu_push_new, rpu_pop)
             /\ Advance(rpu_pop, rpu_pop_new, rpu_push)
  <2>1. PICK data \in [RPU -> Task], empty \in [RPU -> BOOLEAN] : Clock(data, empty)
    BY <1>1 DEF Next, FIFOData
  <2>2. PICK push_new \in [RPU -> BOOLEAN], pop_new \in [RPU -> BOOLEAN] :
          /\ StartsAllowed(push_new, pop_new)
          /\ Commands(push_new, pop_new)
          /\ rpu_push_new' = push_new /\ rpu_pop_new' = pop_new
    BY <1>1, <2>1, ClockSettles
  <2>3. ASSUME NEW i \in RPU, rpu_push_inherit_nxt(i) \/ rpu_pop_inherit_nxt(i)
        PROVE  /\ rpu_state[i] # "POP"
               /\ ~(rpu_push_inherit_nxt(i) /\ rpu_pop_inherit_nxt(i))
               /\ ~push_new[i] /\ ~pop_new[i]
    BY <1>1, <2>2, <2>3, MidFacts DEF IInv, PopUndisturbed, StartsAllowed
  <2>4. ASSUME NEW i \in RPU, rpu_push_inherit_nxt(i)
        PROVE  /\ rpu_push'[i] /\ ~rpu_push_new'[i] /\ ~rpu_pop'[i]
               /\ rpu_level'[i] = rpu_level[Pred(i)] + 1
    BY <2>2, <2>3, <2>4 DEF Commands, rpu_level_nxt
  <2>5. ASSUME NEW i \in RPU, rpu_pop_inherit_nxt(i)
        PROVE  /\ rpu_pop'[i] /\ ~rpu_pop_new'[i] /\ ~rpu_push'[i]
               /\ rpu_level'[i] = rpu_level[Pred(i)] + 1
    BY <2>2, <2>3, <2>5 DEF Commands, rpu_level_nxt
  <2> QED
    BY <2>4, <2>5 DEF Advance, rpu_push_inherit_nxt, rpu_pop_inherit_nxt
<1>2. IInv /\ [Next]_tdVars
        => [/\ Advance(rpu_push, rpu_push_new, rpu_pop)
            /\ Advance(rpu_pop, rpu_pop_new, rpu_push)]_tdVars
  BY <1>1
<1> QED
  BY IInvInvariant, <1>2, PTL DEF Spec, OperationsAdvance

-----------------------------------------------------------------------------
(* The task path.                                                          *)
Busy(w) == w.push \/ w.pop
Word == {w \in Task : Busy(w)}

\* What is left of a list with task h at its head and the words f behind it.
Pending(h, f) == (IF Busy(h) THEN <<h>> ELSE << >>) \o f

-----------------------------------------------------------------------------
(* Facts about sequences.                                                  *)
LEMMA ConsAppend ==
  ASSUME NEW S, NEW x \in S, NEW f \in Seq(S), NEW w \in S
  PROVE  <<x>> \o Append(f, w) = Append(<<x>> \o f, w)
<1>1. /\ Append(f, w) = f \o <<w>>
      /\ Append(<<x>> \o f, w) = (<<x>> \o f) \o <<w>>
  BY AppendIsConcat, ConcatProperties
<1>. QED
  BY <1>1, ConcatAssociative

\* Length, head and tail of a sequence with a new first element.
LEMMA ConsProperties ==
  ASSUME NEW S, NEW x \in S, NEW f \in Seq(S)
  PROVE  /\ <<x>> \o f \in Seq(S) /\ <<x>> \o f # << >>
         /\ Len(<<x>> \o f) = Len(f) + 1
         /\ Head(<<x>> \o f) = x /\ Tail(<<x>> \o f) = f
<1>1. <<x>> \in Seq(S) /\ Len(<<x>>) = 1 /\ <<x>>[1] = x
  OBVIOUS
<1>2. /\ <<x>> \o f \in Seq(S) /\ Len(<<x>> \o f) = Len(f) + 1
      /\ \A i \in 1 .. Len(f) + 1 : (<<x>> \o f)[i] = IF i <= 1 THEN x ELSE f[i - 1]
  BY <1>1, ConcatProperties, LenProperties
<1>3. <<x>> \o f # << >> /\ Len(f) \in Nat
  BY <1>2, LenProperties, EmptySeq
<1>4. Head(<<x>> \o f) = x
  BY <1>2, <1>3
<1>5. /\ Tail(<<x>> \o f) \in Seq(S) /\ Len(Tail(<<x>> \o f)) = Len(f)
      /\ \A i \in 1 .. Len(f) : Tail(<<x>> \o f)[i] = (<<x>> \o f)[i + 1]
  BY <1>2, <1>3, HeadTailProperties
<1>6. Tail(<<x>> \o f) = f
  <2>1. \A i \in 1 .. Len(f) : Tail(<<x>> \o f)[i] = f[i]
    BY <1>2, <1>3, <1>5
  <2>. QED
    BY <2>1, <1>5, SeqEqual
<1>. QED
  BY <1>2, <1>3, <1>4, <1>6

\* A nonempty sequence has a head of its type and a tail.
LEMMA HeadTail ==
  ASSUME NEW S, NEW f \in Seq(S), f # << >>
  PROVE  /\ Head(f) \in S /\ Tail(f) \in Seq(S)
         /\ <<Head(f)>> \o Tail(f) = f
<1>1. /\ Head(f) \in S /\ Tail(f) \in Seq(S) /\ Len(Tail(f)) = Len(f) - 1
      /\ \A i \in 1 .. Len(Tail(f)) : Tail(f)[i] = f[i + 1]
      /\ Len(f) \in Nat \ {0} /\ Head(f) = f[1]
  BY HeadTailProperties, EmptySeq, LenProperties
<1>2. /\ <<Head(f)>> \o Tail(f) \in Seq(S)
      /\ Len(<<Head(f)>> \o Tail(f)) = Len(f)
      /\ \A i \in 1 .. Len(f) :
           (<<Head(f)>> \o Tail(f))[i] = IF i <= 1 THEN Head(f) ELSE Tail(f)[i - 1]
  <2>1. <<Head(f)>> \in Seq(S) /\ Len(<<Head(f)>>) = 1 /\ <<Head(f)>>[1] = Head(f)
    BY <1>1
  <2>. QED
    BY <2>1, <1>1, ConcatProperties
<1>3. \A i \in 1 .. Len(f) : (<<Head(f)>> \o Tail(f))[i] = f[i]
  BY <1>1, <1>2
<1>. QED
  BY <1>1, <1>2, <1>3, SeqEqual

-----------------------------------------------------------------------------
(* Pending lists.                                                          *)
LEMMA WordsAreTasks == \A f \in Seq(Word) : f \in Seq(Task)
BY SeqMonotonic DEF Word

\* What is pending, with and without a task in the head register.
LEMMA PendingProperties ==
  ASSUME NEW h \in Task, NEW f \in Seq(Task)
  PROVE  /\ Pending(h, f) \in Seq(Task)
         /\ Len(Pending(h, f)) >= Len(f) /\ Len(f) \in Nat
         /\ Busy(h)  => Pending(h, f) = <<h>> \o f
         /\ ~Busy(h) => Pending(h, f) = f
<1>1. Len(f) \in Nat /\ << >> \o f = f
  BY LenProperties, ConcatEmptySeq
<1>2. <<h>> \o f \in Seq(Task) /\ Len(<<h>> \o f) = Len(f) + 1
  BY ConsProperties
<1>. QED
  BY <1>1, <1>2 DEF Pending

\* A word written to the FIFO comes last in what is pending.
LEMMA PendingAppend ==
  ASSUME NEW h \in Task, NEW f \in Seq(Task), NEW w \in Task
  PROVE  Pending(h, Append(f, w)) = Append(Pending(h, f), w)
<1>1. Append(f, w) \in Seq(Task)
  BY AppendProperties
<1>2. CASE Busy(h)
  <2>1. /\ Pending(h, Append(f, w)) = <<h>> \o Append(f, w)
        /\ Pending(h, f) = <<h>> \o f
    BY <1>1, <1>2, PendingProperties
  <2>. QED
    BY <2>1, ConsAppend
<1>3. CASE ~Busy(h)
  BY <1>1, <1>3, PendingProperties
<1>. QED
  BY <1>2, <1>3

\* What the dispatcher leaves of task h when it starts its push or its pop.
Rest(h, p, q) == IF p THEN [h EXCEPT !.push = ~@]
                 ELSE IF q THEN [h EXCEPT !.pop = ~@] ELSE h

Starts(h, p, q) ==
  CASE p -> [op |-> "PUSH", tree |-> h.push_tree, data |-> h.data]
    [] ~p /\ q -> [op |-> "POP", tree |-> h.pop_tree]
    [] OTHER -> [op |-> "NONE"]

(* Starting an operation takes it, and nothing else, off the list.         *)
LEMMA StartTakesFirst ==
  ASSUME NEW h \in Task, NEW f \in Seq(Task),
         NEW p \in BOOLEAN, NEW q \in BOOLEAN,
         p => h.push, q => h.pop /\ ~h.push
  PROVE  LET l == Pending(h, f)  rest == Pending(Rest(h, p, q), f)
         IN  \/ Starts(h, p, q) = Lists!Nothing /\ rest = l
             \/ /\ l # << >> /\ Starts(h, p, q) = Lists!Started(l)
                /\ rest = Lists!Left(l)
<1> DEFINE l == Pending(h, f)
           rest == Pending(Rest(h, p, q), f)
<1>1. Rest(h, p, q) \in Task
  BY DEF Rest, Task
<1>2. CASE p
  <2>1. Busy(h) /\ l = <<h>> \o f
    BY <1>2, PendingProperties DEF Busy
  <2>2. l # << >> /\ Head(l) = h /\ Tail(l) = f
    BY <2>1, ConsProperties
  <2>3. Starts(h, p, q) = Lists!Started(l)
    BY <1>2, <2>2 DEF Starts, Lists!Started, Lists!Push
  <2>4. /\ Rest(h, p, q) = [h EXCEPT !.push = FALSE]
        /\ Busy(Rest(h, p, q)) <=> h.pop
    BY <1>2 DEF Rest, Busy, Task
  <2>5. rest = Lists!Left(l)
    BY <1>1, <1>2, <2>2, <2>4, PendingProperties DEF Lists!Left
  <2>. QED
    BY <2>2, <2>3, <2>5
<1>3. CASE ~p /\ q
  <2>1. Busy(h) /\ l = <<h>> \o f /\ ~h.push
    BY <1>3, PendingProperties DEF Busy
  <2>2. l # << >> /\ Head(l) = h /\ Tail(l) = f
    BY <2>1, ConsProperties
  <2>3. Starts(h, p, q) = Lists!Started(l)
    BY <1>3, <2>1, <2>2 DEF Starts, Lists!Started, Lists!Pop
  <2>4. ~Busy(Rest(h, p, q))
    BY <1>3 DEF Rest, Busy, Task
  <2>5. rest = Lists!Left(l)
    BY <1>1, <2>1, <2>2, <2>4, PendingProperties DEF Lists!Left
  <2>. QED
    BY <2>2, <2>3, <2>5
<1>4. CASE ~p /\ ~q
  BY <1>4 DEF Starts, Rest, Lists!Nothing
<1>. QED
  BY <1>2, <1>3, <1>4

(* When the head asks for nothing more, the next word takes its place.     *)
LEMMA NextWordIsHead ==
  ASSUME NEW a \in Task, ~Busy(a), NEW f \in Seq(Word), f # << >>
  PROVE  /\ Head(f) \in Word /\ Tail(f) \in Seq(Word)
         /\ Pending(Head(f), Tail(f)) = Pending(a, f)
<1>1. Head(f) \in Word /\ Tail(f) \in Seq(Word) /\ <<Head(f)>> \o Tail(f) = f
  BY HeadTail
<1>2. /\ Head(f) \in Task /\ Busy(Head(f))
      /\ Tail(f) \in Seq(Task) /\ f \in Seq(Task)
  BY <1>1, WordsAreTasks DEF Word
<1>. QED
  BY <1>1, <1>2, PendingProperties

-----------------------------------------------------------------------------
(* The inductive invariant: that of the dispatcher, and every word on its  *)
(* way asks for something.                                                 *)
PathInv == IInv /\ fifo \in [RPU -> Seq(Word)] /\ fifo_out \in FIFOData

\* The head register holds tasks.
LEMMA HeadType == PathInv => TaskHead(fifo_out) \in [RPU -> Task]
BY DEF PathInv, IInv, TypeOK, FIFOData, TaskHead

\* Waiting is Pending of head register and FIFO.
LEMMA WaitingIsPending == \A i \in RPU : Waiting(i) = Pending(TaskHead(fifo_out)[i], fifo[i])
BY DEF Waiting, Pending, Busy

\* What one clock edge does to list i, w being on its input ports.
Edge(i, w) ==
  \E p, q \in BOOLEAN, rd \in BOOLEAN :
    LET h == TaskHead(fifo_out)[i]
        a == Rest(h, p, q)
        r == IF rd THEN Tail(fifo[i]) ELSE fifo[i]
    IN  /\ (p => h.push) /\ (q => h.pop /\ ~h.push)
        /\ rd <=> ~Busy(a) /\ fifo[i] # << >>
        /\ rd = pop_TaskFIFO_last'[i]
        /\ Issue(i)' = Starts(h, p, q)
        /\ fifo_out'[i] = IF rd THEN Head(fifo[i]) ELSE NoTask
        /\ TaskHead(fifo_out)'[i] = IF rd THEN Head(fifo[i]) ELSE a
        /\ fifo'[i] = IF Busy(w) /\ (rd \/ Len(fifo[i]) # FIFO_SIZE)
                      THEN Append(r, w) ELSE r

\* A clock edge of the path is an Edge of every list.
LEMMA ClockIsEdge ==
  ASSUME PathInv, NEW in, PathClock(in), NEW i \in RPU
  PROVE  Edge(i, in[i])
<1> DEFINE head == TaskHead(fifo_out)
<1>1. head \in [RPU -> Task] /\ head[i] \in Task
  BY HeadType
<1> HIDE DEF head
<1>2. PICK pop_new \in [RPU -> BOOLEAN] :
        /\ Settled(head, pop_new)
        /\ Operands(head, [j \in RPU |-> rpu_push_new_nxt(head, pop_new, j)], pop_new)
        /\ TaskHead_last' = TaskHead_after(head,
              [j \in RPU |-> rpu_push_new_nxt(head, pop_new, j)], pop_new)
        /\ pop_TaskFIFO_last' = [j \in RPU |->
              ~TaskHead_last'[j].push /\ ~TaskHead_last'[j].pop /\ fifo[j] # << >>]
  BY DEF PathClock, DispatcherClock, Clock, head
<1> DEFINE p == rpu_push_new_nxt(head, pop_new, i)
           q == pop_new[i]
           rd == pop_TaskFIFO_last'[i]
           a == Rest(head[i], p, q)
<1>3. p \in BOOLEAN /\ q \in BOOLEAN /\ (p => head[i].push)
  BY <1>1, <1>2 DEF rpu_push_new_nxt, Task
<1>4. q => head[i].pop /\ ~head[i].push
  BY <1>2 DEF Settled, rpu_pop_new_nxt
<1>5. /\ rpu_push_new'[i] = p /\ rpu_pop_new'[i] = q
      /\ rpu_push_data'[i] = head[i].data
      /\ rpu_treeId'[i] = IF p THEN head[i].push_tree
                          ELSE IF q THEN head[i].pop_tree ELSE 0
      /\ TaskHead_last'[i] = a
  <2> HIDE DEF p
  <2>1. [j \in RPU |-> rpu_push_new_nxt(head, pop_new, j)][i] = p
    BY DEF p
  <2>. QED
    BY <1>2, <2>1 DEF Operands, TaskHead_after, Rest
<1> HIDE DEF p
<1>6. Issue(i)' = Starts(head[i], p, q)
  BY <1>3, <1>5 DEF Issue, Starts
<1>7. rd \in BOOLEAN /\ (rd <=> ~Busy(a) /\ fifo[i] # << >>)
  BY <1>2, <1>5 DEF Busy
<1>8. /\ fifo_out'[i] = IF rd THEN Head(fifo[i]) ELSE NoTask
      /\ fifo'[i] = FIFO_nxt(i, rd, in[i])
  BY DEF PathClock, FIFOClock
<1>9. TaskHead(fifo_out)'[i] = IF rd THEN Head(fifo[i]) ELSE a
  BY <1>5, <1>8 DEF TaskHead
<1>10. fifo'[i] = IF Busy(in[i]) /\ (rd \/ Len(fifo[i]) # FIFO_SIZE)
                  THEN Append(IF rd THEN Tail(fifo[i]) ELSE fifo[i], in[i])
                  ELSE IF rd THEN Tail(fifo[i]) ELSE fifo[i]
  BY <1>8 DEF FIFO_nxt, push_TaskFIFO, TaskFIFO_full, Busy
<1>. QED
  <2> HIDE DEF a, rd, q
  <2>1. /\ p \in BOOLEAN /\ q \in BOOLEAN /\ rd \in BOOLEAN
        /\ a = Rest(TaskHead(fifo_out)[i], p, q) /\ rd = pop_TaskFIFO_last'[i]
        /\ head = TaskHead(fifo_out)
    BY <1>3, <1>7 DEF a, rd, head, q
  <2>. QED
    BY <2>1, <1>3, <1>4, <1>6, <1>7, <1>8, <1>9, <1>10 DEF Edge

\* What is left of list i across an Edge: the list, or the list without the
\* operation that is started, and the word on the input ports comes last.
LEMMA EdgeParts ==
  ASSUME PathInv, NEW i \in RPU, NEW w \in Task, Edge(i, w)
  PROVE  /\ \E rest :
              /\ \/ Issue(i)' = Lists!Nothing /\ rest = Waiting(i)
                 \/ /\ Waiting(i) # << >> /\ Issue(i)' = Lists!Started(Waiting(i))
                    /\ rest = Lists!Left(Waiting(i))
              /\ Waiting(i)' = IF Busy(w) /\ (pop_TaskFIFO_last'[i] \/ Len(fifo[i]) # FIFO_SIZE)
                               THEN Append(rest, w) ELSE rest
         /\ fifo'[i] \in Seq(Word)
         /\ fifo_out'[i] \in Task
         /\ IF pop_TaskFIFO_last'[i] THEN Busy(fifo_out'[i]) ELSE fifo_out'[i] = NoTask
<1> DEFINE h == TaskHead(fifo_out)[i]
           f == fifo[i]
<1>1. PICK p \in BOOLEAN, q \in BOOLEAN, rd \in BOOLEAN :
        /\ (p => h.push) /\ (q => h.pop /\ ~h.push)
        /\ rd <=> ~Busy(Rest(h, p, q)) /\ f # << >>
        /\ rd = pop_TaskFIFO_last'[i]
        /\ Issue(i)' = Starts(h, p, q)
        /\ fifo_out'[i] = IF rd THEN Head(f) ELSE NoTask
        /\ TaskHead(fifo_out)'[i] = IF rd THEN Head(f) ELSE Rest(h, p, q)
        /\ fifo'[i] = IF Busy(w) /\ (rd \/ Len(f) # FIFO_SIZE)
                      THEN Append(IF rd THEN Tail(f) ELSE f, w)
                      ELSE IF rd THEN Tail(f) ELSE f
  BY DEF Edge
<1>2. h \in Task /\ f \in Seq(Word) /\ f \in Seq(Task)
  BY HeadType, WordsAreTasks DEF PathInv
<1> DEFINE l == Pending(h, f)
           a == Rest(h, p, q)
           rest == Pending(a, f)
           r == IF rd THEN Tail(f) ELSE f
           h2 == TaskHead(fifo_out)'[i]
<1>3. Waiting(i) = l
  BY WaitingIsPending
<1>4. Waiting(i)' = Pending(h2, fifo'[i])
  BY DEF Waiting, Pending, Busy
<1> HIDE DEF h, f
<1>5. \/ Issue(i)' = Lists!Nothing /\ rest = l
      \/ l # << >> /\ Issue(i)' = Lists!Started(l) /\ rest = Lists!Left(l)
  BY <1>1, <1>2, StartTakesFirst
<1>6. a \in Task
  BY <1>2 DEF Rest, Task
<1>7. /\ r \in Seq(Word)
      /\ Pending(h2, r) = rest
      /\ Pending(h2, Append(r, w)) = Append(rest, w)
  <2> HIDE DEF a
  <2>1. h2 \in Task /\ r \in Seq(Word) /\ Pending(h2, r) = rest
    <3>1. CASE rd
      <4>1. h2 = Head(f) /\ r = Tail(f) /\ ~Busy(a) /\ f # << >>
        BY <3>1, <1>1 DEF a
      <4>. QED
        BY <4>1, <1>2, <1>6, NextWordIsHead DEF Word
    <3>2. CASE ~rd
      BY <3>2, <1>1, <1>2, <1>6 DEF a
    <3>. QED
      BY <3>1, <3>2
  <2>2. r \in Seq(Task)
    BY <2>1, WordsAreTasks
  <2>3. Pending(h2, Append(r, w)) = Append(Pending(h2, r), w)
    <3> HIDE DEF h2, r
    <3>. QED
      BY <2>1, <2>2, PendingAppend
  <2>. QED
    BY <2>1, <2>3
<1>8. Waiting(i)' = IF Busy(w) /\ (rd \/ Len(f) # FIFO_SIZE) THEN Append(rest, w) ELSE rest
  <2> HIDE DEF l, r, rest, h2
  <2>1. CASE Busy(w) /\ (rd \/ Len(f) # FIFO_SIZE)
    BY <2>1, <1>1, <1>4, <1>7 DEF r
  <2>2. CASE ~(Busy(w) /\ (rd \/ Len(f) # FIFO_SIZE))
    BY <2>2, <1>1, <1>4, <1>7 DEF r
  <2>. QED
    BY <2>1, <2>2
<1>9. /\ \/ Issue(i)' = Lists!Nothing /\ rest = Waiting(i)
         \/ /\ Waiting(i) # << >> /\ Issue(i)' = Lists!Started(Waiting(i))
            /\ rest = Lists!Left(Waiting(i))
      /\ Waiting(i)' = IF Busy(w) /\ (pop_TaskFIFO_last'[i] \/ Len(fifo[i]) # FIFO_SIZE)
                       THEN Append(rest, w) ELSE rest
  <2> HIDE DEF l, rest
  <2>. QED
    BY <1>1, <1>3, <1>5, <1>8 DEF f
<1>10. fifo'[i] \in Seq(Word)
  <2>1. Busy(w) => Append(r, w) \in Seq(Word)
    BY <1>7, AppendProperties DEF Word
  <2>. QED
    BY <1>1, <1>7, <2>1
<1>11. rd => Head(f) \in Word
  BY <1>1, <1>2, HeadTail
<1>12. /\ fifo_out'[i] \in Task
       /\ IF pop_TaskFIFO_last'[i] THEN Busy(fifo_out'[i]) ELSE fifo_out'[i] = NoTask
  BY <1>1, <1>11, NoTaskType DEF Word
<1>. QED
  <2> HIDE DEF rest
  <2>. QED
    BY <1>9, <1>10, <1>12

\* An Edge is a step of the abstract list.
LEMMA EdgeIsListStep ==
  ASSUME PathInv, NEW i \in RPU, NEW w \in Task, w = NoTask \/ Busy(w), Edge(i, w)
  PROVE  Lists!ListStep(Waiting(i), Issue(i)', w, Waiting(i)')
<1> DEFINE l == Waiting(i)
<1>1. PICK rest :
        /\ \/ Issue(i)' = Lists!Nothing /\ rest = l
           \/ l # << >> /\ Issue(i)' = Lists!Started(l) /\ rest = Lists!Left(l)
        /\ Waiting(i)' = IF Busy(w) /\ (pop_TaskFIFO_last'[i] \/ Len(fifo[i]) # FIFO_SIZE)
                         THEN Append(rest, w) ELSE rest
  BY EdgeParts
<1>2. Len(l) >= Len(fifo[i]) /\ Len(fifo[i]) \in Nat
  <2>1. TaskHead(fifo_out)[i] \in Task /\ fifo[i] \in Seq(Task)
    BY HeadType, WordsAreTasks DEF PathInv
  <2>. QED
    BY <2>1, PendingProperties, WaitingIsPending
<1> HIDE DEF l
<1>3. Lists!Written(l, rest, w, Waiting(i)')
  <2>1. CASE Busy(w) /\ (pop_TaskFIFO_last'[i] \/ Len(fifo[i]) # FIFO_SIZE)
    <3>1. Waiting(i)' = Append(rest, w) /\ w # NoTask
      BY <2>1, <1>1 DEF Busy, NoTask
    <3>. QED
      BY <3>1 DEF Lists!Written
  <2>2. CASE ~(Busy(w) /\ (pop_TaskFIFO_last'[i] \/ Len(fifo[i]) # FIFO_SIZE))
    <3>1. Waiting(i)' = rest
      BY <2>2, <1>1
    <3>2. w = NoTask \/ Len(l) >= FIFO_SIZE
      BY <2>2, <1>2, FIFOSizeAssumption
    <3>. QED
      BY <3>1, <3>2 DEF Lists!Written
  <2>. QED
    BY <2>1, <2>2
<1>4. Lists!ListStep(l, Issue(i)', w, Waiting(i)')
  BY <1>1, <1>3 DEF Lists!ListStep
<1>. QED
  BY <1>4 DEF l

\* What writers put on the input ports: nothing, or a task that asks for
\* something.
Wellformed(in) == /\ in \in [RPU -> Task]
                  /\ \A i \in RPU : in[i] = NoTask \/ Busy(in[i])

\* The writers write only tasks that ask for something.
LEMMA InputsWellformed == \A in \in Inputs : Wellformed(in)
<1> SUFFICES ASSUME NEW in \in Inputs, NEW i \in RPU
             PROVE  in[i] \in Task /\ (in[i] = NoTask \/ Busy(in[i]))
  BY DEF Wellformed, Inputs
<1>1. in[i] = NoTask \/ in[i] \in TaskFor[i]
  BY DEF Inputs
<1>2. TaskFor[i] \subseteq {w \in Task : push_TaskFIFO(w)}
  BY DEF TaskFor
<1>. QED
  BY <1>1, <1>2, NoTaskType DEF push_TaskFIFO, Busy

\* A step of the path keeps the invariant and is a step of every list.
LEMMA PathStep ==
  ASSUME PathInv, NEW in, Wellformed(in), PathClock(in)
  PROVE  PathInv' /\ Lists!Step(in)
<1>1. \A i \in RPU :
        /\ Lists!ListStep(Waiting(i), Issue(i)', in[i], Waiting(i)')
        /\ fifo'[i] \in Seq(Word)
        /\ fifo_out'[i] \in Task
        /\ IF pop_TaskFIFO_last'[i] THEN Busy(fifo_out'[i]) ELSE fifo_out'[i] = NoTask
  BY ClockIsEdge, EdgeParts, EdgeIsListStep DEF Wellformed
<1>2. IInv'
  BY ClockIInv DEF PathInv, FIFOData, PathClock, DispatcherClock
<1>3. /\ fifo' = [i \in RPU |-> fifo'[i]] /\ fifo_out' = [i \in RPU |-> fifo_out'[i]]
  BY DEF PathClock, FIFOClock
<1>4. fifo' \in [RPU -> Seq(Word)] /\ (fifo_out \in FIFOData)'
  BY <1>1, <1>3 DEF FIFOData, Busy
<1>5. Lists!Step(in)
  BY <1>1 DEF Lists!Step
<1>. QED
  BY <1>2, <1>4, <1>5 DEF PathInv

\* The path starts in the invariant.
LEMMA PathInitInv == PathInit => PathInv
BY InitIInv, NoTaskType, EmptySeq DEF PathInit, FIFOInit, PathInv, FIFOData, Init

\* A step that changes nothing keeps the invariant and what is waiting.
LEMMA PathStutter ==
  PathInv /\ UNCHANGED pathVars
    => PathInv' /\ UNCHANGED <<[i \in RPU |-> Waiting(i)], [i \in RPU |-> Issue(i)]>>
<1> SUFFICES ASSUME PathInv, UNCHANGED pathVars
             PROVE  PathInv' /\ UNCHANGED <<[i \in RPU |-> Waiting(i)], [i \in RPU |-> Issue(i)]>>
  OBVIOUS
<1>1. IInv'
  BY StutterIInv DEF PathInv, pathVars
<1>2. UNCHANGED <<fifo, fifo_out, tdVars>>
  BY DEF pathVars, fifoVars
<1>3. PathInv'
  BY <1>1, <1>2 DEF PathInv, FIFOData, tdVars, headVars
<1>. QED
  BY <1>2, <1>3 DEF Waiting, Issue, TaskHead, tdVars, headVars, issueVars

(* The dispatcher behind real task FIFOs is the dispatcher that was proved *)
(* about with any FIFOs: all its theorems hold of the path.                *)
THEOREM PathRunsDispatcher == PathSpec => Spec
<1>1. PathInit => Init
  BY DEF PathInit
<1>2. PathInv /\ [PathNext]_pathVars => PathInv' /\ [Next]_tdVars
  <2>1. PathInv /\ PathNext => PathInv'
    BY PathStep, InputsWellformed DEF PathNext, PathClock
  <2>2. PathInv /\ DispatcherClock => Next
    <3>1. [i \in RPU |-> fifo[i] = << >>] \in [RPU -> BOOLEAN]
      OBVIOUS
    <3>. QED
      BY <3>1 DEF PathInv, DispatcherClock, Next
  <2>. QED
    BY <2>1, <2>2, PathStutter DEF PathNext, pathVars
<1>. QED
  BY <1>1, <1>2, PathInitInv, PTL DEF PathSpec, Spec

(* For every LEVEL, FIFO_SIZE and alphabet, no operation of a list is      *)
(* lost, repeated, overtaken or given other operands on its way through    *)
(* FIFO, head register and dispatcher (PIFO_SRAM_TOP.sv, TaskFIFO.sv,      *)
(* TaskDistribute.sv).                                                     *)
THEOREM PathImplementsLists == PathSpec => ImplementsLists
<1>1. PathInit => Lists!Init
  <2> SUFFICES ASSUME PathInit, NEW i \in RPU
               PROVE  Waiting(i) = << >> /\ Issue(i) = Lists!Nothing
    BY DEF Lists!Init
  <2>1. TaskHead(fifo_out)[i] = NoTask /\ fifo[i] = << >>
    BY DEF PathInit, FIFOInit, Init, TaskHead
  <2>2. Pending(NoTask, << >>) = << >>
    BY NoTaskType, EmptySeq, PendingProperties DEF Busy, NoTask
  <2>3. Issue(i) = Lists!Nothing
    BY DEF PathInit, Init, Issue, Lists!Nothing
  <2>. QED
    BY <2>1, <2>2, <2>3, WaitingIsPending
<1>2. PathInv /\ PathNext => PathInv' /\ Lists!Next
  <2> SUFFICES ASSUME PathInv, PathNext PROVE PathInv' /\ Lists!Next
    OBVIOUS
  <2>1. PICK in \in Inputs : PathClock(in)
    BY DEF PathNext, PathClock
  <2>2. Wellformed(in) /\ PathInv' /\ Lists!Step(in)
    BY <2>1, InputsWellformed, PathStep
  <2>3. Lists!Next
    BY <2>2 DEF Lists!Next, Lists!Step, Wellformed
  <2>. QED
    BY <2>2, <2>3
<1>3. PathInv /\ [PathNext]_pathVars
        => PathInv' /\ [Lists!Next]_<<[i \in RPU |-> Waiting(i)], [i \in RPU |-> Issue(i)]>>
  BY <1>2, PathStutter
<1>. QED
  BY <1>1, <1>3, PathInitInv, PTL DEF PathSpec, ImplementsLists, Lists!Spec
=============================================================================
