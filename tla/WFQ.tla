-------------------------------- MODULE WFQ --------------------------------
(***************************************************************************)
(* The virtual clock from which the SDL compiler takes the ranks of a node *)
(* that is scheduled by weighted fair queueing (WFQ.cpp, WFQ.h).  For each *)
(* packet of the capture, in order of time, updateVirTimeTo lets packets   *)
(* depart from a fluid model until the time of the new one; its rank is    *)
(* then its virtual start time.  Virtual times are counted in 1/Scale, so  *)
(* that every length / weight is a whole number; arithmetic is exact, as   *)
(* it is in doubles for such weights.  Weights are natural numbers here,   *)
(* where the source has doubles.                                           *)
(***************************************************************************)
EXTENDS Integers

CONSTANTS
  Flow, weightTable,   \* flows, or child nodes, and their weights
  Length,              \* lengths of packets
  Scale,
  MaxPackets, MaxTime  \* bounds

ASSUME WeightAssumption ==
  /\ Scale \in Nat \ {0} /\ Length \subseteq Nat /\ MaxPackets \in Nat /\ MaxTime \in Nat
  /\ weightTable \in [Flow -> Nat \ {0}]

VARIABLES
  virTime, realTime, curWeightSum,
  lastVirFinishTime,   \* of each flow; -Scale: none
  outQueue,            \* packets of the fluid model that have not departed
  arriving,            \* the packet that is being tagged
  tagged,              \* the packets with their ranks
  count                \* packets so far

vars == <<virTime, realTime, curWeightSum, lastVirFinishTime, outQueue, arriving, tagged, count>>

NoPacket == [flow |-> -1, time |-> 0, len |-> 0]

Init ==
  /\ virTime = 0 /\ realTime = 0 /\ curWeightSum = 0
  /\ lastVirFinishTime = [f \in Flow |-> -Scale]
  /\ outQueue = {} /\ arriving = NoPacket
  /\ tagged = {} /\ count = 0

-----------------------------------------------------------------------------
Tagging == arriving # NoPacket

\* The next packet of the capture, at the same time or later.
Arrive(f, time, len) ==
  /\ ~Tagging /\ count < MaxPackets /\ time >= realTime
  /\ arriving' = [flow |-> f, time |-> time, len |-> len]
  /\ count' = count + 1
  /\ UNCHANGED <<virTime, realTime, curWeightSum, lastVirFinishTime, outQueue, tagged>>

\* The next one of the fluid model departs before the new packet arrives.
Departs(out) ==
  /\ \A o \in outQueue : out.virDepartTime <= o.virDepartTime
  /\ (out.virDepartTime - virTime) * curWeightSum <= (arriving.time - realTime) * Scale

\* getNextRealTime takes the virtual time as a whole number, and its result is
\* one: both are cut toward zero.
Cut(x) == IF x >= 0 THEN x \div Scale ELSE -((-x) \div Scale)
getNextRealTime(nextVirTime) ==
  Cut(realTime * Scale + (Cut(nextVirTime) * Scale - virTime) * curWeightSum)

\* Mutants: the clock stands still; the weight of the packet stays.
Depart_still ==
  /\ Tagging
  /\ \E out \in outQueue :
       /\ Departs(out)
       /\ realTime' = getNextRealTime(out.virDepartTime)
       /\ curWeightSum' = curWeightSum - out.flowWeight
       /\ outQueue' = outQueue \ {out}
  /\ UNCHANGED <<virTime, lastVirFinishTime, arriving, tagged, count>>
Depart_weight ==
  /\ Tagging
  /\ \E out \in outQueue :
       /\ Departs(out)
       /\ realTime' = getNextRealTime(out.virDepartTime)
       /\ virTime' = out.virDepartTime
       /\ outQueue' = outQueue \ {out}
  /\ UNCHANGED <<curWeightSum, lastVirFinishTime, arriving, tagged, count>>

\* An iteration of the loop of updateVirTimeTo; those that depart at the same
\* virtual time leave the priority queue in any order.
Depart ==
  /\ Tagging
  /\ \E out \in outQueue :
       /\ Departs(out)
       /\ realTime' = getNextRealTime(out.virDepartTime)
       /\ curWeightSum' = curWeightSum - out.flowWeight
       /\ virTime' = out.virDepartTime
       /\ outQueue' = outQueue \ {out}
  /\ UNCHANGED <<lastVirFinishTime, arriving, tagged, count>>

\* Mutant: the last packet of the flow is not looked at.
VirStartTime_now(f) == virTime

\* A packet starts now or after the last one of its flow.
VirStartTime(f) == IF lastVirFinishTime[f] > virTime THEN lastVirFinishTime[f] ELSE virTime

\* The end of updateVirTimeTo, which moves the real time first and therefore
\* adds nothing to the virtual one, and the rank.
Tag ==
  /\ Tagging /\ \A out \in outQueue : ~Departs(out)
  /\ realTime' = arriving.time
  /\ curWeightSum' = curWeightSum + weightTable[arriving.flow]
  /\ LET f == arriving.flow
         finish == VirStartTime(f) + (arriving.len * Scale) \div weightTable[f]
     IN  /\ tagged' = tagged \cup {[id |-> count, flow |-> f, len |-> arriving.len, rank |-> Cut(VirStartTime(f))]}
         /\ lastVirFinishTime' = [lastVirFinishTime EXCEPT ![f] = finish]
         /\ outQueue' = outQueue \cup {[id |-> count, virDepartTime |-> finish, flowWeight |-> weightTable[f]]}
  /\ arriving' = NoPacket
  /\ UNCHANGED <<virTime, count>>

Next ==
  \/ \E f \in Flow, time \in 0 .. MaxTime, len \in Length : Arrive(f, time, len)
  \/ Depart
  \/ Tag

Spec == Init /\ [][Next]_vars

-----------------------------------------------------------------------------
(* Properties *)
Out == [id : Nat, virDepartTime : Nat, flowWeight : Nat \ {0}]

\* The types of the variables.
TypeOK ==
  /\ virTime \in Nat /\ realTime \in Int /\ curWeightSum \in Int
  /\ lastVirFinishTime \in [Flow -> Nat \cup {-Scale}]
  /\ tagged \subseteq [id : Nat, flow : Flow, len : Nat, rank : Nat]
  /\ outQueue \subseteq Out
  /\ arriving \in [flow : Flow, time : Nat, len : Length] \cup {NoPacket}
  /\ count \in Nat

\* A flow cannot crowd the ranks: the next packet of a flow is ranked behind
\* the one before by the time that one takes at the weight of the flow.
RanksSpaced ==
  \A p, q \in tagged : p.flow = q.flow /\ q.id < p.id =>
    p.rank >= q.rank + q.len \div weightTable[q.flow]

\* What a flow has asked for beyond the present virtual time is still in the
\* fluid model: an idle flow keeps neither a debt nor a credit.
DebtIsQueued ==
  \A f \in Flow : lastVirFinishTime[f] > virTime =>
    \E out \in outQueue : out.virDepartTime = lastVirFinishTime[f]
=============================================================================
