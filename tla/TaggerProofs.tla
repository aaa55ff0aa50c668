---------------------------- MODULE TaggerProofs ----------------------------
(***************************************************************************)
(* The virtual clock of WFQ (module WFQ): its type, that it never goes     *)
(* back, that unfinished service is queued, and how far apart the ranks of *)
(* a flow are.  The compiler's passes (module Tagger) run the clock as it  *)
(* is specified there, so what is proved of the clock holds of the ranks   *)
(* in the trace, for every capture.  Of the passes themselves: the map is  *)
(* that of the trace, and the clock is divided by the weights it should.   *)
(***************************************************************************)
EXTENDS Tagger, ArithmeticLemmas, SequenceTheorems

\* What is in the fluid model departs now or later.
Ahead == \A out \in outQueue : out.virDepartTime >= virTime

\* Packets are numbered in the order in which they are tagged, and the last
\* finish time of a flow lies behind the service of each of its packets.
Numbered == \A q \in tagged : q.id <= count /\ (Tagging => q.id < count)
Served ==
  \A q \in tagged :
    lastVirFinishTime[q.flow] >= q.rank * Scale + (q.len * Scale) \div weightTable[q.flow]

IInv == TypeOK /\ Ahead /\ Numbered /\ Served /\ DebtIsQueued /\ RanksSpaced

-----------------------------------------------------------------------------
\* Quotients by a positive number.
LEMMA Division ==
  \A s \in Nat \ {0}, a \in Nat :
    a \div s \in Nat /\ s * (a \div s) <= a /\ a < s * (a \div s) + s
  BY SMTT(30)

LEMMA QuotientFacts ==
  ASSUME NEW a \in Nat, NEW s \in Nat \ {0}
  PROVE  a \div s \in Nat /\ (a \div s) * s <= a
  <1>1. a \div s \in Nat /\ s * (a \div s) <= a
    BY Division
  <1> DEFINE d == a \div s
  <1>2. d \in Nat /\ s * d <= a
    BY <1>1
  <1> HIDE DEF d
  <1>3. s * d = d * s
    BY <1>2
  <1> QED
    BY <1>2, <1>3 DEF d

\* A product of natural numbers grows with its factors.
LEMMA ProductGrows ==
  ASSUME NEW a \in Nat, NEW b \in Nat, NEW s \in Nat, a <= b
  PROVE  a * s <= b * s
  <1>1. PICK d \in Nat : b = a + d
    <2>1. b - a \in Nat /\ b = a + (b - a)
      OBVIOUS
    <2> QED
      BY <2>1
  <1>2. b * s = a * s + d * s
    BY <1>1
  <1>3. d * s \in Nat /\ a * s \in Nat
    OBVIOUS
  <1> QED
    BY <1>2, <1>3

\* A quotient is at least every number whose product is not greater.
LEMMA QuotientAtLeast ==
  ASSUME NEW a \in Nat, NEW s \in Nat \ {0}, NEW k \in Nat, k * s <= a
  PROVE  k <= a \div s
  <1> DEFINE d == a \div s
  <1>1. d \in Nat
    BY QuotientFacts
  <1>2. a < (d + 1) * s
    <2>1. a < s * d + s
      BY Division
    <2>2. (d + 1) * s = s * d + s
      BY <1>1
    <2>3. s * d \in Nat
      BY <1>1
    <2> HIDE DEF d
    <2> QED
      BY <2>1, <2>2, <2>3
  <1> HIDE DEF d
  <1>3. SUFFICES ASSUME d + 1 <= k PROVE FALSE
    BY <1>1 DEF d
  <1>4. (d + 1) * s <= k * s
    BY <1>1, <1>3, ProductGrows
  <1>5. k * s \in Nat /\ (d + 1) * s \in Nat
    BY <1>1
  <1> QED
    BY <1>2, <1>4, <1>5

\* Cutting a packet's length to whole units loses no more than the rank does.
LEMMA ServiceInRanks ==
  ASSUME NEW len \in Nat, NEW w \in Nat \ {0}, NEW s \in Nat \ {0}
  PROVE  (len \div w) * s <= (len * s) \div w
  <1> DEFINE k == len \div w
  <1>1. k \in Nat /\ k * w <= len
    BY QuotientFacts
  <1> HIDE DEF k
  <1>2. (k * w) * s <= len * s
    <2>1. k * w \in Nat
      BY <1>1
    <2> QED
      BY <1>1, <2>1, ProductGrows
  <1>3. (k * s) * w <= len * s
    <2>1. (k * s) * w = (k * w) * s
      BY <1>1
    <2> QED
      BY <1>2, <2>1
  <1>4. k * s \in Nat /\ len * s \in Nat
    BY <1>1
  <1>5. k * s <= (len * s) \div w
    BY <1>3, <1>4, QuotientAtLeast
  <1> QED
    BY <1>5 DEF k

\* A start behind the service of an earlier packet is ranked behind it.
LEMMA StartBehind ==
  ASSUME NEW start \in Nat, NEW rank \in Nat, NEW len \in Nat,
         NEW w \in Nat \ {0}, NEW s \in Nat \ {0},
         start >= rank * s + (len * s) \div w
  PROVE  start \div s >= rank + len \div w
  <1>1. len \div w \in Nat /\ (len * s) \div w \in Nat
    <2>1. len * s \in Nat
      OBVIOUS
    <2> QED
      BY <2>1, QuotientFacts
  <1> DEFINE k == len \div w
             m == (len * s) \div w
  <1>2. k * s <= m
    BY ServiceInRanks
  <1>3. k \in Nat /\ m \in Nat /\ start >= rank * s + m
    BY <1>1
  <1> HIDE DEF k, m
  <1>4. (rank + k) * s = rank * s + k * s
    BY <1>3
  <1>5. rank * s \in Nat /\ k * s \in Nat /\ rank + k \in Nat
    BY <1>3
  <1>6. (rank + k) * s <= start
    BY <1>2, <1>3, <1>4, <1>5
  <1>7. rank + k <= start \div s
    BY <1>5, <1>6, QuotientAtLeast
  <1>8. start \div s \in Nat
    BY QuotientFacts
  <1> QED
    BY <1>3, <1>7, <1>8 DEF k

-----------------------------------------------------------------------------
LEMMA InitIInv == Init => IInv
  BY WeightAssumption
  DEF Init, IInv, TypeOK, Ahead, Numbered, Served, DebtIsQueued, RanksSpaced, Tagging, NoPacket

LEMMA ArriveIInv ==
  ASSUME IInv, NEW f \in Flow, NEW time \in 0 .. MaxTime, NEW len \in Length, Arrive(f, time, len)
  PROVE  IInv'
<1>1. TypeOK'
  <2>1. arriving' \in [flow : Flow, time : Nat, len : Length]
    BY WeightAssumption DEF Arrive
  <2> QED
    BY <2>1 DEF Arrive, IInv, TypeOK
<1>2. Numbered'
  BY DEF Arrive, IInv, TypeOK, Numbered, Tagging
<1> QED
  BY <1>1, <1>2 DEF Arrive, IInv, Ahead, Served, DebtIsQueued, RanksSpaced

LEMMA DepartIInv == IInv /\ Depart => IInv'
<1> SUFFICES ASSUME IInv, Depart PROVE IInv'
  OBVIOUS
<1>1. PICK out \in outQueue :
        /\ \A o \in outQueue : out.virDepartTime <= o.virDepartTime
        /\ realTime' = getNextRealTime(out.virDepartTime)
        /\ curWeightSum' = curWeightSum - out.flowWeight
        /\ virTime' = out.virDepartTime
        /\ outQueue' = outQueue \ {out}
  BY DEF Depart, Departs
<1>2. UNCHANGED <<lastVirFinishTime, arriving, tagged, count>>
  BY DEF Depart
<1>3. out \in Out /\ outQueue \subseteq Out /\ virTime \in Nat /\ realTime \in Int /\ curWeightSum \in Int
  BY DEF IInv, TypeOK
<1>4. getNextRealTime(out.virDepartTime) \in Int
  <2>1. \A x \in Int : Cut(x) \in Int
    BY WeightAssumption DEF Cut
  <2>2. out.virDepartTime \in Int
    BY <1>3 DEF Out
  <2> DEFINE x == Cut(out.virDepartTime)
             y == realTime * Scale + (x * Scale - virTime) * curWeightSum
  <2>3. x \in Int
    BY <2>1, <2>2
  <2> HIDE DEF x
  <2>4. y \in Int
    BY <1>3, <2>3, WeightAssumption
  <2> HIDE DEF y
  <2>5. Cut(y) \in Int
    BY <2>1, <2>4
  <2> QED
    BY <2>5 DEF getNextRealTime, x, y
<1>5. TypeOK'
  BY <1>1, <1>2, <1>3, <1>4 DEF IInv, TypeOK, Out
<1>6. Ahead'
  BY <1>1, <1>3 DEF Ahead, Out
<1>7. Numbered' /\ Served' /\ RanksSpaced'
  BY <1>2 DEF IInv, Numbered, Served, RanksSpaced, Tagging
<1>8. DebtIsQueued'
  <2> SUFFICES ASSUME NEW f \in Flow, lastVirFinishTime[f] > virTime'
               PROVE  \E o \in outQueue' : o.virDepartTime = lastVirFinishTime[f]
    BY <1>2 DEF DebtIsQueued
  <2>1. lastVirFinishTime[f] \in Int /\ out.virDepartTime \in Nat
    BY <1>3, WeightAssumption DEF IInv, TypeOK, Out
  <2>2. out.virDepartTime >= virTime
    BY DEF IInv, Ahead
  <2>3. lastVirFinishTime[f] > virTime
    BY <1>1, <1>3, <2>1, <2>2
  <2>4. PICK o \in outQueue : o.virDepartTime = lastVirFinishTime[f]
    BY <2>3 DEF IInv, DebtIsQueued
  <2>5. o # out
    BY <1>1, <2>1, <2>4
  <2> QED
    BY <1>1, <2>4, <2>5
<1> QED
  BY <1>5, <1>6, <1>7, <1>8 DEF IInv

LEMMA TagIInv == IInv /\ Tag => IInv'
<1> SUFFICES ASSUME IInv, Tag PROVE IInv'
  OBVIOUS
<1> DEFINE f == arriving.flow
           w == weightTable[f]
           start == VirStartTime(f)
           service == (arriving.len * Scale) \div w
           packet == [id |-> count, flow |-> f, len |-> arriving.len, rank |-> Cut(start)]
           out == [id |-> count, virDepartTime |-> start + service, flowWeight |-> w]
<1>1. arriving \in [flow : Flow, time : Nat, len : Length]
  BY DEF Tag, Tagging, IInv, TypeOK
<1>2. f \in Flow /\ w \in Nat \ {0} /\ arriving.len \in Nat /\ arriving.time \in Nat /\ Scale \in Nat \ {0}
  BY <1>1, WeightAssumption
<1>3. virTime \in Nat /\ count \in Nat /\ curWeightSum \in Int /\ lastVirFinishTime[f] \in Nat \cup {-Scale}
  BY <1>2 DEF IInv, TypeOK
<1>4. start \in Nat /\ start >= virTime /\ start >= lastVirFinishTime[f] /\ start \in {virTime, lastVirFinishTime[f]}
  BY <1>2, <1>3 DEF VirStartTime
<1>5. service \in Nat
  <2>1. arriving.len * Scale \in Nat
    BY <1>2
  <2> QED
    BY <1>2, <2>1, QuotientFacts
<1>6. Cut(start) = start \div Scale /\ Cut(start) \in Nat /\ Cut(start) * Scale <= start
  BY <1>2, <1>4, QuotientFacts DEF Cut
<1>7. /\ virTime' = virTime /\ count' = count /\ arriving' = NoPacket /\ realTime' = arriving.time
      /\ curWeightSum' = curWeightSum + w
      /\ tagged' = tagged \cup {packet}
      /\ lastVirFinishTime' = [lastVirFinishTime EXCEPT ![f] = start + service]
      /\ outQueue' = outQueue \cup {out}
  BY DEF Tag
<1>8. lastVirFinishTime \in [Flow -> Nat \cup {-Scale}] /\ lastVirFinishTime'[f] = start + service
  BY <1>2, <1>7 DEF IInv, TypeOK
<1>9. \A g \in Flow \ {f} : lastVirFinishTime'[g] = lastVirFinishTime[g]
  BY <1>7, <1>8
<1>10. packet \in [id : Nat, flow : Flow, len : Nat, rank : Nat] /\ out \in Out
  BY <1>2, <1>3, <1>4, <1>5, <1>6 DEF Out
<1>11. Tagging /\ ~Tagging'
  BY <1>7 DEF Tag, Tagging
<1>12. /\ packet.id = count /\ packet.flow = f /\ packet.len = arriving.len /\ packet.rank = Cut(start)
       /\ out.virDepartTime = start + service
  OBVIOUS
<1> HIDE DEF f, w, start, service, packet, out
<1>13. TypeOK'
  <2>1. lastVirFinishTime' \in [Flow -> Nat \cup {-Scale}]
    <3> DEFINE times == Nat \cup {-Scale}
               finish == start + service
    <3>1. finish \in times
      BY <1>4, <1>5
    <3>2. lastVirFinishTime \in [Flow -> times] /\ lastVirFinishTime' = [lastVirFinishTime EXCEPT ![f] = finish]
      BY <1>7, <1>8
    <3> HIDE DEF times, finish
    <3>3. lastVirFinishTime' \in [Flow -> times]
      BY <3>1, <3>2
    <3> QED
      BY <3>3 DEF times
  <2> QED
    BY <1>2, <1>3, <1>7, <1>10, <2>1 DEF IInv, TypeOK
<1>14. Ahead'
  <2>1. out.virDepartTime >= virTime
    BY <1>3, <1>4, <1>5, <1>12
  <2> QED
    BY <1>7, <2>1 DEF IInv, Ahead
<1>15. Numbered'
  BY <1>3, <1>7, <1>11, <1>12 DEF IInv, TypeOK, Numbered
<1>16. Served'
  <2> SUFFICES ASSUME NEW q \in tagged'
               PROVE  lastVirFinishTime'[q.flow] >= q.rank * Scale + (q.len * Scale) \div weightTable[q.flow]
    BY DEF Served
  <2>1. CASE q = packet
    <3>1. q.flow = f /\ q.rank = Cut(start) /\ (q.len * Scale) \div weightTable[q.flow] = service
      BY <1>12, <2>1 DEF service, w
    <3>2. q.rank * Scale <= start /\ q.rank * Scale \in Nat
      BY <1>2, <1>6, <3>1
    <3> QED
      BY <1>4, <1>5, <1>8, <3>1, <3>2
  <2>2. CASE q \in tagged
    <3> DEFINE before == q.rank * Scale + (q.len * Scale) \div weightTable[q.flow]
    <3>1. q \in [id : Nat, flow : Flow, len : Nat, rank : Nat]
      BY <2>2 DEF IInv, TypeOK
    <3>2. lastVirFinishTime[q.flow] >= before
      BY <2>2 DEF IInv, Served
    <3>3. before \in Nat
      <4>1. q.len * Scale \in Nat /\ q.rank * Scale \in Nat /\ weightTable[q.flow] \in Nat \ {0}
        BY <1>2, <3>1, WeightAssumption
      <4>2. (q.len * Scale) \div weightTable[q.flow] \in Nat
        BY <4>1, QuotientFacts
      <4> QED
        BY <4>1, <4>2
    <3> HIDE DEF before
    <3>4. CASE q.flow = f
      <4>1. lastVirFinishTime[f] \in Int /\ lastVirFinishTime[f] >= before
        BY <1>2, <1>3, <3>2, <3>4
      <4>2. start + service >= before
        BY <1>4, <1>5, <3>3, <4>1
      <4> QED
        BY <1>8, <3>4, <4>2 DEF before
    <3>5. CASE q.flow # f
      <4>1. lastVirFinishTime'[q.flow] = lastVirFinishTime[q.flow]
        BY <1>9, <3>1, <3>5
      <4> QED
        BY <3>2, <4>1 DEF before
    <3> QED
      BY <3>4, <3>5
  <2> QED
    BY <1>7, <2>1, <2>2
<1>17. DebtIsQueued'
  <2> SUFFICES ASSUME NEW g \in Flow, lastVirFinishTime'[g] > virTime
               PROVE  \E o \in outQueue' : o.virDepartTime = lastVirFinishTime'[g]
    BY <1>7 DEF DebtIsQueued
  <2>1. CASE g = f
    BY <1>7, <1>8, <1>12, <2>1
  <2>2. CASE g # f
    <3>1. lastVirFinishTime'[g] = lastVirFinishTime[g]
      BY <1>9, <2>2
    <3>2. PICK o \in outQueue : o.virDepartTime = lastVirFinishTime[g]
      BY <3>1 DEF IInv, DebtIsQueued
    <3> QED
      BY <1>7, <3>1, <3>2
  <2> QED
    BY <2>1, <2>2
<1>18. RanksSpaced'
  <2> SUFFICES ASSUME NEW p \in tagged', NEW q \in tagged', p.flow = q.flow, q.id < p.id
               PROVE  p.rank >= q.rank + q.len \div weightTable[q.flow]
    BY DEF RanksSpaced
  <2>1. CASE p \in tagged /\ q \in tagged
    BY <2>1 DEF IInv, RanksSpaced
  <2>2. CASE q = packet
    <3>1. p = packet \/ p.id < count
      BY <1>7, <1>11 DEF IInv, Numbered
    <3>2. p.id \in Nat
      BY <1>7, <1>10 DEF IInv, TypeOK
    <3> QED
      BY <1>3, <1>12, <2>2, <3>1, <3>2
  <2>3. CASE p = packet /\ q \in tagged
    <3>1. q \in [id : Nat, flow : Flow, len : Nat, rank : Nat]
      BY <2>3 DEF IInv, TypeOK
    <3>2. q.flow = f /\ weightTable[q.flow] = w
      BY <1>12, <2>3 DEF w
    <3>3. lastVirFinishTime[f] >= q.rank * Scale + (q.len * Scale) \div w
      BY <2>3, <3>2 DEF IInv, Served
    <3>4. start >= q.rank * Scale + (q.len * Scale) \div w
      <4>1. q.len * Scale \in Nat /\ q.rank * Scale \in Nat
        BY <1>2, <3>1
      <4>2. (q.len * Scale) \div w \in Nat
        BY <1>2, <4>1, QuotientFacts
      <4> QED
        BY <1>2, <1>3, <1>4, <3>3, <4>1, <4>2
    <3>5. q.rank \in Nat /\ q.len \in Nat
      BY <3>1
    <3>6. start \div Scale >= q.rank + q.len \div w
      BY <1>2, <1>4, <3>4, <3>5, StartBehind
    <3> QED
      BY <1>6, <1>12, <2>3, <3>2, <3>6
  <2> QED
    BY <1>7, <2>1, <2>2, <2>3
<1> QED
  BY <1>13, <1>14, <1>15, <1>16, <1>17, <1>18 DEF IInv

LEMMA IInvHolds == Spec => []IInv
<1>1. IInv /\ UNCHANGED vars => IInv'
  BY DEF IInv, TypeOK, Ahead, Numbered, Served, DebtIsQueued, RanksSpaced, Tagging, vars
<1>2. IInv /\ [Next]_vars => IInv'
  BY <1>1, ArriveIInv, DepartIInv, TagIInv DEF Next
<1> QED
  BY <1>2, InitIInv, PTL DEF Spec

-----------------------------------------------------------------------------
\* The variables of the strategy (WFQ.h) keep their types.
THEOREM ClockTypeCorrect == Spec => []TypeOK
<1>1. IInv => TypeOK
  BY DEF IInv
<1> QED
  BY <1>1, IInvHolds, PTL

\* The ranks that calWFQLeafPriority and calWFQNonLeafPriority give to the
\* packets of a flow are apart by the service of the packet before, for all
\* natural weights, lengths and arrival times.
THEOREM RanksAreSpaced == Spec => []RanksSpaced
<1>1. IInv => RanksSpaced
  BY DEF IInv
<1> QED
  BY <1>1, IInvHolds, PTL

\* A finish time beyond the virtual clock is that of a packet in outQueue.
THEOREM DebtsAreQueued == Spec => []DebtIsQueued
<1>1. IInv => DebtIsQueued
  BY DEF IInv
<1> QED
  BY <1>1, IInvHolds, PTL

-----------------------------------------------------------------------------
(* The compiler's passes over a capture.                                   *)
PassInv == pcap \in Captures /\ next \in Nat \ {0}

LEMMA PassStart == TagInit => PassInv
  BY DEF TagInit, PassInv

LEMMA PassStep == PassInv /\ [TagNext]_<<vars, tagVars>> => PassInv'
<1> SUFFICES ASSUME PassInv, [TagNext]_<<vars, tagVars>>
             PROVE  PassInv'
  OBVIOUS
<1>1. pcap' = pcap
  BY DEF TagNext, Skip, tagPriorityTillRoot, updateVirTimeTo, tagPriorityHandler, tagPriority,
         printPFMapHandler, printPFMap, tagVars
<1>2. next' \in {next, next + 1, 1}
  BY DEF TagNext, Skip, tagPriorityTillRoot, updateVirTimeTo, tagPriorityHandler, tagPriority,
         printPFMapHandler, printPFMap, tagVars, Start, Count
<1> QED
  BY <1>1, <1>2 DEF PassInv

\* A packet of the capture is one the clock accepts.
LEMMA PacketFits ==
  ASSUME PassInv, next <= Len(pcap), ~Skipped
  PROVE  /\ flowNodeMap[Packet.flow] \in Flow
         /\ Packet.cycle \in 0 .. MaxTime
         /\ Packet.len \in Length
<1>1. pcap \in Seq([flow : Nat, cycle : Nat, len : Nat, rank : Nat])
  BY CaptureAssumption DEF PassInv
<1>2. next \in DOMAIN pcap
  BY <1>1 DEF PassInv
<1>3. Packet.len \in Length /\ Packet.cycle \in 0 .. MaxTime
  BY <1>2, CaptureAssumption DEF PassInv, Packet
<1>4. Packet.flow \in DOMAIN flowNodeMap
  BY DEF Skipped
<1> QED
  BY <1>3, <1>4, CaptureAssumption

\* Every step of a pass is a step of the clock, or leaves it alone.
LEMMA PassIsClock ==
  ASSUME PassInv, [TagNext]_<<vars, tagVars>>
  PROVE  [Next]_vars
<1>1. CASE tagPriorityTillRoot
  <2>1. /\ next <= Len(pcap) /\ ~Skipped
        /\ Arrive(flowNodeMap[Packet.flow], Packet.cycle, Packet.len)
    BY <1>1 DEF tagPriorityTillRoot
  <2>2. /\ flowNodeMap[Packet.flow] \in Flow /\ Packet.cycle \in 0 .. MaxTime /\ Packet.len \in Length
    BY <2>1, PacketFits
  <2>3. \E f \in Flow, time \in 0 .. MaxTime, len \in Length : Arrive(f, time, len)
    BY <2>1, <2>2
  <2> QED
    BY <2>3 DEF Next
<1>2. CASE updateVirTimeTo
  BY <1>2 DEF updateVirTimeTo, Next
<1>3. CASE tagPriorityHandler
  BY <1>3 DEF tagPriorityHandler, Next
<1>4. CASE Skip \/ tagPriority \/ printPFMapHandler \/ printPFMap
  BY <1>4 DEF Skip, tagPriority, printPFMapHandler, printPFMap
<1>5. CASE UNCHANGED <<vars, tagVars>>
  BY <1>5
<1> QED
  BY <1>1, <1>2, <1>3, <1>4, <1>5 DEF TagNext

\* tagPriority and printPFMap (SchedStrategy.cpp) use the clock of WFQ.cpp as
\* module WFQ specifies it: with flows it has a weight for, and in order of time.
THEOREM PassesRunClock == TagSpec => Spec
<1>1. TagInit => Init
  BY DEF TagInit
<1>2. PassInv /\ [TagNext]_<<vars, tagVars>> => [Next]_vars
  BY PassIsClock
<1> QED
  BY <1>1, <1>2, PassStart, PassStep, PTL DEF TagSpec, Spec

\* In the trace that the compiler writes, for every capture and all natural
\* weights, the ranks of the packets of a tree are spaced by length / weight.
THEOREM TraceRanksSpaced == TagSpec => []RanksSpaced
  BY PassesRunClock, RanksAreSpaced, PTL

-----------------------------------------------------------------------------
(* The map and the trace.  Each pass goes through the same states, which   *)
(* are a function h of the number of packets gone by, and what it writes   *)
(* tells which of those packets it handled.                                *)
Progress == [cycle : Nat, id : Nat, cnt : Nat]
Begun == [cycle |-> 0, id |-> 0, cnt |-> 0]

PassedOver(s, p) == s.cnt > IDLE_LIMIT \/ p.flow \notin DOMAIN flowNodeMap

After(s, p) ==
  IF PassedOver(s, p) THEN s
  ELSE [cycle |-> p.cycle, id |-> s.id + 1,
        cnt |-> IF p.cycle - s.cycle > 1 /\ s.cycle # 0 THEN s.cnt + 1 ELSE s.cnt]

History(c, h) ==
  /\ h \in [Nat -> Progress] /\ h[0] = Begun
  /\ \A n \in Nat : n < Len(c) => h[n + 1] = After(h[n], c[n + 1])

\* The packets that are handled among the first n.
Handled(c, h, n) == {k \in 1 .. n : ~PassedOver(h[k - 1], c[k])}

\* Lines D of a file, with numbers ms and trees ts, report these packets.
Reports(c, h, n, D, ms, ts) ==
  /\ \A i \in D : \E k \in Handled(c, h, n) :
       ms[i] = h[k - 1].id /\ ts[i] = flowNodeMap[c[k].flow]
  /\ \A k \in Handled(c, h, n) : \E i \in D : ms[i] = h[k - 1].id
  /\ \A i, j \in D : i < j => ms[i] < ms[j]

PacketLines(t) == {i \in DOMAIN t : t[i].type = 1}
InTrace(c, h, n, t) ==
  Reports(c, h, n, PacketLines(t), [i \in PacketLines(t) |-> t[i].meta],
          [i \in PacketLines(t) |-> t[i].treeid])
InMap(c, h, n, f) ==
  Reports(c, h, n, DOMAIN f, [k \in DOMAIN f |-> f[k].meta],
          [k \in DOMAIN f |-> flowNodeMap[f[k].flow]])

\* A packet that is being ranked is the next one of the first pass.
Ranking == Tagging => /\ pass = "tag" /\ next <= Len(pcap) /\ ~Skipped
                      /\ arriving.flow = flowNodeMap[Packet.flow]

Now == [cycle |-> curCycle, id |-> pktId, cnt |-> idle_cycle_cnt]

Retraced(h) ==
  /\ History(pcap, h)
  /\ pass = "tag" =>
       Now = h[next - 1] /\ InTrace(pcap, h, next - 1, trace) /\ InMap(pcap, h, 0, PFMap)
  /\ pass = "map" =>
       Now = h[next - 1] /\ InTrace(pcap, h, Len(pcap), trace) /\ InMap(pcap, h, next - 1, PFMap)
  /\ pass = "read" =>
       InTrace(pcap, h, Len(pcap), trace) /\ InMap(pcap, h, Len(pcap), PFMap)

MapInv ==
  /\ pcap \in Captures /\ pass \in {"tag", "map", "read"} /\ next \in 1 .. Len(pcap) + 1
  /\ curCycle \in Nat /\ pktId \in Nat /\ idle_cycle_cnt \in Nat
  /\ (\E S : trace \in Seq(S)) /\ (\E S : PFMap \in Seq(S))
  /\ Ranking
  /\ \E h : Retraced(h)

\* A packet of the capture has a flow and a time.
LEMMA CapturePacket ==
  ASSUME NEW c \in Captures
  PROVE  /\ Len(c) \in Nat /\ DOMAIN c = 1 .. Len(c)
         /\ \A k \in 1 .. Len(c) : c[k].cycle \in Nat
<1>1. c \in Seq([flow : Nat, cycle : Nat, len : Nat, rank : Nat])
  BY CaptureAssumption
<1>2. Len(c) \in Nat /\ DOMAIN c = 1 .. Len(c)
  BY <1>1
<1>3. ASSUME NEW k \in 1 .. Len(c) PROVE c[k].cycle \in Nat
  <2>1. c[k] \in [flow : Nat, cycle : Nat, len : Nat, rank : Nat]
    BY <1>1, ElementOfSeq
  <2> QED
    BY <2>1
<1> QED
  BY <1>2, <1>3

\* There is such a history.
LEMMA HistoryExists ==
  ASSUME NEW c \in Captures
  PROVE  \E h : History(c, h)
<1> DEFINE G == [n \in Nat |-> [s \in Progress |->
                   IF n < Len(c) THEN After(s, c[n + 1]) ELSE s]]
<1>1. ASSUME NEW n \in Nat, NEW s \in Progress, n < Len(c)
      PROVE  After(s, c[n + 1]) \in Progress
  <2>1. c[n + 1].cycle \in Nat
    BY <1>1, CapturePacket
  <2> QED
    BY <2>1 DEF After, Progress
<1>2. G \in [Nat -> [Progress -> Progress]]
  BY <1>1
<1>3. Begun \in Progress
  BY DEF Begun, Progress
<1>4. \A n \in Nat, s \in Progress : G[n][s] = IF n < Len(c) THEN After(s, c[n + 1]) ELSE s
  OBVIOUS
<1> HIDE DEF G
<1>5. PICK h \in [Nat -> Progress] : Follows(Begun, G, h)
  BY <1>2, <1>3, RecursiveFunction
<1>6. History(c, h)
  <2>1. h \in [Nat -> Progress] /\ h[0] = Begun
    BY <1>5 DEF Follows
  <2>2. ASSUME NEW n \in Nat, n < Len(c) PROVE h[n + 1] = After(h[n], c[n + 1])
    <3>1. h[n] \in Progress /\ h[n + 1] = G[n][h[n]]
      BY <1>5 DEF Follows
    <3> QED
      BY <3>1, <2>2, <1>4
  <2> QED
    BY <2>1, <2>2 DEF History
<1> QED
  BY <1>6

\* The number grows with every packet that is handled.
LEMMA NumberGrows ==
  ASSUME NEW c \in Captures, NEW h, History(c, h)
  PROVE  \A n \in Nat : n <= Len(c) => \A k \in Handled(c, h, n) : h[k - 1].id < h[n].id
<1> DEFINE S == {n \in Nat : n <= Len(c) => \A k \in Handled(c, h, n) : h[k - 1].id < h[n].id}
<1>1. 0 \in S
  BY DEF Handled
<1>2. ASSUME NEW n \in Nat, n \in S PROVE n + 1 \in S
  <2> SUFFICES ASSUME n + 1 <= Len(c), NEW k \in Handled(c, h, n + 1)
               PROVE  h[k - 1].id < h[n + 1].id
    OBVIOUS
  <2>1. n < Len(c) /\ n <= Len(c) /\ k \in 1 .. n + 1 /\ ~PassedOver(h[k - 1], c[k])
    BY CapturePacket DEF Handled
  <2>2. h[n + 1] = After(h[n], c[n + 1]) /\ h[n].id \in Nat /\ h[k - 1].id \in Nat
    <3>1. h[n] \in Progress /\ h[k - 1] \in Progress
      BY <2>1 DEF History
    <3> QED
      BY <3>1, <2>1 DEF History, Progress
  <2>3. h[n + 1].id \in {h[n].id, h[n].id + 1} /\ (~PassedOver(h[n], c[n + 1]) => h[n + 1].id = h[n].id + 1)
    BY <2>2 DEF After
  <2>4. CASE k = n + 1
    <3>1. k - 1 = n
      BY <2>4
    <3> QED
      BY <2>1, <2>2, <2>3, <2>4, <3>1
  <2>5. CASE k \in 1 .. n
    <3>1. k \in Handled(c, h, n)
      BY <2>1, <2>5 DEF Handled
    <3>2. h[k - 1].id < h[n].id
      BY <1>2, <2>1, <3>1
    <3> QED
      BY <2>2, <2>3, <3>2
  <2> QED
    BY <2>1, <2>4, <2>5
<1> HIDE DEF S
<1>3. \A n \in Nat : n \in S
  BY <1>1, <1>2, SetInduction
<1> QED
  BY <1>3 DEF S

\* So a number is given to one packet.
LEMMA NumberOnce ==
  ASSUME NEW c \in Captures, NEW h, History(c, h),
         NEW k \in Handled(c, h, Len(c)), NEW l \in Handled(c, h, Len(c)),
         h[k - 1].id = h[l - 1].id
  PROVE  k = l
<1>1. ASSUME NEW a \in Handled(c, h, Len(c)), NEW b \in Handled(c, h, Len(c)), a < b
      PROVE  h[a - 1].id < h[b - 1].id
  <2>1. b - 1 \in Nat /\ b - 1 <= Len(c) /\ a \in 1 .. b - 1 /\ ~PassedOver(h[a - 1], c[a])
    BY <1>1, CapturePacket DEF Handled
  <2>2. a \in Handled(c, h, b - 1)
    BY <2>1 DEF Handled
  <2> QED
    BY <2>1, <2>2, NumberGrows
<1>2. k \in Int /\ l \in Int /\ h[k - 1].id \in Nat /\ h[l - 1].id \in Nat
  <2>1. k \in 1 .. Len(c) /\ l \in 1 .. Len(c)
    BY DEF Handled
  <2>2. h[k - 1] \in Progress /\ h[l - 1] \in Progress
    BY <2>1, CapturePacket DEF History
  <2> QED
    BY <2>1, <2>2, CapturePacket DEF Progress
<1>3. ~(k < l)
  <2> SUFFICES ASSUME k < l PROVE FALSE
    OBVIOUS
  <2>1. h[k - 1].id < h[l - 1].id
    BY <1>1
  <2> QED
    BY <2>1, <1>2
<1>4. ~(l < k)
  <2> SUFFICES ASSUME l < k PROVE FALSE
    OBVIOUS
  <2>1. h[l - 1].id < h[k - 1].id
    BY <1>1
  <2> QED
    BY <2>1, <1>2
<1> QED
  BY <1>2, <1>3, <1>4

\* A pass goes over a packet, or handles it.
LEMMA ReportsSame ==
  ASSUME NEW c, NEW h, NEW n \in Nat, NEW D, NEW ms, NEW ts, Reports(c, h, n, D, ms, ts),
         PassedOver(h[n], c[n + 1])
  PROVE  Reports(c, h, n + 1, D, ms, ts)
<1>1. Handled(c, h, n + 1) = Handled(c, h, n)
  <2>1. ASSUME NEW k \in 1 .. n + 1, ~PassedOver(h[k - 1], c[k]) PROVE k \in 1 .. n
    <3>1. k = n + 1 => k - 1 = n
      OBVIOUS
    <3>2. k # n + 1
      BY <3>1, <2>1
    <3> QED
      BY <3>2
  <2>2. \A k \in 1 .. n : k \in 1 .. n + 1
    OBVIOUS
  <2> QED
    BY <2>1, <2>2 DEF Handled
<1> QED
  BY <1>1 DEF Reports

More(c, h, n, D, ms, ts, d, mt, tt) ==
  /\ c \in Captures /\ History(c, h) /\ n \in Nat /\ n < Len(c)
  /\ ~PassedOver(h[n], c[n + 1])
  /\ D \subseteq Int /\ Reports(c, h, n, D, ms, ts)
  /\ d \in Int /\ \A i \in D : i < d
  /\ \A i \in D : mt[i] = ms[i] /\ tt[i] = ts[i]
  /\ mt[d] = h[n].id /\ tt[d] = flowNodeMap[c[n + 1].flow]

LEMMA ReportsMore ==
  ASSUME NEW c, NEW h, NEW n, NEW D, NEW ms, NEW ts, NEW d, NEW mt, NEW tt,
         More(c, h, n, D, ms, ts, d, mt, tt)
  PROVE  Reports(c, h, n + 1, D \cup {d}, mt, tt)
<1> USE DEF More
<1>1. n + 1 - 1 = n
  OBVIOUS
<1>2. Handled(c, h, n + 1) = Handled(c, h, n) \cup {n + 1}
  <2>1. \A k : k \in 1 .. n + 1 <=> k \in 1 .. n \/ k = n + 1
    OBVIOUS
  <2>2. \A k \in 1 .. n + 1 : k \in Handled(c, h, n + 1) <=> ~PassedOver(h[k - 1], c[k])
    BY DEF Handled
  <2>3. \A k \in 1 .. n : k \in Handled(c, h, n) <=> ~PassedOver(h[k - 1], c[k])
    BY DEF Handled
  <2>4. n + 1 \in Handled(c, h, n + 1)
    BY <2>1, <2>2, <1>1
  <2>5. Handled(c, h, n + 1) \subseteq 1 .. n + 1 /\ Handled(c, h, n) \subseteq 1 .. n
    BY DEF Handled
  <2> QED
    BY <2>1, <2>2, <2>3, <2>4, <2>5
<1>3. ASSUME NEW i \in D \cup {d}
      PROVE  \E k \in Handled(c, h, n + 1) : mt[i] = h[k - 1].id /\ tt[i] = flowNodeMap[c[k].flow]
  <2>1. CASE i = d
    <3>1. n + 1 \in Handled(c, h, n + 1) /\ mt[i] = h[n + 1 - 1].id
          /\ tt[i] = flowNodeMap[c[n + 1].flow]
      BY <2>1, <1>1, <1>2
    <3> QED
      BY <3>1
  <2>2. CASE i \in D
    <3>1. PICK k \in Handled(c, h, n) : ms[i] = h[k - 1].id /\ ts[i] = flowNodeMap[c[k].flow]
      BY <2>2 DEF Reports
    <3>2. k \in Handled(c, h, n + 1) /\ mt[i] = h[k - 1].id /\ tt[i] = flowNodeMap[c[k].flow]
      BY <1>2, <2>2, <3>1
    <3> QED
      BY <3>2
  <2> QED
    BY <2>1, <2>2
<1>4. ASSUME NEW k \in Handled(c, h, n + 1)
      PROVE  \E i \in D \cup {d} : mt[i] = h[k - 1].id
  <2>1. CASE k = n + 1
    BY <2>1, <1>1
  <2>2. CASE k \in Handled(c, h, n)
    <3>1. PICK i \in D : ms[i] = h[k - 1].id
      BY <2>2 DEF Reports
    <3> QED
      BY <3>1
  <2> QED
    BY <2>1, <2>2, <1>2
<1>5. \A i \in D : mt[i] < mt[d]
  <2> SUFFICES ASSUME NEW i \in D PROVE mt[i] < mt[d]
    OBVIOUS
  <2>1. PICK k \in Handled(c, h, n) : ms[i] = h[k - 1].id
    BY DEF Reports
  <2>2. n <= Len(c)
    BY CapturePacket
  <2>3. h[k - 1].id < h[n].id
    BY <2>2, NumberGrows
  <2> QED
    BY <2>1, <2>3
<1>6. ASSUME NEW i \in D \cup {d}, NEW j \in D \cup {d}, i < j
      PROVE  mt[i] < mt[j]
  <2>1. CASE i \in D /\ j \in D
    BY <2>1, <1>6 DEF Reports
  <2>2. CASE i \in D /\ j = d
    BY <2>2, <1>5
  <2>3. ~(i = d /\ j \in D)
    BY <1>6
  <2>4. ~(i = d /\ j = d)
    BY <1>6
  <2> QED
    BY <2>1, <2>2, <2>3, <2>4
<1> QED
  BY <1>3, <1>4, <1>6 DEF Reports

\* The lines of a packet behind those that were there.
Added(S, t, m, a, b, u) ==
  /\ t \in Seq(S) /\ m \in Seq(S) /\ (\A i \in DOMAIN m : m[i].type # 1)
  /\ a \in S /\ b \in S /\ a.type = 1 /\ b.type # 1
  /\ u = (t \o m) \o <<a, b>>

LEMMA PacketAdded ==
  ASSUME NEW S, NEW t, NEW m, NEW a, NEW b, NEW u, Added(S, t, m, a, b, u)
  PROVE  \E d \in Nat :
           /\ u \in Seq(S) /\ u[d] = a
           /\ PacketLines(u) = PacketLines(t) \cup {d}
           /\ \A i \in PacketLines(t) : i \in Nat /\ i < d /\ u[i] = t[i]
<1>0. /\ t \in Seq(S) /\ m \in Seq(S) /\ (\A i \in DOMAIN m : m[i].type # 1)
      /\ a \in S /\ b \in S /\ a.type = 1 /\ b.type # 1
      /\ u = (t \o m) \o <<a, b>>
  BY DEF Added
<1> DEFINE T == Len(t)
           M == Len(m)
<1>1. T \in Nat /\ M \in Nat /\ DOMAIN t = 1 .. T /\ DOMAIN m = 1 .. M
  BY <1>0, LenProperties
<1>2. /\ t \o m \in Seq(S) /\ Len(t \o m) = T + M
      /\ \A i \in 1 .. T + M : (t \o m)[i] = IF i <= T THEN t[i] ELSE m[i - T]
  BY <1>0, ConcatProperties
<1>3. <<a, b>> \in Seq(S) /\ Len(<<a, b>>) = 2 /\ <<a, b>>[1] = a /\ <<a, b>>[2] = b
  BY <1>0
<1>4. /\ u \in Seq(S) /\ Len(u) = (T + M) + 2
      /\ \A i \in 1 .. (T + M) + 2 : u[i] = IF i <= T + M THEN (t \o m)[i] ELSE <<a, b>>[i - (T + M)]
  BY <1>0, <1>2, <1>3, ConcatProperties
<1>5. DOMAIN u = 1 .. (T + M) + 2
  BY <1>4, LenProperties
<1> HIDE DEF T, M
<1> DEFINE d == (T + M) + 1
<1>6. d \in Nat /\ d - (T + M) = 1 /\ (d + 1) - (T + M) = 2 /\ ~(d <= T + M) /\ ~(d + 1 <= T + M)
  BY <1>1
<1>7. u[d] = a /\ u[d + 1] = b
  <2>1. d \in 1 .. (T + M) + 2 /\ d + 1 \in 1 .. (T + M) + 2
    BY <1>1
  <2> QED
    BY <2>1, <1>3, <1>4, <1>6
<1>8. ASSUME NEW i \in 1 .. T PROVE i \in DOMAIN u /\ u[i] = t[i] /\ i < d /\ i \in Nat
  <2>1. i <= T /\ i <= T + M /\ i \in 1 .. T + M /\ i \in 1 .. (T + M) + 2 /\ i < d /\ i \in Nat
    BY <1>1
  <2> QED
    BY <2>1, <1>2, <1>4, <1>5
<1>9. ASSUME NEW i \in 1 .. (T + M) + 2, i \notin 1 .. T, i # d PROVE u[i].type # 1
  <2>1. CASE i = d + 1
    BY <2>1, <1>0, <1>7
  <2>2. CASE i # d + 1
    <3>1. i \in 1 .. T + M /\ ~(i <= T) /\ i - T \in 1 .. M /\ i <= T + M
      BY <1>1, <1>9, <2>2
    <3>2. u[i] = m[i - T]
      BY <3>1, <1>2, <1>4
    <3> QED
      BY <3>1, <3>2, <1>0, <1>1
  <2> QED
    BY <2>1, <2>2
<1>10. d \in DOMAIN u
  BY <1>1, <1>5
<1> HIDE DEF d
<1>11. PacketLines(u) = PacketLines(t) \cup {d}
  BY <1>0, <1>1, <1>5, <1>7, <1>8, <1>9, <1>10 DEF PacketLines
<1>12. \A i \in PacketLines(t) : i \in 1 .. T
  BY <1>1 DEF PacketLines
<1> QED
  BY <1>4, <1>6, <1>7, <1>8, <1>11, <1>12

\* Nothing is written yet.
LEMMA NothingReported ==
  ASSUME NEW c, NEW h
  PROVE  InTrace(c, h, 0, << >>) /\ InMap(c, h, 0, << >>)
<1>1. Handled(c, h, 0) = {} /\ PacketLines(<< >>) = {} /\ DOMAIN << >> = {}
  BY DEF Handled, PacketLines
<1> QED
  BY <1>1 DEF InTrace, InMap, Reports

LEMMA MapStart == TagInit => MapInv
<1> SUFFICES ASSUME TagInit PROVE MapInv
  OBVIOUS
<1>1. pcap \in Captures /\ pass = "tag" /\ next = 1 /\ trace = << >> /\ PFMap = << >>
  BY DEF TagInit
<1>2. curCycle = 0 /\ pktId = 0 /\ idle_cycle_cnt = 0 /\ ~Tagging
  BY DEF TagInit, Init, Tagging
<1>3. PICK h : History(pcap, h)
  BY <1>1, HistoryExists
<1>4. Now = h[next - 1]
  BY <1>1, <1>2, <1>3 DEF Now, History, Begun
<1>5. Retraced(h)
  <2>1. next - 1 = 0
    BY <1>1
  <2> QED
    BY <1>1, <1>3, <1>4, <2>1, NothingReported DEF Retraced
<1>6. next \in 1 .. Len(pcap) + 1
  BY <1>1, CapturePacket
<1>7. (\E S : trace \in Seq(S)) /\ (\E S : PFMap \in Seq(S))
  BY <1>1
<1> QED
  BY <1>1, <1>2, <1>5, <1>6, <1>7 DEF MapInv, Ranking

\* What the passes see of the next packet is what the history says of it.
LEMMA AtPacket ==
  ASSUME MapInv, NEW h, Retraced(h), pass \in {"tag", "map"}, next <= Len(pcap)
  PROVE  /\ next - 1 \in Nat /\ next - 1 < Len(pcap) /\ next - 1 + 1 = next /\ next + 1 - 1 = next
         /\ next + 1 \in 1 .. Len(pcap) + 1
         /\ Now = h[next - 1] /\ h[next] = After(Now, Packet)
         /\ Packet.cycle \in Nat
         /\ PassedOver(Now, Packet) <=> Skipped
<1>1. pcap \in Captures /\ next \in Nat \ {0} /\ Len(pcap) \in Nat
  BY CapturePacket DEF MapInv
<1>2. /\ next - 1 \in Nat /\ next - 1 < Len(pcap) /\ next - 1 + 1 = next /\ next + 1 - 1 = next
      /\ next + 1 \in 1 .. Len(pcap) + 1
  BY <1>1
<1>3. Now = h[next - 1]
  BY DEF Retraced
<1>4. h[next] = After(Now, Packet)
  BY <1>2, <1>3 DEF Retraced, History, Packet
<1>5. Packet.cycle \in Nat
  BY <1>1, CapturePacket DEF Packet
<1>6. PassedOver(Now, Packet) <=> Skipped
  BY DEF PassedOver, Skipped, Now
<1> QED
  BY <1>2, <1>3, <1>4, <1>5, <1>6

\* A packet that is passed over changes the state of neither pass.
LEMMA MapSkip == MapInv /\ Skip => MapInv'
<1> SUFFICES ASSUME MapInv, Skip PROVE MapInv'
  OBVIOUS
<1>1. /\ pass \in {"tag", "map"} /\ ~Tagging /\ next <= Len(pcap) /\ Skipped /\ next' = next + 1
      /\ pcap' = pcap /\ pass' = pass /\ curCycle' = curCycle /\ pktId' = pktId
      /\ idle_cycle_cnt' = idle_cycle_cnt /\ trace' = trace /\ PFMap' = PFMap /\ vars' = vars
  BY DEF Skip
<1>2. PICK h : Retraced(h)
  BY DEF MapInv
<1>3. /\ next - 1 \in Nat /\ next - 1 < Len(pcap) /\ next - 1 + 1 = next /\ next + 1 - 1 = next
      /\ next + 1 \in 1 .. Len(pcap) + 1
      /\ Now = h[next - 1] /\ h[next] = After(Now, Packet)
      /\ PassedOver(Now, Packet) <=> Skipped
  BY <1>1, <1>2, AtPacket
<1>4. h[next] = Now /\ PassedOver(h[next - 1], pcap[next - 1 + 1])
  BY <1>1, <1>3 DEF After, Packet
<1>5. Now' = Now
  BY <1>1 DEF Now
<1>6. pass = "tag" => InTrace(pcap, h, next, trace)
  <2> SUFFICES ASSUME pass = "tag" PROVE InTrace(pcap, h, next, trace)
    OBVIOUS
  <2>1. InTrace(pcap, h, next - 1, trace)
    BY <1>2 DEF Retraced
  <2>2. InTrace(pcap, h, next - 1 + 1, trace)
    BY <1>3, <1>4, <2>1, ReportsSame DEF InTrace
  <2> QED
    BY <2>2, <1>3
<1>7. pass = "map" => InMap(pcap, h, next, PFMap)
  <2> SUFFICES ASSUME pass = "map" PROVE InMap(pcap, h, next, PFMap)
    OBVIOUS
  <2>1. InMap(pcap, h, next - 1, PFMap)
    BY <1>2 DEF Retraced
  <2>2. InMap(pcap, h, next - 1 + 1, PFMap)
    BY <1>3, <1>4, <2>1, ReportsSame DEF InMap
  <2> QED
    BY <2>2, <1>3
<1>8. Retraced(h)'
  BY <1>1, <1>2, <1>3, <1>4, <1>5, <1>6, <1>7 DEF Retraced
<1>9. ~Tagging'
  BY <1>1 DEF Tagging, vars
<1> QED
  BY <1>1, <1>3, <1>8, <1>9 DEF MapInv, Ranking

\* A packet is handled: the state that both passes come to.
LEMMA NowCounts ==
  ASSUME MapInv, NEW h, Retraced(h), pass \in {"tag", "map"}, next <= Len(pcap), ~Skipped,
         Count, idle_cycle_cnt' = NextIdleCnt
  PROVE  /\ Now' = h[next] /\ next' = next + 1
         /\ curCycle' \in Nat /\ pktId' \in Nat /\ idle_cycle_cnt' \in Nat
<1>1. /\ Now = h[next - 1] /\ h[next] = After(Now, Packet)
      /\ Packet.cycle \in Nat
      /\ PassedOver(Now, Packet) <=> Skipped
  BY AtPacket
<1>2. curCycle' = Packet.cycle /\ pktId' = pktId + 1 /\ next' = next + 1
  BY DEF Count
<1>3. idle_cycle_cnt' = IF Packet.cycle - curCycle > 1 /\ curCycle # 0 THEN idle_cycle_cnt + 1
                        ELSE idle_cycle_cnt
  BY DEF NextIdleCnt, Gap
<1>4. Now' = [cycle |-> curCycle', id |-> pktId', cnt |-> idle_cycle_cnt']
  BY DEF Now
<1>5. After(Now, Packet) =
        [cycle |-> Packet.cycle, id |-> pktId + 1,
         cnt |-> IF Packet.cycle - curCycle > 1 /\ curCycle # 0 THEN idle_cycle_cnt + 1
                 ELSE idle_cycle_cnt]
  BY <1>1 DEF After, Now
<1>6. Now' = h[next]
  BY <1>1, <1>2, <1>3, <1>4, <1>5
<1> QED
  BY <1>1, <1>2, <1>3, <1>6 DEF MapInv

\* The first pass writes the lines of the packet it has ranked.
LEMMA MapTag == MapInv /\ tagPriorityHandler => MapInv'
<1> SUFFICES ASSUME MapInv, tagPriorityHandler PROVE MapInv'
  OBVIOUS
<1> DEFINE a == [type |-> 1, treeid |-> arriving.flow, meta |-> pktId, p0 |-> Packet.rank,
                 p1 |-> Cut(VirStartTime(arriving.flow))]
           b == [type |-> 2]
<1>1. /\ Tagging /\ Count /\ idle_cycle_cnt' = NextIdleCnt /\ arriving' = NoPacket
      /\ pcap' = pcap /\ pass' = pass /\ PFMap' = PFMap
      /\ trace' = (trace \o idle_line) \o <<a, b>>
  BY DEF tagPriorityHandler, Tag
<1>2. /\ pass = "tag" /\ next <= Len(pcap) /\ ~Skipped /\ arriving.flow = flowNodeMap[Packet.flow]
  BY <1>1 DEF MapInv, Ranking
<1>3. PICK h : Retraced(h)
  BY DEF MapInv
<1>4. /\ next - 1 \in Nat /\ next - 1 < Len(pcap) /\ next - 1 + 1 = next /\ next + 1 - 1 = next
      /\ next + 1 \in 1 .. Len(pcap) + 1
      /\ Now = h[next - 1] /\ h[next] = After(Now, Packet)
      /\ PassedOver(Now, Packet) <=> Skipped
  BY <1>2, <1>3, AtPacket
<1>5. /\ Now' = h[next] /\ next' = next + 1
      /\ curCycle' \in Nat /\ pktId' \in Nat /\ idle_cycle_cnt' \in Nat
  BY <1>1, <1>2, <1>3, NowCounts
<1>6. a.type = 1 /\ a.meta = pktId /\ a.treeid = arriving.flow /\ b.type # 1
  OBVIOUS
<1>7. PICK S : trace \in Seq(S)
  BY DEF MapInv
<1>8. PICK x : x.type # 1 /\ (idle_line = << >> \/ idle_line = <<x>>)
  <2> DEFINE y == [type |-> 0, idle_cycle |-> IF curCycle = 0 THEN FIRST_IDLECYCLE
                                     ELSE IF Packet.cycle - curCycle - 1 < MAX_INTERVAL_IDLECYCLE
                                     THEN Packet.cycle - curCycle - 1
                                     ELSE MAX_INTERVAL_IDLECYCLE]
  <2>1. y.type # 1
    OBVIOUS
  <2>2. idle_line = << >> \/ idle_line = <<y>>
    BY DEF idle_line
  <2> HIDE DEF y
  <2> QED
    BY <2>1, <2>2
<1> HIDE DEF a, b
<1> DEFINE Z == S \cup {a, b, x}
<1>9. trace \in Seq(Z) /\ a \in Z /\ b \in Z /\ x \in Z
  BY <1>7
<1>10. idle_line \in Seq(Z) /\ \A i \in DOMAIN idle_line : idle_line[i].type # 1
  <2>1. CASE idle_line = << >>
    BY <2>1
  <2>2. CASE idle_line = <<x>>
    <3>1. <<x>> \in Seq(Z) /\ DOMAIN <<x>> = {1} /\ <<x>>[1] = x
      BY <1>9
    <3> QED
      BY <3>1, <2>2, <1>8
  <2> QED
    BY <1>8, <2>1, <2>2
<1> HIDE DEF Z
<1>10a. Added(Z, trace, idle_line, a, b, trace')
  BY <1>1, <1>6, <1>9, <1>10 DEF Added
<1>11. PICK d \in Nat :
         /\ trace' \in Seq(Z) /\ trace'[d] = a
         /\ PacketLines(trace') = PacketLines(trace) \cup {d}
         /\ \A i \in PacketLines(trace) : i \in Nat /\ i < d /\ trace'[i] = trace[i]
  BY <1>10a, PacketAdded
<1>12. InTrace(pcap, h, next, trace')
  <2> DEFINE D  == PacketLines(trace)
             E  == PacketLines(trace')
             ms == [i \in D |-> trace[i].meta]
             ts == [i \in D |-> trace[i].treeid]
             mt == [i \in E |-> trace'[i].meta]
             tt == [i \in E |-> trace'[i].treeid]
  <2>1. Reports(pcap, h, next - 1, D, ms, ts)
    BY <1>2, <1>3 DEF Retraced, InTrace
  <2>2. \A i \in D : mt[i] = ms[i] /\ tt[i] = ts[i]
    BY <1>11
  <2>3. mt[d] = h[next - 1].id
    <3>1. mt[d] = pktId
      BY <1>6, <1>11
    <3>2. Now.id = pktId
      BY DEF Now
    <3> QED
      BY <3>1, <3>2, <1>4
  <2>4. tt[d] = flowNodeMap[pcap[next - 1 + 1].flow]
    <3>1. tt[d] = arriving.flow
      BY <1>6, <1>11
    <3> QED
      BY <3>1, <1>2, <1>4 DEF Packet
  <2>5. ~PassedOver(h[next - 1], pcap[next - 1 + 1])
    BY <1>2, <1>4 DEF Packet
  <2>6. D \subseteq Int /\ d \in Int /\ (\A i \in D : i < d) /\ E = D \cup {d}
    BY <1>11
  <2>7. pcap \in Captures /\ History(pcap, h)
    BY <1>3 DEF MapInv, Retraced
  <2> HIDE DEF D, E, ms, ts, mt, tt
  <2> DEFINE n == next - 1
  <2>7a. n \in Nat /\ n < Len(pcap)
    BY <1>4
  <2> HIDE DEF n
  <2>8. Reports(pcap, h, n + 1, D \cup {d}, mt, tt)
    <3>1. /\ Reports(pcap, h, n, D, ms, ts) /\ mt[d] = h[n].id
          /\ tt[d] = flowNodeMap[pcap[n + 1].flow] /\ ~PassedOver(h[n], pcap[n + 1])
      BY <2>1, <2>3, <2>4, <2>5 DEF n
    <3>2. More(pcap, h, n, D, ms, ts, d, mt, tt)
      BY <3>1, <2>2, <2>6, <2>7, <2>7a DEF More
    <3> QED
      BY <3>2, ReportsMore
  <2>9. Reports(pcap, h, next, E, mt, tt)
    BY <1>4, <2>6, <2>8 DEF n
  <2> QED
    BY <2>9 DEF InTrace, E, mt, tt
<1>13. Retraced(h)'
  BY <1>1, <1>2, <1>3, <1>4, <1>5, <1>12 DEF Retraced
<1>14. ~Tagging'
  BY <1>1 DEF Tagging
<1>15. \E T : trace' \in Seq(T)
  BY <1>11
<1> QED
  BY <1>1, <1>2, <1>4, <1>5, <1>13, <1>14, <1>15 DEF MapInv, Ranking

\* The second pass writes the line of the packet.
LEMMA MapMap == MapInv /\ printPFMapHandler => MapInv'
<1> SUFFICES ASSUME MapInv, printPFMapHandler PROVE MapInv'
  OBVIOUS
<1> DEFINE a == [meta |-> pktId, flow |-> Packet.flow]
<1>1. /\ pass = "map" /\ next <= Len(pcap) /\ ~Skipped
      /\ Count /\ idle_cycle_cnt' = NextIdleCnt /\ vars' = vars
      /\ pcap' = pcap /\ pass' = pass /\ trace' = trace
      /\ PFMap' = Append(PFMap, a)
  BY DEF printPFMapHandler
<1>3. PICK h : Retraced(h)
  BY DEF MapInv
<1>4. /\ next - 1 \in Nat /\ next - 1 < Len(pcap) /\ next - 1 + 1 = next /\ next + 1 - 1 = next
      /\ next + 1 \in 1 .. Len(pcap) + 1
      /\ Now = h[next - 1] /\ h[next] = After(Now, Packet)
      /\ PassedOver(Now, Packet) <=> Skipped
  BY <1>1, <1>3, AtPacket
<1>5. /\ Now' = h[next] /\ next' = next + 1
      /\ curCycle' \in Nat /\ pktId' \in Nat /\ idle_cycle_cnt' \in Nat
  BY <1>1, <1>3, NowCounts
<1>6. a.meta = pktId /\ a.flow = Packet.flow
  OBVIOUS
<1>7. PICK S : PFMap \in Seq(S)
  BY DEF MapInv
<1> HIDE DEF a
<1> DEFINE Z == S \cup {a}
<1>9. PFMap \in Seq(Z) /\ a \in Z
  BY <1>7
<1> HIDE DEF Z
<1> DEFINE d == Len(PFMap) + 1
<1>11. /\ PFMap' \in Seq(Z) /\ PFMap'[d] = a /\ d \in Nat
       /\ DOMAIN PFMap' = DOMAIN PFMap \cup {d}
       /\ \A i \in DOMAIN PFMap : i \in Nat /\ i < d /\ PFMap'[i] = PFMap[i]
  BY <1>1, <1>9
<1> HIDE DEF d
<1>12. InMap(pcap, h, next, PFMap')
  <2> DEFINE D  == DOMAIN PFMap
             E  == DOMAIN PFMap'
             ms == [i \in D |-> PFMap[i].meta]
             ts == [i \in D |-> flowNodeMap[PFMap[i].flow]]
             mt == [i \in E |-> PFMap'[i].meta]
             tt == [i \in E |-> flowNodeMap[PFMap'[i].flow]]
  <2>1. Reports(pcap, h, next - 1, D, ms, ts)
    BY <1>1, <1>3 DEF Retraced, InMap
  <2>2. \A i \in D : mt[i] = ms[i] /\ tt[i] = ts[i]
    BY <1>11
  <2>3. mt[d] = h[next - 1].id
    <3>1. mt[d] = pktId
      BY <1>6, <1>11
    <3>2. Now.id = pktId
      BY DEF Now
    <3> QED
      BY <3>1, <3>2, <1>4
  <2>4. tt[d] = flowNodeMap[pcap[next - 1 + 1].flow]
    <3>1. tt[d] = flowNodeMap[Packet.flow]
      BY <1>6, <1>11
    <3> QED
      BY <3>1, <1>4 DEF Packet
  <2>5. ~PassedOver(h[next - 1], pcap[next - 1 + 1])
    BY <1>1, <1>4 DEF Packet
  <2>6. D \subseteq Int /\ d \in Int /\ (\A i \in D : i < d) /\ E = D \cup {d}
    BY <1>11
  <2>7. pcap \in Captures /\ History(pcap, h)
    BY <1>3 DEF MapInv, Retraced
  <2> HIDE DEF D, E, ms, ts, mt, tt
  <2> DEFINE n == next - 1
  <2>7a. n \in Nat /\ n < Len(pcap)
    BY <1>4
  <2> HIDE DEF n
  <2>8. Reports(pcap, h, n + 1, D \cup {d}, mt, tt)
    <3>1. /\ Reports(pcap, h, n, D, ms, ts) /\ mt[d] = h[n].id
          /\ tt[d] = flowNodeMap[pcap[n + 1].flow] /\ ~PassedOver(h[n], pcap[n + 1])
      BY <2>1, <2>3, <2>4, <2>5 DEF n
    <3>2. More(pcap, h, n, D, ms, ts, d, mt, tt)
      BY <3>1, <2>2, <2>6, <2>7, <2>7a DEF More
    <3> QED
      BY <3>2, ReportsMore
  <2>9. Reports(pcap, h, next, E, mt, tt)
    BY <1>4, <2>6, <2>8 DEF n
  <2> QED
    BY <2>9 DEF InMap, E, mt, tt
<1>13. Retraced(h)'
  BY <1>1, <1>3, <1>4, <1>5, <1>12 DEF Retraced
<1>14. ~Tagging'
  BY <1>1 DEF Tagging, vars, MapInv, Ranking
<1>15. \E T : PFMap' \in Seq(T)
  BY <1>11
<1> QED
  BY <1>1, <1>4, <1>5, <1>13, <1>14, <1>15 DEF MapInv, Ranking

\* A pass ends; the next one starts at the first packet.
LEMMA MapEnds == MapInv /\ (tagPriority \/ printPFMap) => MapInv'
<1> SUFFICES ASSUME MapInv, tagPriority \/ printPFMap PROVE MapInv'
  OBVIOUS
<1>1. PICK h : Retraced(h)
  BY DEF MapInv
<1>2. Len(pcap) \in Nat /\ next \in 1 .. Len(pcap) + 1 /\ pcap \in Captures
  BY CapturePacket DEF MapInv
<1>3. ASSUME next > Len(pcap) PROVE next - 1 = Len(pcap)
  BY <1>2, <1>3
<1>4. CASE tagPriority
  <2> DEFINE e == [type |-> 0, idle_cycle |-> MAX_IDLECYCLE]
  <2>1. /\ pass = "tag" /\ ~Tagging /\ next > Len(pcap) /\ pass' = "map"
        /\ trace' = Append(trace, e) /\ vars' = vars /\ pcap' = pcap /\ PFMap' = PFMap
        /\ next' = 1 /\ curCycle' = 0 /\ pktId' = 0 /\ idle_cycle_cnt' = 0
    BY <1>4 DEF tagPriority, Start
  <2>2. e.type # 1
    OBVIOUS
  <2> HIDE DEF e
  <2>3. PICK S : trace \in Seq(S)
    BY DEF MapInv
  <2> DEFINE Z == S \cup {e}
  <2>4. trace \in Seq(Z) /\ e \in Z
    BY <2>3
  <2> HIDE DEF Z
  <2>5. /\ trace' \in Seq(Z) /\ DOMAIN trace' = DOMAIN trace \cup {Len(trace) + 1}
        /\ trace'[Len(trace) + 1] = e /\ \A i \in DOMAIN trace : trace'[i] = trace[i]
    BY <2>1, <2>4
  <2>6. PacketLines(trace') = PacketLines(trace)
    BY <2>2, <2>5 DEF PacketLines
  <2>7. \A i \in PacketLines(trace) : trace'[i] = trace[i]
    BY <2>5 DEF PacketLines
  <2>8. InTrace(pcap, h, Len(pcap), trace)
    BY <1>1, <1>3, <2>1 DEF Retraced
  <2>9. InTrace(pcap, h, Len(pcap), trace')
    <3>1. /\ [i \in PacketLines(trace') |-> trace'[i].meta] = [i \in PacketLines(trace) |-> trace[i].meta]
          /\ [i \in PacketLines(trace') |-> trace'[i].treeid] = [i \in PacketLines(trace) |-> trace[i].treeid]
      BY <2>6, <2>7
    <3> QED
      BY <2>6, <2>8, <3>1 DEF InTrace
  <2>10. Now' = h[next' - 1]
    BY <1>1, <2>1 DEF Now, Retraced, History, Begun
  <2>11. InMap(pcap, h, 0, PFMap) /\ next' - 1 = 0
    BY <1>1, <2>1 DEF Retraced
  <2>12. Retraced(h)'
    BY <1>1, <2>1, <2>9, <2>10, <2>11 DEF Retraced
  <2>13. ~Tagging' /\ next' \in 1 .. Len(pcap) + 1
    BY <1>2, <2>1 DEF Tagging, vars
  <2>14. \E T : trace' \in Seq(T)
    BY <2>5
  <2> QED
    BY <2>1, <2>12, <2>13, <2>14 DEF MapInv, Ranking
<1>5. CASE printPFMap
  <2>1. /\ pass = "map" /\ next > Len(pcap) /\ pass' = "read"
        /\ trace' = trace /\ vars' = vars /\ pcap' = pcap /\ PFMap' = PFMap
        /\ next' = next /\ curCycle' = curCycle /\ pktId' = pktId
        /\ idle_cycle_cnt' = idle_cycle_cnt
    BY <1>5 DEF printPFMap
  <2>2. Retraced(h)'
    BY <1>1, <1>3, <2>1 DEF Retraced
  <2>3. ~Tagging'
    BY <2>1 DEF MapInv, Ranking, Tagging, vars
  <2> QED
    BY <2>1, <2>2, <2>3 DEF MapInv, Ranking
<1> QED
  BY <1>4, <1>5

\* The clock runs; the files stay.
LEMMA MapClock == MapInv /\ (tagPriorityTillRoot \/ updateVirTimeTo \/ UNCHANGED <<vars, tagVars>>)
                    => MapInv'
<1> SUFFICES ASSUME MapInv, tagPriorityTillRoot \/ updateVirTimeTo \/ UNCHANGED <<vars, tagVars>>
             PROVE  MapInv'
  OBVIOUS
<1>1. UNCHANGED tagVars
  BY DEF tagPriorityTillRoot, updateVirTimeTo
<1>2. /\ pcap' = pcap /\ pass' = pass /\ next' = next /\ curCycle' = curCycle /\ pktId' = pktId
      /\ idle_cycle_cnt' = idle_cycle_cnt /\ trace' = trace /\ PFMap' = PFMap
  BY <1>1 DEF tagVars
<1>3. PICK h : Retraced(h)
  BY DEF MapInv
<1>4. Retraced(h)'
  BY <1>2, <1>3 DEF Retraced, Now
<1>5. Skipped' = Skipped /\ Packet' = Packet
  BY <1>2 DEF Skipped, Packet
<1>6. Ranking'
  <2>1. CASE tagPriorityTillRoot
    <3>1. /\ pass = "tag" /\ next <= Len(pcap) /\ ~Skipped
          /\ arriving' = [flow |-> flowNodeMap[Packet.flow], time |-> Packet.cycle, len |-> Packet.len]
      BY <2>1 DEF tagPriorityTillRoot, Arrive
    <3>2. arriving'.flow = flowNodeMap[Packet.flow]
      BY <3>1
    <3> QED
      BY <3>1, <3>2, <1>2, <1>5 DEF Ranking
  <2>2. CASE arriving' = arriving
    BY <2>2, <1>2, <1>5 DEF MapInv, Ranking, Tagging
  <2>3. updateVirTimeTo \/ UNCHANGED <<vars, tagVars>> => arriving' = arriving
    BY DEF updateVirTimeTo, Depart, vars
  <2> QED
    BY <2>1, <2>2, <2>3
<1> QED
  BY <1>2, <1>4, <1>6 DEF MapInv

\* A packet of the trace and its line of the map are of one tree.
LEMMA MapAtEnd == MapInv => MapMatchesTrace
<1> SUFFICES ASSUME MapInv, pass = "read" PROVE MapMatchesTrace
  BY DEF MapMatchesTrace
<1> DEFINE D  == PacketLines(trace)
           E  == DOMAIN PFMap
           ms == [i \in D |-> trace[i].meta]
           ts == [i \in D |-> trace[i].treeid]
           mt == [i \in E |-> PFMap[i].meta]
           tt == [i \in E |-> flowNodeMap[PFMap[i].flow]]
<1>1. PICK h : Retraced(h)
  BY DEF MapInv
<1>2. /\ pcap \in Captures /\ History(pcap, h)
      /\ Reports(pcap, h, Len(pcap), D, ms, ts) /\ Reports(pcap, h, Len(pcap), E, mt, tt)
  BY <1>1 DEF MapInv, Retraced, InTrace, InMap
<1>3. /\ \A i \in D : ms[i] = trace[i].meta /\ ts[i] = trace[i].treeid
      /\ \A k \in E : mt[k] = PFMap[k].meta /\ tt[k] = flowNodeMap[PFMap[k].flow]
  OBVIOUS
<1>4. D = {i \in DOMAIN trace : trace[i].type = 1}
  BY DEF PacketLines
<1> HIDE DEF D, E, ms, ts, mt, tt
<1>5. {ms[i] : i \in D} = {mt[k] : k \in E}
  <2>1. ASSUME NEW i \in D PROVE \E k \in E : mt[k] = ms[i]
    <3>1. PICK l \in Handled(pcap, h, Len(pcap)) : ms[i] = h[l - 1].id
      BY <1>2 DEF Reports
    <3>2. PICK k \in E : mt[k] = h[l - 1].id
      BY <1>2 DEF Reports
    <3> QED
      BY <3>1, <3>2
  <2>2. ASSUME NEW k \in E PROVE \E i \in D : ms[i] = mt[k]
    <3>1. PICK l \in Handled(pcap, h, Len(pcap)) : mt[k] = h[l - 1].id
      BY <1>2 DEF Reports
    <3>2. PICK i \in D : ms[i] = h[l - 1].id
      BY <1>2 DEF Reports
    <3> QED
      BY <3>1, <3>2
  <2> QED
    BY <2>1, <2>2
<1>6. ASSUME NEW i \in D, NEW k \in E, ms[i] = mt[k] PROVE tt[k] = ts[i]
  <2>1. PICK l \in Handled(pcap, h, Len(pcap)) :
          ms[i] = h[l - 1].id /\ ts[i] = flowNodeMap[pcap[l].flow]
    BY <1>2 DEF Reports
  <2>2. PICK m \in Handled(pcap, h, Len(pcap)) :
          mt[k] = h[m - 1].id /\ tt[k] = flowNodeMap[pcap[m].flow]
    BY <1>2 DEF Reports
  <2>3. l = m
    BY <1>2, <1>6, <2>1, <2>2, NumberOnce
  <2> QED
    BY <2>1, <2>2, <2>3
<1>7. /\ \A i, j \in D : i < j => ms[i] < ms[j]
      /\ \A k, l \in E : k < l => mt[k] < mt[l]
  BY <1>2 DEF Reports
<1>8. {ms[i] : i \in D} = {trace[i].meta : i \in D} /\ {mt[k] : k \in E} = {PFMap[k].meta : k \in E}
  BY <1>3
<1>9. /\ \A i, j \in D : i < j => trace[i].meta < trace[j].meta
      /\ \A k, l \in E : k < l => PFMap[k].meta < PFMap[l].meta
      /\ {trace[i].meta : i \in D} = {PFMap[k].meta : k \in E}
      /\ \A i \in D, k \in E :
           trace[i].meta = PFMap[k].meta => flowNodeMap[PFMap[k].flow] = trace[i].treeid
  BY <1>3, <1>5, <1>6, <1>7, <1>8
<1>10. E = DOMAIN PFMap
  BY DEF E
<1> QED
  BY <1>4, <1>9, <1>10 DEF MapMatchesTrace

\* SchedStrategy.cpp runs over the capture twice, and decides each time again
\* which packets count and where to stop: for every capture, tree and limit the
\* map of the second pass is that of the packets the first has put in the trace.
THEOREM MapIsOfTrace == TagSpec => []MapMatchesTrace
<1>1. MapInv /\ [TagNext]_<<vars, tagVars>> => MapInv'
  BY MapSkip, MapTag, MapMap, MapEnds, MapClock DEF TagNext
<1> QED
  BY <1>1, MapStart, MapAtEnd, PTL DEF TagSpec

-----------------------------------------------------------------------------
(* The rate of the clock.                                                  *)
QueueWeight(Q) == MapThenSumSet(LAMBDA out : out.flowWeight, Q)
Weights(Q) == [out \in Q |-> out.flowWeight]

\* The fold of the community modules is a sum.
LEMMA QueueWeightSum ==
  ASSUME NEW Q, IsFiniteSet(Q), Q \subseteq Out
  PROVE  \E f : SumDef(Q, Weights(Q), f) /\ QueueWeight(Q) = f[Q]
<1> DEFINE Iter(f) == f = [s \in SUBSET Q |-> IF s = {} THEN 0
                             ELSE (CHOOSE x \in s : TRUE).flowWeight
                                    + f[s \ {CHOOSE x \in s : TRUE}]]
           g == CHOOSE f : Iter(f)
<1>1. QueueWeight(Q) = g[Q]
  BY DEF QueueWeight, MapThenSumSet, MapThenFoldSet
<1>2. ASSUME NEW f PROVE Iter(f) <=> SumDef(Q, Weights(Q), f)
  <2>1. \A S \in SUBSET Q : S # {} => Weights(Q)[Pick(S)] = Pick(S).flowWeight
    <3> SUFFICES ASSUME NEW S \in SUBSET Q, S # {} PROVE Weights(Q)[Pick(S)] = Pick(S).flowWeight
      OBVIOUS
    <3>1. Pick(S) \in Q
      BY PickIn
    <3> QED
      BY <3>1 DEF Weights
  <2>2. \A S : Pick(S) = CHOOSE x \in S : TRUE
    BY DEF Pick
  <2>3. Iter(f) <=> f = [S \in SUBSET Q |-> IF S = {} THEN 0
                           ELSE Pick(S).flowWeight + f[S \ {Pick(S)}]]
    BY DEF Pick
  <2>4. [S \in SUBSET Q |-> IF S = {} THEN 0 ELSE Pick(S).flowWeight + f[S \ {Pick(S)}]]
          = [S \in SUBSET Q |-> IF S = {} THEN 0 ELSE Weights(Q)[Pick(S)] + f[S \ {Pick(S)}]]
    BY <2>1
  <2> QED
    BY <2>3, <2>4 DEF SumDef
<1>3. \A x \in Q : Weights(Q)[x] \in Int
  BY DEF Weights, Out
<1>4. PICK f : SumDef(Q, Weights(Q), f)
  BY <1>3, SumExists
<1>5. Iter(f)
  BY <1>2, <1>4
<1> HIDE DEF Iter
<1>6. Iter(g)
  BY <1>5
<1> HIDE DEF g
<1> QED
  BY <1>1, <1>2, <1>6

LEMMA QueueWeightAdd ==
  ASSUME NEW Q, IsFiniteSet(Q), Q \subseteq Out, NEW x \in Out, x \notin Q,
         NEW R, R = Q \cup {x}
  PROVE  QueueWeight(R) = x.flowWeight + QueueWeight(Q) /\ QueueWeight(Q) \in Nat
<1>1. IsFiniteSet(R) /\ R \subseteq Out
  BY FS_AddElement
<1>2. PICK f : SumDef(Q, Weights(Q), f) /\ QueueWeight(Q) = f[Q]
  BY QueueWeightSum
<1>3. PICK g : SumDef(R, Weights(R), g) /\ QueueWeight(R) = g[R]
  BY <1>1, QueueWeightSum
<1>4. (\A y \in Q : Weights(Q)[y] \in Nat) /\ (\A y \in R : Weights(R)[y] \in Nat)
  BY <1>1 DEF Weights, Out
<1>5. \A y \in Q : Weights(Q)[y] = Weights(R)[y]
  BY DEF Weights
<1>6. g[R] = Weights(R)[x] + f[Q]
  <2> DEFINE v == Weights(R)
             w == Weights(Q)
  <2>1. SumDef(Q, w, f) /\ SumDef(R, v, g) /\ (\A y \in R : v[y] \in Nat) /\ \A y \in Q : w[y] = v[y]
    BY <1>2, <1>3, <1>4, <1>5
  <2> HIDE DEF v, w
  <2>2. g[R] = v[x] + f[Q]
    BY <1>1, <2>1, SumAdd
  <2> QED
    BY <2>2 DEF v
<1>7. f[Q] \in Nat
  BY <1>2, <1>4, SumNat
<1>8. Weights(R)[x] = x.flowWeight
  BY DEF Weights
<1> QED
  BY <1>2, <1>3, <1>6, <1>7, <1>8

LEMMA QueueWeightEmpty == QueueWeight({}) = 0
<1>1. PICK f : SumDef({}, Weights({}), f) /\ QueueWeight({}) = f[{}]
  BY FS_EmptySet, QueueWeightSum
<1> QED
  BY <1>1, SumUnfold

\* Quotients toward zero of numbers up to a multiple of Scale.
LEMMA CutAtMost ==
  ASSUME NEW x \in Int, NEW t \in Nat, x <= t * Scale
  PROVE  Cut(x) <= t
<1> DEFINE s == Scale
<1>1. s \in Nat \ {0}
  BY WeightAssumption
<1> HIDE DEF s
<1>2. CASE x >= 0
  <2> DEFINE q == x \div s
  <2>1. x \in Nat
    BY <1>2
  <2>2. q \in Nat /\ q * s <= x
    BY <1>1, <2>1, QuotientFacts
  <2> HIDE DEF q
  <2>3. ASSUME q > t PROVE FALSE
    <3>1. t + 1 <= q /\ t + 1 \in Nat
      BY <2>2, <2>3
    <3>2. (t + 1) * s <= q * s
      BY <1>1, <2>2, <3>1, ProductGrows
    <3>3. (t + 1) * s = t * s + s /\ t * s \in Nat /\ q * s \in Nat
      BY <1>1, <2>2
    <3>4. x <= t * s
      BY DEF s
    <3> QED
      BY <1>1, <2>2, <3>2, <3>3, <3>4
  <2>4. Cut(x) = q
    BY <1>2 DEF Cut, q, s
  <2> QED
    BY <2>2, <2>3, <2>4
<1>3. CASE x < 0
  <2> DEFINE q == (-x) \div s
  <2>1. -x \in Nat
    BY <1>3
  <2>2. q \in Nat
    BY <1>1, <2>1, QuotientFacts
  <2>3. Cut(x) = -q
    BY <1>3 DEF Cut, s
  <2> HIDE DEF q
  <2> QED
    BY <2>2, <2>3
<1> QED
  BY <1>2, <1>3

\* The real time does not run past the packet that arrives, although the
\* virtual time of the departure is cut to a whole number.
LEMMA RealTimeBehind ==
  ASSUME NEW r \in Int, NEW t \in Nat, NEW v \in Nat, NEW u \in Nat, NEW n \in Nat,
         (v - u) * n <= (t - r) * Scale
  PROVE  Cut(r * Scale + (Cut(v) * Scale - u) * n) <= t
<1> DEFINE s == Scale
           c == Cut(v)
           d == v - c * s
           x == r * s + (c * s - u) * n
<1>1. s \in Nat \ {0}
  BY WeightAssumption
<1>2. c = v \div s
  BY DEF Cut
<1> HIDE DEF s
<1>3. c \in Nat /\ c * s <= v
  BY <1>1, <1>2, QuotientFacts
<1> HIDE DEF c
<1>4. c * s \in Nat
  BY <1>1, <1>3
<1>5. d \in Nat /\ c * s = v - d
  BY <1>3, <1>4
<1> HIDE DEF d
<1>6. x = r * s + ((v - d) - u) * n
  BY <1>5
<1>7. \A a \in Int, b \in Nat : (a - b) * n = a * n - b * n /\ b * n \in Nat /\ a * n \in Int
  OBVIOUS
<1>8. (v - d) - u = (v - u) - d /\ v - u \in Int
  BY <1>5
<1>9. ((v - d) - u) * n = (v - u) * n - d * n /\ d * n \in Nat /\ (v - u) * n \in Int
  BY <1>5, <1>7, <1>8
<1>10. (t - r) * s = t * s - r * s /\ t * s \in Int /\ r * s \in Int
  BY <1>1
<1>11. (v - u) * n <= (t - r) * s
  BY DEF s
<1>12. x \in Int /\ x <= t * s
  <2> DEFINE A == (v - u) * n
             B == d * n
             T == t * s
             R == r * s
  <2>1. A \in Int /\ B \in Nat /\ T \in Int /\ R \in Int /\ A <= T - R /\ x = R + (A - B)
    BY <1>6, <1>9, <1>10, <1>11
  <2> HIDE DEF A, B, T, R, x
  <2>2. x \in Int /\ x <= T
    BY <2>1
  <2> QED
    BY <2>2 DEF T
<1> HIDE DEF x
<1>13. Cut(x) <= t
  BY <1>12, CutAtMost DEF s
<1> QED
  BY <1>13 DEF x, c, s

-----------------------------------------------------------------------------
\* Packets in the fluid model have numbers of their own.
QueueNumbered == \A out \in outQueue : out.id <= count /\ (Tagging => out.id < count)

RateInv == IInv /\ IsFiniteSet(outQueue) /\ QueueNumbered /\ ClockRateRight

LEMMA RateStart == Init => RateInv
<1> SUFFICES ASSUME Init PROVE RateInv
  OBVIOUS
<1>1. IInv
  BY InitIInv
<1>2. IsFiniteSet(outQueue)
  BY FS_EmptySet DEF Init
<1>3. QueueNumbered
  BY DEF QueueNumbered, Init
<1>4. ClockRateRight
  BY QueueWeightEmpty DEF Init, ClockRateRight, QueueWeight, Tagging
<1> QED
  BY <1>1, <1>2, <1>3, <1>4 DEF RateInv

\* A new packet arrives no earlier than the clock shows.
LEMMA ArriveRate ==
  ASSUME RateInv, NEW f \in Flow, NEW time \in 0 .. MaxTime, NEW len \in Length, Arrive(f, time, len)
  PROVE  RateInv'
<1>1. IInv'
  BY ArriveIInv DEF RateInv
<1>2. IsFiniteSet(outQueue')
  BY DEF RateInv, Arrive
<1>3. QueueNumbered'
  <2>1. count \in Nat /\ outQueue \subseteq Out
    BY DEF RateInv, IInv, TypeOK
  <2>2. \A out \in outQueue : out.id < count + 1
    BY <2>1 DEF RateInv, QueueNumbered, Out
  <2> QED
    BY <2>1, <2>2 DEF QueueNumbered, Arrive, Out
<1>4. ClockRateRight'
  <2>1. curWeightSum' = QueueWeight(outQueue')
    BY DEF RateInv, ClockRateRight, QueueWeight, Arrive
  <2>2. realTime' <= arriving'.time
    BY DEF Arrive, RateInv, IInv, TypeOK
  <2> QED
    BY <2>1, <2>2 DEF ClockRateRight, QueueWeight, MapThenSumSet, MapThenFoldSet
<1> QED
  BY <1>1, <1>2, <1>3, <1>4 DEF RateInv

\* A departure takes its weight along and leaves the clock behind the arrival.
LEMMA DepartRate == RateInv /\ Depart => RateInv'
<1> SUFFICES ASSUME RateInv, Depart PROVE RateInv'
  OBVIOUS
<1>1. PICK out \in outQueue :
        /\ Departs(out)
        /\ realTime' = getNextRealTime(out.virDepartTime)
        /\ curWeightSum' = curWeightSum - out.flowWeight
        /\ outQueue' = outQueue \ {out}
  BY DEF Depart
<1>2. outQueue \subseteq Out /\ IsFiniteSet(outQueue) /\ Tagging /\ arriving' = arriving
  BY DEF RateInv, IInv, TypeOK, Depart
<1>3. IsFiniteSet(outQueue')
  BY <1>1, <1>2, FS_RemoveElement
<1>4. /\ QueueWeight(outQueue) = out.flowWeight + QueueWeight(outQueue')
      /\ QueueWeight(outQueue') \in Nat /\ out.flowWeight \in Nat
  <2> DEFINE Q == outQueue'
             R == outQueue
  <2>1. Q \subseteq Out /\ IsFiniteSet(Q) /\ out \in Out /\ out \notin Q /\ R = Q \cup {out}
    BY <1>1, <1>2, <1>3
  <2> HIDE DEF Q, R
  <2>2. QueueWeight(R) = out.flowWeight + QueueWeight(Q) /\ QueueWeight(Q) \in Nat
    BY <2>1, QueueWeightAdd
  <2>3. out.flowWeight \in Nat
    BY <2>1 DEF Out
  <2> QED
    BY <2>2, <2>3 DEF Q, R
<1>5. curWeightSum = QueueWeight(outQueue) /\ realTime <= arriving.time
  BY <1>2 DEF RateInv, ClockRateRight, QueueWeight
<1>6. curWeightSum \in Nat /\ curWeightSum' = QueueWeight(outQueue')
  BY <1>1, <1>4, <1>5
<1>7. realTime' <= arriving'.time
  <2> DEFINE v == out.virDepartTime
             t == arriving.time
  <2>1. v \in Nat /\ t \in Nat /\ realTime \in Int /\ virTime \in Nat
    BY <1>2 DEF Out, RateInv, IInv, TypeOK, Tagging
  <2>2. (v - virTime) * curWeightSum <= (t - realTime) * Scale
    BY <1>1 DEF Departs
  <2>3. realTime' = Cut(realTime * Scale + (Cut(v) * Scale - virTime) * curWeightSum)
    BY <1>1 DEF getNextRealTime
  <2> HIDE DEF v, t
  <2>4. Cut(realTime * Scale + (Cut(v) * Scale - virTime) * curWeightSum) <= t
    BY <1>6, <2>1, <2>2, RealTimeBehind
  <2> QED
    BY <1>2, <2>3, <2>4 DEF t
<1>8. IInv'
  BY DepartIInv DEF RateInv
<1>9. QueueNumbered'
  BY <1>1, <1>2 DEF RateInv, QueueNumbered, Depart, Tagging
<1>10. ClockRateRight'
  BY <1>6, <1>7 DEF ClockRateRight, QueueWeight, MapThenSumSet, MapThenFoldSet
<1> QED
  BY <1>3, <1>8, <1>9, <1>10 DEF RateInv

\* The packet that is tagged brings its weight.
LEMMA TagRate == RateInv /\ Tag => RateInv'
<1> SUFFICES ASSUME RateInv, Tag PROVE RateInv'
  OBVIOUS
<1> DEFINE f == arriving.flow
           finish == VirStartTime(f) + (arriving.len * Scale) \div weightTable[f]
           new == [id |-> count, virDepartTime |-> finish, flowWeight |-> weightTable[f]]
<1>1. /\ outQueue' = outQueue \cup {new} /\ curWeightSum' = curWeightSum + weightTable[f]
      /\ Tagging /\ arriving' = NoPacket /\ count' = count
  BY DEF Tag
<1>2. outQueue \subseteq Out /\ IsFiniteSet(outQueue) /\ count \in Nat
  BY DEF RateInv, IInv, TypeOK
<1>3. IInv'
  BY TagIInv DEF RateInv
<1>4. new \in Out /\ new.flowWeight = weightTable[f] /\ new.id = count
  <2>1. outQueue' \subseteq Out
    BY <1>3 DEF IInv, TypeOK
  <2> QED
    BY <1>1, <2>1
<1> HIDE DEF new
<1>5. new \notin outQueue
  BY <1>1, <1>2, <1>4 DEF RateInv, QueueNumbered
<1>6. IsFiniteSet(outQueue')
  BY <1>1, <1>2, FS_AddElement
<1>7. /\ QueueWeight(outQueue') = weightTable[f] + QueueWeight(outQueue)
      /\ QueueWeight(outQueue) \in Nat /\ weightTable[f] \in Nat
  <2> DEFINE R == outQueue'
             n == weightTable[f]
  <2>1. R = outQueue \cup {new} /\ new.flowWeight = n
    BY <1>1, <1>4
  <2> HIDE DEF R, n
  <2>2. QueueWeight(R) = new.flowWeight + QueueWeight(outQueue) /\ QueueWeight(outQueue) \in Nat
    BY <1>2, <1>4, <1>5, <2>1, QueueWeightAdd
  <2>3. new.flowWeight \in Nat
    BY <1>4 DEF Out
  <2> QED
    BY <2>1, <2>2, <2>3 DEF R, n
<1>8. curWeightSum = QueueWeight(outQueue)
  BY DEF RateInv, ClockRateRight, QueueWeight
<1>9. curWeightSum' = QueueWeight(outQueue')
  BY <1>1, <1>7, <1>8
<1>10. ClockRateRight'
  BY <1>1, <1>9 DEF ClockRateRight, QueueWeight, Tagging, MapThenSumSet, MapThenFoldSet
<1>11. QueueNumbered'
  BY <1>1, <1>2, <1>4 DEF RateInv, QueueNumbered, Tagging
<1> QED
  BY <1>3, <1>6, <1>10, <1>11 DEF RateInv

LEMMA RateHolds == Spec => []RateInv
<1>1. RateInv /\ UNCHANGED vars => RateInv'
  <2> SUFFICES ASSUME RateInv, UNCHANGED vars PROVE RateInv'
    OBVIOUS
  <2>1. IInv'
    BY DEF RateInv, IInv, TypeOK, Ahead, Numbered, Served, DebtIsQueued, RanksSpaced, Tagging, vars
  <2>2. IsFiniteSet(outQueue') /\ QueueNumbered'
    BY DEF RateInv, QueueNumbered, Tagging, vars
  <2>3. curWeightSum' = QueueWeight(outQueue')
    BY DEF RateInv, ClockRateRight, QueueWeight, vars
  <2>4. ClockRateRight'
    BY <2>3 DEF RateInv, ClockRateRight, QueueWeight, Tagging, vars, MapThenSumSet, MapThenFoldSet
  <2> QED
    BY <2>1, <2>2, <2>4 DEF RateInv
<1>2. RateInv /\ [Next]_vars => RateInv'
  BY <1>1, ArriveRate, DepartRate, TagRate DEF Next
<1> QED
  BY <1>2, RateStart, PTL DEF Spec

\* WFQ.cpp, updateVirTimeTo: for every capture and all natural weights, the
\* weight by which the clock is divided is that of the packets in the fluid
\* model, and the real time, cut to whole cycles at every departure, does not
\* run past the arrival.
THEOREM TraceClockRight == TagSpec => []ClockRateRight
<1>1. RateInv => ClockRateRight
  BY DEF RateInv
<1> QED
  BY <1>1, RateHolds, PassesRunClock, PTL
=============================================================================
