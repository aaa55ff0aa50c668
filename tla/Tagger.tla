------------------------------- MODULE Tagger -------------------------------
(***************************************************************************)
(* The two passes of the SDL compiler over a packet capture                *)
(* (SchedStrategy.cpp): tagPriority writes the trace for the engine, and   *)
(* printPFMap the map from the packets of the trace to their flows.  Each  *)
(* pass numbers the packets itself, and decides itself where to stop.      *)
(*                                                                         *)
(* A tree has two levels.  The root is scheduled by weighted fair queueing *)
(* (module WFQ, whose flows are here the trees of the root's children);    *)
(* whatever strategy the leaves have, the rank it gives to a packet comes  *)
(* with the packet.                                                        *)
(***************************************************************************)
EXTENDS WFQ, Sequences, FiniteSetsExt

CONSTANTS
  flowNodeMap,               \* of each flow of the tree: the leaf it belongs to
  Captures,                  \* sequences of packets, in order of their cycles
  IDLE_LIMIT,                \* a pass stops after more idle times than this, 4
  MAX_INTERVAL_IDLECYCLE,    \* 107
  FIRST_IDLECYCLE,           \* 10
  MAX_IDLECYCLE              \* 2^8 - 1

ASSUME CaptureAssumption ==
  /\ \A f \in DOMAIN flowNodeMap : flowNodeMap[f] \in Flow
  /\ \A c \in Captures : c \in Seq([flow : Nat, cycle : Nat, len : Nat, rank : Nat])
  /\ \A c \in Captures : Len(c) <= MaxPackets /\ \A i \in DOMAIN c :
       /\ c[i].len \in Length /\ c[i].cycle \in 0 .. MaxTime
       /\ i > 1 => c[i].cycle >= c[i - 1].cycle

VARIABLES
  pcap, pass,                \* "tag", "map", and those of the simulator
  next,                      \* the next packet of the capture
  curCycle, pktId, idle_cycle_cnt,
  trace, PFMap               \* the files

tagVars == <<pcap, pass, next, curCycle, pktId, idle_cycle_cnt, trace, PFMap>>

Start == next' = 1 /\ curCycle' = 0 /\ pktId' = 0 /\ idle_cycle_cnt' = 0

TagInit ==
  /\ Init
  /\ pcap \in Captures /\ pass = "tag" /\ next = 1
  /\ curCycle = 0 /\ pktId = 0 /\ idle_cycle_cnt = 0
  /\ trace = << >> /\ PFMap = << >>

-----------------------------------------------------------------------------
Packet == pcap[next]

\* A packet is passed over when the pass has stopped or the flow is not mapped.
Skipped == idle_cycle_cnt > IDLE_LIMIT \/ Packet.flow \notin DOMAIN flowNodeMap

\* The time since the last packet; cycle 0 stands for no packet.
Gap == Packet.cycle - curCycle > 1
idle_line ==
  LET wait == Packet.cycle - curCycle - 1 IN
  IF ~Gap THEN << >>
  ELSE <<[type |-> 0, idle_cycle |-> IF curCycle = 0 THEN FIRST_IDLECYCLE
                                     ELSE IF wait < MAX_INTERVAL_IDLECYCLE THEN wait
                                     ELSE MAX_INTERVAL_IDLECYCLE]>>

NextIdleCnt == IF Gap /\ curCycle # 0 THEN idle_cycle_cnt + 1 ELSE idle_cycle_cnt

Skip ==
  /\ pass \in {"tag", "map"} /\ ~Tagging /\ next <= Len(pcap) /\ Skipped
  /\ next' = next + 1
  /\ UNCHANGED <<vars, pcap, pass, curCycle, pktId, idle_cycle_cnt, trace, PFMap>>

\* Handle a packet as both passes do.
Count == next' = next + 1 /\ pktId' = pktId + 1 /\ curCycle' = Packet.cycle

\* tagPriorityHandler: ranks up to the root, in whose clock packets may depart
\* first, and then the lines of the packet.
tagPriorityTillRoot ==
  /\ pass = "tag" /\ next <= Len(pcap) /\ ~Skipped
  /\ Arrive(flowNodeMap[Packet.flow], Packet.cycle, Packet.len)
  /\ UNCHANGED tagVars

updateVirTimeTo == Depart /\ UNCHANGED tagVars

tagPriorityHandler ==
  /\ Tag
  /\ trace' = trace \o idle_line \o
       <<[type |-> 1, treeid |-> arriving.flow, meta |-> pktId, p0 |-> Packet.rank, p1 |-> Cut(VirStartTime(arriving.flow))],
         [type |-> 2]>>
  /\ Count /\ idle_cycle_cnt' = NextIdleCnt
  /\ UNCHANGED <<pcap, pass, PFMap>>

\* Mutant: the map counts the idle time before the first packet too.
printPFMapHandler_first ==
  /\ pass = "map" /\ next <= Len(pcap) /\ ~Skipped
  /\ PFMap' = Append(PFMap, [meta |-> pktId, flow |-> Packet.flow])
  /\ Count /\ idle_cycle_cnt' = IF Gap THEN idle_cycle_cnt + 1 ELSE idle_cycle_cnt
  /\ UNCHANGED <<vars, pcap, pass, trace>>

printPFMapHandler ==
  /\ pass = "map" /\ next <= Len(pcap) /\ ~Skipped
  /\ PFMap' = Append(PFMap, [meta |-> pktId, flow |-> Packet.flow])
  /\ Count /\ idle_cycle_cnt' = NextIdleCnt
  /\ UNCHANGED <<vars, pcap, pass, trace>>

\* The end of tagPriority, and the start of printPFMap.
tagPriority ==
  /\ pass = "tag" /\ ~Tagging /\ next > Len(pcap) /\ pass' = "map"
  /\ trace' = Append(trace, [type |-> 0, idle_cycle |-> MAX_IDLECYCLE])
  /\ Start /\ UNCHANGED <<vars, pcap, PFMap>>

printPFMap ==
  /\ pass = "map" /\ next > Len(pcap) /\ pass' = "read"
  /\ UNCHANGED <<vars, pcap, next, curCycle, pktId, idle_cycle_cnt, trace, PFMap>>

TagNext ==
  \/ Skip \/ tagPriorityTillRoot \/ updateVirTimeTo \/ tagPriorityHandler \/ tagPriority
  \/ printPFMapHandler \/ printPFMap

TagSpec == TagInit /\ [][TagNext]_<<vars, tagVars>>

-----------------------------------------------------------------------------
(* Properties *)
\* The rate of the virtual clock is right: the weight by which it is divided is
\* that of the packets in the fluid model, and the departures taken from the
\* model lie before the arrival they are taken for, although the real time is
\* cut to whole cycles.
ClockRateRight ==
  /\ curWeightSum = MapThenSumSet(LAMBDA out : out.flowWeight, outQueue)
  /\ Tagging => realTime <= arriving.time

\* The map that the second pass writes is that of the packets in the trace of
\* the first: both number their packets in the same way, and the simulator,
\* which looks up every packet of the trace in the map
\* ("assert(PFMap.find(meta) != PFMap.end())"), finds each once, with a flow of
\* its own tree.
MapMatchesTrace ==
  pass = "read" =>
    LET packets == {i \in DOMAIN trace : trace[i].type = 1}
    IN  /\ \A i, j \in packets : i < j => trace[i].meta < trace[j].meta
        /\ \A k, l \in DOMAIN PFMap : k < l => PFMap[k].meta < PFMap[l].meta
        /\ {trace[i].meta : i \in packets} = {PFMap[k].meta : k \in DOMAIN PFMap}
        /\ \A i \in packets, k \in DOMAIN PFMap :
             trace[i].meta = PFMap[k].meta => flowNodeMap[PFMap[k].flow] = trace[i].treeid
=============================================================================
