----------------------------- MODULE EngineSim -----------------------------
(***************************************************************************)
(* The simulator of the compiler (vPIFO_trace.cpp), which turns the files  *)
(* of module Tagger into the reference order of departures.  It reads them *)
(* whole and then runs cycle after cycle: operations go from task lists to *)
(* RPUs and from one RPU to the next.                                      *)
(*                                                                         *)
(* The anti-starvation mechanism is left out: its threshold S of more than *)
(* 10^9 cycles is not reached.                                             *)
(***************************************************************************)
EXTENDS Tagger, BMWTree

CONSTANTS
  N,                \* RPUs, and task lists
  L,                \* RPUs that an operation passes through
  FLOW_NUM,
  START,            \* cycles before the first pop, 50
  EMPTY_CYCLES      \* idle cycles after which the run may end, 100

Flows == 0 .. FLOW_NUM - 1
Unit  == 0 .. N - 1

\* The root is tree 0, and every tree has its list and first RPU for itself.
ASSUME SimAssumption ==
  /\ N \in Nat \ {0, 1} /\ L \in Nat \ {0, 1} /\ Flow \subseteq 1 .. N - 1
  /\ DOMAIN flowNodeMap = Flows

VARIABLES
  perFlowPushQueue, \* of each flow: the packets yet to be pushed
  perFlowPopQueue,  \* of each flow: the pops asked for
  tree,             \* of each tree: its nodes
  task_list, RPU,
  cycle,            \* up to START + 1
  task_list_empty_cnt,
  ref               \* the output: a line for every packet pushed and popped

simVars == <<perFlowPushQueue, perFlowPopQueue, tree, task_list, RPU, cycle,
             task_list_empty_cnt, ref>>
compilerVars == <<vars, tagVars, simVars>>

Idle == [type |-> "Empty", root |-> 0, TTL |-> 0]

SimInit ==
  /\ TagInit
  /\ perFlowPushQueue = [f \in Flows |-> << >>] /\ perFlowPopQueue = [f \in Flows |-> 0]
  /\ tree = [t \in Flow \cup {0} |-> NewTree]
  /\ task_list = [i \in Unit |-> << >>] /\ RPU = [i \in Unit |-> Idle]
  /\ cycle = 1 /\ task_list_empty_cnt = EMPTY_CYCLES
  /\ ref = << >>

IsPush(line) == line.type = 1

\* readPFMap: the flow of a packet; of two lines for one packet the last holds.
flow_of(meta) ==
  PFMap[Max({k \in DOMAIN PFMap : PFMap[k].meta = meta})].flow

\* The packet read last before line i.
LastMeta(i) == trace[Max({m \in 1 .. i : IsPush(trace[m])})].meta

\* read_line: a pop is put to the account of the packet read last.
read_line ==
  /\ pass = "read" /\ pass' = "run"
  /\ perFlowPushQueue' = [f \in Flows |->
       SelectSeq(trace, LAMBDA l : IsPush(l) /\ flow_of(l.meta) = f)]
  /\ perFlowPopQueue' = [f \in Flows |->
       Cardinality({i \in DOMAIN trace : trace[i].type = 2 /\ flow_of(LastMeta(i)) = f})]
  /\ UNCHANGED <<vars, pcap, next, curCycle, pktId, idle_cycle_cnt, trace, PFMap,
                 tree, task_list, RPU, cycle, task_list_empty_cnt, ref>>

-----------------------------------------------------------------------------
Task(type, root, pair) == [type |-> type, root |-> root, pair |-> pair]

\* try_push_push_task: of every flow that has one, the next packet.
NextPackets ==
  LET flows == SelectSeq([k \in 1 .. FLOW_NUM |-> k - 1], LAMBDA f : perFlowPushQueue[f] # << >>)
  IN  [k \in DOMAIN flows |-> Head(perFlowPushQueue[flows[k]])]

\* Each is pushed to its tree, and the tree to the root.
PushTasks(t) ==
  IF t = 0 THEN [k \in DOMAIN NextPackets |->
                   Task("Push", 0, <<NextPackets[k].p1, NextPackets[k].treeid>>)]
  ELSE LET mine == SelectSeq(NextPackets, LAMBDA a_push : a_push.treeid = t)
       IN  [k \in DOMAIN mine |-> Task("Push", t, <<mine[k].p0, mine[k].meta>>)]

HasPair(t) == top(tree[t])[1] # inf

\* try_push_pop_task: a pop of the root, put to the account of the flow whose
\* packet is in sight.  Pops on their way may take that packet first.
InSight == cycle > START /\ HasPair(0) /\ HasPair(top(tree[0])[2])
cur_flow == flow_of(top(tree[top(tree[0])[2]])[2])

AsksPop == InSight /\ perFlowPopQueue[cur_flow] > 0

\* Mutant: any pop that comes by counts as the beginning of one.
Begins_any(t) == RPU[t].type = "Pop" /\ HasPair(t)

\* The RPU of tree t begins a pop of it.  (Invariant PopsFindPackets: the tree
\* is not empty.)
Begins(t) == RPU[t].type = "Pop" /\ RPU[t].TTL = L /\ HasPair(t)

\* The operations added to the list of tree t: pushes, the pop asked for, and
\* in the list of the tree that a pop of the root names the pop of that tree.
NewTasks(t) ==
  PushTasks(t) \o
  (IF (t = 0 /\ AsksPop) \/ (t # 0 /\ Begins(0) /\ top(tree[0])[2] = t)
   THEN <<Task("Pop", t, << >>)>> ELSE << >>)

\* The packets that leave, in the order of the loop over the RPUs.
Departures ==
  LET units == SelectSeq([i \in 1 .. N - 1 |-> i], LAMBDA t : t \in Flow /\ Begins(t))
  IN  [k \in DOMAIN units |-> top(tree[units[k]])[2]]

\* write_push_line, write_pop_line: the lines of either kind are numbered.
write_lines(metas, kind) ==
  LET before == Len(SelectSeq(ref, LAMBDA l : l.cyc_type = kind))
  IN  [k \in DOMAIN metas |-> [meta |-> metas[k], cyc_type |-> kind, cyc_value |-> before + k - 1]]

\* An RPU hands its operation to the next one; after a pop it writes back.
pass_down(i) ==
  LET above == RPU[(i - 1) % N]
  IN  IF RPU[i].type = "Pop" THEN [RPU[i] EXCEPT !.type = "WriteBack"]
      ELSE IF above.TTL > 1 THEN [above EXCEPT !.TTL = @ - 1]
      ELSE Idle

\* Mutant: a pop starts without a look at the RPU before.
Starts_any(lists) == [i \in Unit |-> lists[i] # << >> /\ pass_down(i).type = "Empty"]

\* Send new task: list i starts its first operation if its RPU is empty, a pop
\* only if nothing will come down; the RPU before a pop is locked.  The loop
\* goes up from 0, so list 0 meets RPU N - 1 before that one has started.
Starts(lists) ==
  LET start[i \in Unit] ==
        /\ lists[i] # << >> /\ pass_down(i).type = "Empty"
        /\ Head(lists[i]).type = "Pop" =>
             pass_down((i - 1) % N).TTL <= 1 /\ (i > 0 => ~start[i - 1])
        /\ i = N - 1 => ~(start[0] /\ Head(lists[0]).type = "Pop")
  IN  start

Lock(rpu) == [rpu EXCEPT !.type = IF @ = "Empty" THEN "Locked" ELSE @, !.TTL = 1]

-----------------------------------------------------------------------------
noPush == \A f \in Flows : perFlowPushQueue[f] = << >>
noPop  == \A f \in Flows : perFlowPopQueue[f] = 0

\* Mutant: the lists are not waited for.
Ends_at_once == noPush /\ noPop

Ends == noPush /\ noPop /\ task_list_empty_cnt <= 0

End ==
  /\ pass = "run" /\ Ends /\ pass' = "done"
  /\ UNCHANGED <<vars, pcap, next, curCycle, pktId, idle_cycle_cnt, trace, PFMap, simVars>>

Cycle ==
  /\ pass = "run" /\ ~Ends
  /\ task_list_empty_cnt' = IF task_list_empty_cnt > 0 /\ \A i \in Unit : task_list[i] = << >>
                            THEN task_list_empty_cnt - 1 ELSE task_list_empty_cnt
  /\ perFlowPushQueue' = [f \in Flows |-> IF perFlowPushQueue[f] # << >> THEN Tail(perFlowPushQueue[f]) ELSE << >>]
  /\ perFlowPopQueue' = IF AsksPop THEN [perFlowPopQueue EXCEPT ![cur_flow] = @ - 1] ELSE perFlowPopQueue
  /\ ref' = ref \o write_lines([k \in DOMAIN NextPackets |-> NextPackets[k].meta], "push_cyc")
                \o write_lines(Departures, "pop_cyc")
  /\ \E lists \in {[i \in Unit |-> task_list[i] \o (IF i \in DOMAIN tree THEN NewTasks(i) ELSE << >>)]} :
     \E start \in {Starts(lists)} :
       /\ task_list' = [i \in Unit |-> IF start[i] THEN Tail(lists[i]) ELSE lists[i]]
       /\ RPU' = [i \in Unit |->
            IF start[i] THEN [type |-> Head(lists[i]).type, root |-> i, TTL |-> L]
            ELSE IF start[(i + 1) % N] /\ Head(lists[(i + 1) % N]).type = "Pop" THEN Lock(pass_down(i))
            ELSE pass_down(i)]
       /\ tree' = [t \in DOMAIN tree |->
            LET rest == IF Begins(t) THEN pop(tree[t], << >>) ELSE tree[t]
            IN  IF start[t] /\ Head(lists[t]).type = "Push" THEN push(rest, << >>, Head(lists[t]).pair) ELSE rest]
  /\ cycle' = IF cycle <= START THEN cycle + 1 ELSE cycle
  /\ UNCHANGED <<vars, tagVars>>

CompilerNext ==
  \/ TagNext /\ UNCHANGED simVars
  \/ read_line
  \/ Cycle
  \/ End

\* The passes and the simulator are sequential programs, run in turn.
CompilerSpec == SimInit /\ [][CompilerNext]_compilerVars /\ WF_compilerVars(CompilerNext)

-----------------------------------------------------------------------------
(* Properties *)
\* An operation is never cut short: what an RPU works on above the last level
\* goes on in the next RPU, which neither writes back at that time nor starts
\* or is locked for an operation of its own.
OperationsGoOn ==
  [][\A i \in Unit : pass' = "run" /\ RPU[i].type \in {"Push", "Pop"} /\ RPU[i].TTL > 1 =>
       RPU'[(i + 1) % N] = [RPU[i] EXCEPT !.TTL = @ - 1]]_compilerVars

\* A pop never begins in an empty tree, although it was asked for on the sight
\* of a packet that an earlier pop may take.
PopsFindPackets == \A i \in Unit : RPU[i].type = "Pop" /\ RPU[i].TTL = L => HasPair(i)

\* The trees behave as queues in the order of ranks and values, although their
\* counts drift and a drained son keeps old values: a cycle takes the smallest
\* pair, or inserts one, or both, and the top is the smallest pair.
TreesAreQueues ==
  [][\A t \in DOMAIN tree :
       LET q == Queue(tree[t])
           r == IF pass' = "run" /\ Begins(t) THEN Tail(q) ELSE q
           s == Queue(tree'[t])
       IN  /\ s = r \/ \E k \in DOMAIN s : s = Insert(r, s[k])
           /\ s # << >> => Head(s) = top(tree'[t])]_compilerVars

Packets == SelectSeq(trace, IsPush)

\* From the capture to the output no packet is overtaken by a later one of its
\* tree that has no smaller rank, whatever trees and RPUs it meets on its way.
NoOvertaking ==
  \A i, j \in DOMAIN ref : \A a, b \in DOMAIN Packets :
    /\ i < j /\ ref[i].cyc_type = "pop_cyc" /\ ref[j].cyc_type = "pop_cyc"
    /\ ref[i].meta = Packets[b].meta /\ ref[j].meta = Packets[a].meta
    /\ a < b /\ Packets[a].treeid = Packets[b].treeid
    => Packets[b].p0 < Packets[a].p0

Fig == INSTANCE DrawFig

\* draw.py plots the departure of a packet over its own arrival: the two lists
\* of a flow, which it pairs by position, belong to the same packets.
FigureShowsDepartures ==
  pass = "done" =>
    LET pfmap == [m \in {PFMap[k].meta : k \in DOMAIN PFMap} |-> flow_of(m)] IN
    \A f \in Flows :
      LET xs == Fig!flow_push_cyc_list(ref, pfmap, f)
          ys == Fig!flow_diff_cyc_list(ref, pfmap, f)
      IN  /\ Len(xs) = Len(ys)
          /\ {<<xs[k], ys[k]>> : k \in DOMAIN xs} =
               {<<Fig!Lookup(Fig!Pushes(ref), m), Fig!Lookup(Fig!Pops(ref), m)>> :
                  m \in {k \in DOMAIN pfmap : pfmap[k] = f}}

\* "input the trace with priority and output the priority sequence": for every
\* capture the simulator comes to an end, and then every packet of the trace
\* has left once, although a pop is charged to the flow in sight and the end is
\* judged by a counter of idle cycles.
Departed == {ref[k].meta : k \in {j \in DOMAIN ref : ref[j].cyc_type = "pop_cyc"}}
Finishes ==
  <>(pass = "done" /\ Departed = {Packets[k].meta : k \in DOMAIN Packets} /\ Len(ref) = 2 * Len(Packets))
=============================================================================
