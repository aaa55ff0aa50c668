# vPIFO: models, model checks and proofs

This directory holds a TLA+ development of vPIFO. It models

- the hardware scheduler (`hardware/BMW_PIFO_SRAM_vPIFO`, called the *engine* here) at the level of clock
  edges, the two-level scheduler that drives it, and the reader that replays traces into it;
- the tools around it (`software/SDL_compiler`): the compiler that ranks the packets of a capture, the
  converter and the layout script that write memory images, the simulator that computes the reference
  order of departures, and the lists its figures are drawn from;
- the software scheduler of the comparison (`software/experiment/DPDK_scheduler`): its cores, rings, policies
  and counters.

TLC checks the modules on small instances. For every value of the parameters TLAPS proves the results about
FIFOs, dispatcher and task path, the engine's types and its prediction of the RPUs, that the engine is a set of
priority queues, that the two-level scheduler on top of it accounts for its packets, the layout and its memory
image, the trace reader and its encodings, both passes of the compiler with the WFQ clock, and all safety
properties of the DPDK scheduler.

## 1. The system and its parts

vPIFO runs many priority queues ("trees", PIFO instances) on one pipeline. A tree has `LEVEL` levels of
binary nodes. Level `k` of tree `t` is stored in the SRAM of ranking processing unit (RPU)
`(t + k) mod LEVEL`, so operations on trees that begin on different RPUs are under way together, each one
RPU and one level further with every cycle.

| Part | State | Operations | Talks to |
|---|---|---|---|
| `TaskFIFO.sv` | circular memory, two pointers, counter, output register | write, read, both, in one cycle | written by the engine's ports, read by the dispatcher |
| `TaskDistribute.sv` | predicted state and level of each RPU, head task of each list, issued commands | every cycle: predict, choose tasks to start, read FIFOs | FIFOs behind, RPUs ahead; **no feedback** |
| `PIFO_SRAM.sv` (RPU) | state machine, latched word, address, level, tree | push, pop (two cycles: POP, WB), hand on to the next RPU | SRAM, RPU before, RPU after |
| `INFER_SDPRAM.v` | memory, read register | read and write in one cycle | its RPU |
| `PIFO_SRAM_TOP.sv` | the parts above in a ring, `level_wb` | one clock edge of everything | the ports, one list of tasks per RPU |
| `TaskGenerator.sv` | none of its own | turns packet in/out requests into tasks for the root tree and the packets' trees | the engine; the root's answer becomes a pop of another tree |
| `gen_SRAM_layout.py` | first free address per SRAM, table of levels | place the levels of every tree | its table must agree with the address formula in `PIFO_SRAM.sv` |
| `TraceReader.sv`, `TraceRom.sv` | ROM address, idle counter, output registers | fetch a record or wait, once a cycle | replays a trace into `TaskGenerator.sv`; reads the image of `trace2mem.py` |
| `SchedStrategy.cpp` (`Tagger`) | current cycle, packet number, idle times | two passes over a capture: trace, then packet-to-flow map | the trace goes to `trace2mem.py` and the simulator, the map to the simulator and `draw.py` |
| `WFQ.cpp` | virtual and real time, weight sum, last finish times, fluid queue | rank a packet | called by the first pass for each WFQ node |
| `PIFOTree.cpp` | tree of schedulers with bandwidths | check that the least bandwidths fit | called once the tree is made; not modelled |
| `vPIFO_trace.cpp` (simulator) | trees, task lists, RPUs, accounts of pops per flow | one cycle; ends by itself | writes the reference order for the test benches and figures |
| `trace2mem.py`, `draw.py` | none | convert lines to words; pair arrivals with departures | files |
| `DPDK_scheduler` | rings, buffers, queue-length counters, token buckets, `force_quit` | receive, classify, merge flows, merge nodes, transmit: one core each | rings between the cores, counters shared without locks |
| `algorithm_simulation`, ns-3 queue discs | trees, lists, RPU pipeline | one simulated cycle | not modelled |

What is hard about it:

- **Interleaving.** Operations of up to `LEVEL` trees are in the pipeline. An RPU that gets a push and a
  pop in one cycle drops both; one in POP ignores every command. Nothing in the RPUs prevents this: the
  dispatcher has to start tasks so that it never happens, by predicting the RPUs' states without
  feedback.
- **Answers before the work is done.** A pop is answered in the cycle after it starts, while the words
  that refill the emptied slots are still moving up behind it. The next operation reads nodes that are
  being written in the same cycle.
- **Ordering.** A packet's push and the pop that fetches it reach the packet's tree by different ways.
- **Limits.** Full FIFOs drop words; only one FIFO's full flag is reported; one output port serves all RPUs.
- **Waiting in a ring.** An RPU's start waits on its predecessor; the last one yields to the first.
- **Cores without locks.** The DPDK scheduler's cores share rings made for one producer, buffers that are
  reused as soon as they are sent, and unsigned counters that two cores update at different times.
- **Widths.** Traces and tables are written by Python and C++ and cut up by Verilog; nobody checks that a
  value fits its field.
- **Two programs that must agree.** The compiler's two passes, the simulator's accounts of pops and the
  trace, the figure's two lists: each is right only if another was computed in the same order.

`PROJECT.json` lists each of these, and smaller ones, under `hazards`, at the line where it bites, with
the properties that would catch it.

## 2. Modules

```
BoundedQueue <--refines-- TaskFIFO
                              | stands for
TaskLists  <--refines-- TaskPath  = FIFOs + TaskDistribute
                              |
PIFO       <--refines-- PIFO_SRAM_TOP = TaskPath + ring of PIFO_SRAM + SRAMs
                              |
                        TaskGenerator = PIFO_SRAM_TOP + root/packet port logic

SRAMLayout  (gen_SRAM_layout.py; compares its table with PIFO_SRAM!offset)
    |
SRAMTable   (its memory image, with BitStrings)

TraceMem (the compiler's lines, trace2mem.py, the reader's wires; with BitStrings)
    |
TraceReader

WFQ  -->  Tagger  -->  EngineSim = Tagger + BMWTree + the simulator's loop
(clock)   (two passes)     |
                        DrawFig (lists of the figure)

DPDKScheduler = cores + rings + counters
```

In the hardware modules **one step is one rising clock edge.** Wires are operators over the registers;
registers are variables; the input ports are the parameters of the action. Reset is `Init`. Names follow the source.

- `TaskFIFO`: every register of `TaskFIFO.sv`. `Cycle(wr_en, rd_en, buf_in)` is the clock edge. The memory
  has no reset and starts with any contents. The reader keeps the one promise the dispatcher makes
  (`o_pop_TaskFIFO`): it does not read an empty FIFO. `BoundedQueue` says what is promised.
- `TaskDistribute`: the registers that something reads. The start wires depend on each other along the
  ring (`rpu_pop_new_nxt[0]` outranks the last RPU, all others look at the RPU before): the model chooses
  a valuation of the pop wires that satisfies every assignment (`Settled`). There is exactly one.
  `FsmNext` is the state machine shared by `rpu_state`, `rpu_state_mid` and the RPUs themselves. `Next`
  lets the FIFOs behind deliver any task at any time, so whatever holds here holds behind any FIFO.
  `rpu_push_inherit` (read by nothing) and `i_TaskFIFO_empty_last` (its bit is shifted out of the assigned
  width) are left out.
- `TaskPath`: one queue per RPU wired to the dispatcher as in `PIFO_SRAM_TOP.sv`. The queue is the one that
  `TaskFIFO` is proved to implement. `TaskLists` is its abstract specification: operations of a list are
  started one at a time, in order, each once, a task's push before its pop.
- `PIFO_SRAM`: the RPU as functions of its registers, the node shown by its SRAM and its input ports:
  `RPU_nxt`, `wdata`, `down`, `read`, `write`, and the address formula `offset`. Words are numbers whose low
  `PTW` bits are the rank; level, address and size arithmetic keep the widths of the source. An equivalent
  pair of cases of the source (slot 0, slot 1) is one case over the slot.
- `PIFO_SRAM_TOP`: `TopClock(in)` is one edge of FIFOs, dispatcher, RPUs, SRAMs (a read of the word being
  written shows the new word, `RDW_MODE = 1`) and `level_wb`. The history variable `bag` holds what each
  tree should contain. `PIFO` is the abstract specification: each tree is a priority queue, a pop is
  answered one cycle after its start with a word of smallest rank. Among words of equal rank any may come.
- `TaskGenerator`: the combinational port logic and the output selection around `TopClock`. `backlog` counts the
  packets asked in and not out; a pop is asked for only if there is a packet for it. `PacketAssumption` says that
  packets are for trees outside the root's RPU, as the comment at `TaskGenerator.sv:92` demands, and that their
  fields fit their widths.
- `SRAMLayout`: one action per turn of the script's inner loop (`PlaceLevel`) and outer loop (`NextTree`),
  for any forest. The size of a level is kept in its table entry to state disjointness; trees the input
  does not name have depth 0, which is what an absent tree amounts to in the loops. The script asks for an
  `SRAM_NUM` of at least the largest depth and does not check the answer; the model assumes it.

- `BitStrings`, `TraceMem`, `TraceReader`: a text of binary digits is its length and value. `TraceMem` has the
  lines the compiler prints, the conversion item by item, and the part selects of the reader; `TraceReader`
  is one clock edge (`Tick`) of reader and ROM. Widths are constants, shared by all three as in the sources.
- `SRAMTable`: the last part of `gen_SRAM_layout.py`, on top of `SRAMLayout`: widths by `log2`, one line per tree
  and level number.
- `WFQ`: one action per turn of the loop of `updateVirTimeTo` (`Depart`) and one for the rest of a call
  (`Tag`). `calWFQLeafPriority` and `calWFQNonLeafPriority` are the same code with a flow or a child node as the
  key. Virtual times are whole multiples of `1 / Scale`.
- `Tagger`: both passes, packet by packet, on top of `WFQ`. The capture is any sequence of packets in order of
  time. The tree has two levels with WFQ at the root; the rank a leaf gives comes with the packet.
- `BMWTree`: the simulator's tree, `push` and `pop` with their recursion, on nodes named by their path; `Queue` is
  what a tree stands for.
- `EngineSim`: the whole way of a capture: both passes, then the simulator. `read_line` reads the two files.
  `Cycle` is one turn of the simulator's main loop, all of it: new pushes, the pop that is asked for, pops that
  begin, passing down, starts and locks. The loop over the task lists goes up from 0 and changes RPUs as it
  goes; `Starts` is its closed form. `DrawFig` computes the two lists of `draw.py` from the simulator's output.
- `DPDKScheduler`: every core is a loop of atomic steps at the granularity of ring operations and counter
  updates. A policy is the list of rings that a call tries (`plan`). Packets have lengths, and counters count
  bytes. `packet_enqueue` is two steps, as it is for the other cores: the buffer goes into the ring (`Handed`), and
  its length is read and counted (`CountIn`) when the transmitting core may already have sent the packet and the
  buffer may hold another. A core leaves its program when it is at the head of its loop (`AtLoopHead`) and
  `force_quit` is set.

Definitions named like a mapped one with a suffix (`write_accepted_unchecked`, `down_lazy`, ...) and commented
"Mutant" are plausible bugs. They are used by no specification; replacing the original by the mutant makes
the property named in `PROJECT.json` fail.

## 3. What TLC checks

| Run | Instance | Shows |
|---|---|---|
| `task_fifo` | 4 words, two values | counter and pointers never drift; every combination of strobes is a step of the bounded queue |
| `dispatcher` | 3 RPUs, any FIFOs | no command meets another or a deaf RPU; operations advance every cycle and are never overrun |
| `task_path` | 3 lists, FIFOs of 2, 3 tasks of every kind | lists are served in order and, once the writers stop, completely |
| `pipeline` | 3 RPUs, trees 0, 1, 3, ranks 0..2, 4 free tasks, from reset and from a tree of 7 words | pops are right and in time; trees at rest are heaps with correct sizes; the prediction holds |
| `generator` | 3 RPUs, 4 requests, 2 packet trees, FIFOs of 8 | no pop overtakes its packet, nothing is lost or hidden |
| `sram_layout` | 4 SRAMs, all forests of 5 trees of depth 0..4 | levels are disjoint; table and formula agree on full forests; the image gives every level back, and says which level can look absent |
| `trace_reader` | ROM of 4 words, ranks of 3 bits, all traces | the scheduler sees what the compiler wrote, in time, again and again; which records announce the end |
| `dpdk` | 1 node of 2 flows under WFQ, 2 buffers, 3 packets of two lengths, bursts of 2, a signal at any time | buffers in one place, counters right but for misread lengths, order and shares kept, every packet sent unless those shut the forwarder, every core stops |
| `compiler` | 2 flows with a tree each and one unmapped, all captures of 4 packets; 4 RPUs, 3 levels | ranks are spaced, the passes agree, operations go on, pops find packets, trees are queues, the run ends with all packets sent in order, the figure is right |
| `root_full_first` | FIFOs of 2 | violation: see findings |
| `only_one_pop` | 4 RPUs | violation: see findings |
| `two_levels` | 2 RPUs, the stimulus of `TC_SRAM_NEW5.sv` | violation: see findings |

The properties, by hazard:

- `PointersAgree`, `ImplementsQueue`: simultaneous read and write on a full FIFO,
  lost writes, wrap-around.
- `EveryCommandTaken`, `PopUndisturbed`, `OperationsAdvance`: collisions on the ring.
- `ImplementsLists`, `EveryTaskServed`: tasks of two operations started bit by bit while the FIFO is read;
  everyone waiting on everyone.
- `PredictionHolds`: the dispatcher's picture of the RPUs is right without feedback. A real push may end
  at the first free slot, while the predicted one goes on to the last level: the prediction is exact for
  pops and an upper bound for pushes, and that suffices.
- `ImplementsPIFO`, `TreesInOrder`, `TopTypeOK`: answers before the work is done, same-address read and
  write, several trees in one SRAM.
- `PopsFindPackets`, `PacketsAccounted`, `EveryAnswerShown`: the two ways of a packet, its two words, the
  single output.
- `LayoutDisjoint`, `HardwareAgrees`: the table and the formula. `TableGivesPlaces`: the written image, and the
  mark for a missing level that may also be a level's place.
- `ReplayedAsWritten`, `WaitsAsAsked`, `FinishAsMarked`, `ReplaysForever`: three encodings of a record that must
  agree, waits counted in one place and outputs delayed in another, an end mark that other records can look
  like, the wrapped address. `FinishAsMarked` says exactly which do: `o_finish` looks at the idle bits of every word,
  so besides the end line it is raised by pushes whose rank at the root ends in `IDLECYCLE_BITS` ones, and by
  nothing else. Nothing in the compiler or in `trace2mem.py` keeps such ranks (one rank in 256, with the tools' 8 bits)
  from being written.
- `MapMatchesTrace`: two passes that must stop at the same packet.
- `RanksSpaced`, `DebtIsQueued`, `ClockRateRight`: a clock that moves only with departures, truncation, weights
  removed in a loop that stops in between.
- `OperationsGoOn`, `PopsFindPackets`, `Finishes`: the simulator's pipeline, pops asked for on the sight of a
  packet another pop may take, an end judged by idle cycles. `TreesAreQueues`,
  `NoOvertaking`: trees whose counters drift. `FigureShowsDepartures`: lists paired by position.
- `BuffersAccounted`, `QlenTracksRing`, `FlowOrder`, `SharesKept`, `EveryPacketSent`, `Quits`: ignored results,
  counters behind the ring, batches in four stages, rings filled while they are passed over, cores waiting for
  each other, a core that retries while another has left. `QlenTracksRing` accounts for every byte of the counters:
  the ring, packets moved and not counted, and lengths read from a buffer that was meanwhile sent and filled again
  (`misread`), which is the only way to misread one. These do occur in the run, and what they add stays in the
  counters. With the limits of the run, a packet of length 3 counted as 1 makes an empty queue look too long and
  the forwarder waits for ever (`Shut`); `EveryPacketSent` claims that only packets behind such a forwarder stay
  (section 5).

**Bounds, and why they are enough.** Three RPUs are the fewest with a first, a middle and a last one, each of
which has its own start rules in `TaskDistribute.sv`; the dispatcher's results are proved for every number. In `pipeline`, trees 0 and 3 share all SRAMs and the same first RPU,
tree 1 begins one RPU later, a push/pop task is included, and the tree of seven words has nodes on every level,
so that pops promote through two levels while the next operation follows. Metadata tells words of equal
rank apart. `FIFO_SIZE = 2` there lets FIFOs fill. In `generator` a list gets at most two words per request,
so FIFOs of `2 * MaxTasks` words never overflow: what overflow does is the subject of
`root_full_first`. `task_path` uses one data word: which word goes with which operation is covered by
the theorem `PathImplementsLists`, which has no such bound. In `task_path` and `pipeline` writers look
at the full flag, as the ports allow them to.

In `trace_reader` the widths are small but keep the proportions of the tools (an idle record is shorter than
a push record); of the two ranks at the root one ends in `IDLECYCLE_BITS` ones, the other does not. `sram_layout` has as many SRAMs as the engine by default, and forests with
gaps and shallow trees. `dpdk` has the limits 20, 20 and 10000 of the loops reduced to 1, 1 and 3 and counters
of three bits, so that cores wait for each other and counters wrap within a run; packets of flow 0 have the length
3, all others 1. Its pool is no larger than a
ring, which is what `switch.conf.example` gives; there the retry of the receiving core (`receive.c:37`) always
finds room. With the default `buff_size_bytes` of `init.c` rings are smaller than the pool; of that case no run
and no theorem but `SchedulerTypeCorrect` and `SharesAreKept` says anything. One node suffices because the code that merges nodes is that
which merges flows; the theorems have any number of either. In `compiler`, `START` and `EMPTY_CYCLES` (50 and 100
in the source) are reduced to fit four packets: the idle count must exceed the longest wait of a task list that
is about to be filled, as it does in the source. A pass stops after one idle time instead of five, so that
captures are cut short; lengths, weights and times are such that packets depart from the fluid model between
arrivals and that several packets of a tree have one rank. Each flow has a tree of its own: with two flows in a
tree the accounts of pops are mixed up, and `Finishes` is not claimed (section 6).

**Fairness.** `EveryTaskServed` assumes weak fairness of the clock edge and nothing else: the clock runs
freely and every edge performs exactly one step. It is stated for writers that stop (`MaxTasks`): with
writers that never stop, pushes from the RPU before can keep a list waiting for ever. The hardware has no
lock against this (the software simulators do). `ReplaysForever` likewise assumes the clock. The DPDK
scheduler's cores each run on a processor of their own and never block, so every core is weakly fair
(`EveryPacketSent`, `Quits`); arrivals and signals are not fair at all. Compiler and simulator are sequential
programs run in turn: weak fairness of their next step (`Finishes`).

**Deadlock** is checked where the system runs for ever (the hardware runs). It is not checked for programs that
end (`sram_layout`, `compiler`, the test bench of `two_levels`), and for `dpdk`, in which a bounded number of
packets arrives and cores stop after a signal; there `EveryPacketSent` and `Quits` say that they do not stop too
early.

## 4. What is proved

All theorems hold for every value of the constants that satisfies the named assumptions.

- `TaskFIFOProofs`, for every `BUF_SIZE` that is a power of two and every set of words: `TypeCorrect`,
  `PointersCorrect`, `StepsAreQueueSteps`, `FIFOImplementsQueue`. The inductive invariant is
  `TypeOK /\ PointersAgree`; neither part is inductive alone, because the counter's bound is what makes the
  pointers meet only when empty or full. The refinement reduces reads, writes and both to lemmas about a
  *window* of the circular memory (`WindowTail`, `WindowAppend`).
- `TaskPathProofs`, first the dispatcher alone, for every `LEVEL >= 2` and arbitrary FIFOs: `TypeCorrect`,
  `CommandsTaken`, `PopsUndisturbed`, `OperationsGoOn`. Invariant: `TypeOK /\ EveryCommandTaken /\
  PopUndisturbed /\ InheritedIsTaken`. `EveryCommandTaken` alone is not inductive: that a command is taken in
  the next cycle needs that no RPU is in POP when its predecessor has something to hand on (`PopUndisturbed`),
  and that in turn needs the ready wires, whose `rpu_level_nxt` relies on `rpu_pop_inherit` meaning a pop under
  way. The argument: settled start wires satisfy `StartsAllowed` (`SettledStarts`), and any allowed starts keep
  the invariant (`CommandsShadow`). Then the composition, for every `LEVEL`, `FIFO_SIZE`, set of trees and
  words: `PathRunsDispatcher` (its steps are dispatcher steps, so the theorems above carry over) and
  `PathImplementsLists`. Invariant: the dispatcher's, and that every word in a FIFO or at its output asks for
  something, which is why a head register that asks for nothing may be overwritten.
- `EngineProofs`, for every number of levels, widths, trees and tasks: `PredictionIsRight` and
  `EngineTyped`. The prediction is stated between two clock edges: the command that an RPU is about to hear is
  the one the dispatcher has just predicted (`InStep`). Pushes are predicted down to the last level whether or
  not the real one goes there, so the invariant is an implication for pushes and an equivalence for pops; the
  pop that an RPU repeats in WB is predicted by nobody, and the invariant says that its successor is then in POP
  and deaf. The types need the prediction (a level is in range because it was predicted) and `HomeInv`: the
  tasks in list `i` are of trees with `tree % LEVEL = i`, so that an address lies within the SRAM.

  On these rest `EngineKeepsOrder` (`TreesInOrder`), `EngineImplementsPIFO` (`ImplementsPIFO`) and `PopsGoToEmpty`
  (`PopToEmpty`), from three conditions. `LEVEL >= 3`: with two levels they are false (finding 3). `CTW >= LEVEL`:
  a size counter can hold the number of words in a tree below a slot, at most `2^LEVEL - 1`; the defaults are 4
  and 10. `Fits`: no push is started with a rank of all ones, which the RPUs take for an empty slot, nor on a
  tree that already holds all the `2^(LEVEL+1) - 2` words it has slots for; the RPUs check neither, and a push too
  many drops a word. In the instance of `pipeline` every reachable state satisfies `Fits`.

  A tree lies scattered over all SRAMs and up to `LEVEL` operations are under way in it, so the argument is made
  about a machine for one tree, `NextTree`: a cell for each node with the node as it will be when the operations
  it has heard are done (`eff`), the node as the node above sees it (`seen`, which differs while a pop waits for
  the word from below), and the operation, slot and word it hands down. There,
  - `TreeOK` is inductive (`TreeStep`): sizes count the words in and below a slot, those on the wires included
    (`SizesStep`), and a slot's rank is at most what is seen below it (`OrderStep`). Order of `eff` alone is not
    inductive: during a pop the slot is empty above words that are not.
  - what the tree holds changes like a bag (`BagStep`): every word in a slot or on a wire is at one place before and
    at one place after a step (`Goes` and `Comes` are inverse to each other), so places can be counted.
  - the first node has a word of the smallest rank (`LeastOfTree`), and the root's sizes count the whole bag.

  `ClockIsTreeStep` connects it to the engine: a clock edge of RPUs, SRAMs and forwarding is a step of every tree's
  machine at once. It needs that different nodes of different trees have different addresses (`AddrUnique`), that
  the RPU of a node hears exactly what the machine gives that node (`GivenIsHeard`, from the prediction), and that
  `level_wb` is `LEVEL - 1` in WB exactly on the last level (`LastLevelSeen`, where `LEVEL >= 3` enters).

  The two-level scheduler, for every `LEVEL >= 3` (`CTW >= LEVEL`) and all trees, packets and widths:
  `PopsFindThePackets` (`PopsFindPackets`) and `PacketsAreAccounted` (`PacketsAccounted`); for `LEVEL = 3`
  `AnswersAreShown` (`EveryAnswerShown`). They assume `Fits`, and `NoneFull`: no task FIFO is full. The second
  is more than the flag `o_task_fifo_full` gives, and finding 1 is why it has to be assumed. TLC confirmed both on
  every reachable state of the instance of `generator`. That `LEVEL = 3` is needed for the third is finding 2.

  A packet is two words: itself, which goes to its tree's list, and its tree's name, which goes through
  the root's list and the root, and comes back as a pop in the list of the tree. So none of the properties is
  inductive, and `GenInv` adds:
  - `Ahead(ROOT) = backlog`: what the root will hold once its list is worked off is what was asked in and not out;
  - `Ahead(t) = Tokens(t)` for the other trees: the words the tree will hold once its list is worked off are as many as
    its names that wait in the root's list, are being pushed, are in the root or are being answered. A request adds one on
    both sides, an answer of the root takes one from both: it turns a name into a pop in the tree's list;
  - `Covered`: no prefix of a list takes more from a tree than the tree holds and the pushes before it add. The
    totals alone do not give this, because a pop may stand before the push that makes up for it; it is kept
    because a word is written at the end of its list when the total there is not negative. The next pop to be
    started is a prefix of length one, so it finds a packet.

  The lists move as `ListMoves` says (what is started leaves the front, what is written joins the end, a
  push/pop task is taken in two parts), which follows from the task path's refinement and `NoneFull`, and the
  bags move as `EngineImplementsPIFO` says.
- `SRAMLayoutProofs`, for every forest and every `SRAM_NUM`: `LayoutIsDisjoint`, with the invariant `Packed`:
  everything placed in an SRAM ends at or before its first free address. `TableAgrees`: on full forests the first
  free address of every SRAM, at every turn of the loop, is what the engine's formula gives for the next level
  to be placed there (`FilledAsComputed`); a group of `LEVEL` trees fills each SRAM with `2^LEVEL - 1` words,
  and within a group the formula's `lo` is a sum of different powers of two. `TableGivesThePlaces`: fields cut out of a
  line of the image at the reader's boundaries are the values that were written; that they fit follows from
  `Packed`, that the absent mark is mistaken for one place only from the largest value a field can have.
- `TraceReaderProofs`, for every trace and all widths: `ReaderTypeCorrect` and `ReaderKeepsTime`. The gap since the
  last fetch and the counter are related only through the record fetched last, so the invariant carries that
  record's wait; the bound on the gap in the type invariant follows from it and is not inductive alone.
  `ReplaysTheTrace` assumes `TracesFit`, that the values of a line fit their fields, which neither the compiler nor
  `trace2mem.py` checks: converting a line to digits, loading it as a number and cutting that up again gives
  the line. `FinishesAsMarked` goes through the kinds of lines and compares what is cut out where the idle cycles
  should be: the wait of an idle line, zeros of a pop, and of a push the low bits of its rank at the root, for
  which it assumes `IDLECYCLE_BITS <= PTW` (8 and 24 in the tools). TLC evaluates `TracesFit` on the traces of
  `trace_reader`. `PaddingAssumption`: records of equal length would need a padding of no digits, and Python's
  format writes one (8 and 63 digits in the tools). `RomAssumption`: the ROM's size is a power of two, as the
  address register wraps at one.
- `DPDKSchedulerProofs`, for any number of nodes, flows and buffers, all policies and any interleaving:
  `SchedulerTypeCorrect`, with the invariant `TInv`, which adds to the types what each core carries at which
  point of its loop. For pools no larger than a ring (`PoolFits`):
  - `BuffersNeverLost`. `Places` says that buffers are distinct, that none is missing, and hence that no ring is
    full when a core holds a packet: a ring that is full holds the whole pool (a counting argument on finite
    sets). Without that, an enqueue may drop a buffer.
  - `QueueLengthRight`, for all lengths. `Balanced`: bytes counted in, less those counted out, in the ring and on
    the way, and misread, are a multiple of `WORD`; the bytes of a ring are a sum over its buffers, which stays as it is
    because a buffer in a ring is not filled again (`Places`). `HandedOver`: a packet that is handed over and not
    counted has been sent, or is still in its buffer, since a number is given to one packet only; so a length read
    from the buffer is that of the packet unless another number is in it.
  - `FlowsInOrder`. `FlowInv` gives every holder a stage on the way to the port. Of two packets of a flow the one
    nearer the port arrived first, within a holder the one in front, and a packet that moves on passes no
    packet of its flow (`Clear`).

  `SharesAreKept` needs no bound on the pool. `Shared` says of the rings that one core merges: under WFQ, what a
  ring has been passed over and what the others may still be served before its turn (`Budget`) add up to no more
  than their weights; under strict priority a ring is passed over once at most, and only between the packet for
  which it came too late and the end of the call. `passed` alone is not inductive: the budget falls as the core
  goes through its plan and comes back to the sum of the weights only when the ring itself is served. That the
  priorities number the rings one to one follows from `PriorityAssumption` by counting.
- `TaggerProofs`, for all flows, natural weights, lengths and times: `ClockTypeCorrect`, `RanksAreSpaced`, `DebtsAreQueued`.
  The invariant adds that nothing in the fluid queue lies before the virtual time (`Ahead`), that packets are
  numbered in order (`Numbered`) and that each tagged packet's finish is at or before its flow's last finish
  time (`Served`), which is what makes the next rank large enough. For every capture: `PassesRunClock` (every
  step of a pass is a step of the clock as specified, or leaves it alone) and hence `TraceRanksSpaced`;
  `TraceClockRight`, with the invariant that the fluid queue is finite and each packet in it has a number of its
  own, without which two equal entries would count once; and `MapIsOfTrace`: there is a history `h` of the
  first pass, with the cycle, packet number and idle count before every packet of the capture, and the second
  pass goes through the same values (`Retraced`).
- `ArithmeticLemmas` holds what these rest on and the provers do not know: induction over naturals and over finite sets
  (as statements about sets, since the library's induction theorems take an operator as a parameter), powers
  of two, quotients and remainders, that a function defined by recursion exists, and sums over finite sets.

Only model-checked:

- liveness: `EveryTaskServed`, `ReplaysForever`, `EveryPacketSent`, `Quits`, `Finishes`;
- the simulator and its trees, which are written with recursive operators.

## 5. Findings

1. **Root FIFO full first** (`root_full_first`; `TaskGenerator.sv:141-143`). The comment says the root's FIFO
   is the longest and fills first, so its flag suffices. Pushing packets of tree 1 in consecutive cycles
   fills list 1 instead: every root push occupies RPU 1 one cycle later, and tree 1's own push has to
   wait. The next word for list 1 is lost while `o_task_fifo_full` is low.
2. **One answer per cycle** (`only_one_pop`; `TaskGenerator.sv:124-137`). One pop is *generated* per cycle,
   but pops wait in their lists and two may *start* together when their RPUs are not neighbours
   (`LEVEL >= 4`). The output loop then shows one packet and the other is gone. With three RPUs the two
   packet RPUs are neighbours and it cannot happen (`EveryAnswerShown` in `generator`, proved as `AnswersAreShown`).
3. **Two-level engines lose words** (`two_levels`; `PIFO_SRAM_TOP.sv:260`). A pop decides by `level_wb`
   (what was on its input ports a cycle ago) whether it is on the last level. An idle neighbour drives
   level 1 there, which for `LEVEL = 2` is the last level, so words are not moved up. `TC_SRAM_NEW5.sv` is a
   test of exactly this configuration ("2 LEVEL push to full and pop to empty"). With three or more levels it
   cannot happen (`PopsGoToEmpty`).

Two behaviours that no document contradicts, so that they have no run that fails, but which a maintainer would
want to know. The properties state them as they are:

- **Length read after the hand-over** (`output_queue.c:87`). `packet_enqueue` counts `pkt->pkt_len` after the
  transmitting core may have sent and freed the buffer and the adapter may have filled it again. The byte counters then
  differ from the queue for good. If the difference lies below zero (a longer packet was counted as a shorter
  one), `get_qlen_bytes` is huge when the queue is empty, and the guard at `forwarding.c:58` stays shut. TLC reaches
  this (`Shut`) in 16 steps; reading the length before the enqueue would avoid it.
- **Pushes that look like the end** (`TraceReader.sv:127`). `o_finish` does not look at the type of the record, and is
  raised by a push whose rank at the root ends in ones (`FinishAsMarked`).

## 6. Not modelled, and why

- Ranks of all ones (reserved for empty slots; no producer uses them), trees pushed beyond their capacity,
  pops of an empty scheduler in `TaskGenerator`: the engine makes no promise about them.
- Trees whose identifier is a multiple of `LEVEL`, other than the root, in `TaskGenerator`: the port logic
  gives list 0 to the root alone ("should not be pushed by i_push").
- The trace reader composed with the scheduler: the reader does not look at `o_task_fifo_full`; what that leads
  to is finding 1.
- Fields wider than their place in `trace2mem.py`: the model's packet numbers fit `MTW`, which the script does
  not check.
- The simulator's anti-starvation mechanism: `S` is 10^9 + 7 cycles. `S` is small only in the older copies of the
  simulator (`algorithm_simulation`) and in the ns-3 queue discs, which are further copies of the same tree
  and pipeline, driven by random numbers and by ns-3 events whose code is not in the repository.
- Flows that share a tree in the simulator: a pop is put to the account of the flow whose packet is in sight and
  may take a packet of the other flow, so an account may run out while its packet is still there. The captures of
  `compiler` have a tree for each flow, where this cannot happen: `Finishes` says nothing of it.
- Weights that are not natural numbers: the compiler has doubles, and `test2_3.cpp:15-16` uses 0.5. Natural weights
  and times in units of `1 / Scale` keep the arithmetic exact; rounding is not modelled.
- In the DPDK scheduler: the token bucket and the transmit bursts of `transmit.c` (the model transmits packet by
  packet with tokens to spare), the indices inside a DPDK ring, two producers of the default port's output ring
  (`SingleProducerAssumption`), the admission thresholds of `packet_enqueue`, whose verdict is overridden. The
  pFabric policy is part of the model and of the theorems, but no run has it.
- The check of least bandwidths in `PIFOTree.cpp`.
- `IO_PORT.sv` and the older test benches: they connect a port the engine no longer has.
- The 4- and 8-ary engines: the engine's data path with wider nodes.
- Strict-priority and pFabric ranks (a table entry per flow), trees of more than two levels in the compiler,
  regular expressions, packet capture, configuration files, file names, plotting.
- `experiment/tag_priority`: byte for byte the files of `SDL_compiler`.
- Vendored ns-3 code. Nearly all Python lines of the repository (34,224 of 35,126) are four generated files,
  `modulegen__gcc_*.py`, that register ns-3 classes with its Python bindings. They keep no state of this
  system, and nothing is modelled from them.

## 7. What could follow

1. The 4- and 8-ary engines: `PIFO_SRAM` parameterised by the fan-out.
2. The older simulators' anti-starvation lock, as a variant of `EngineSim`.
3. The token bucket and the ring indices of the DPDK scheduler, as modules of their own.
4. Theorems: for pushes that do not fit, which word is lost; how long FIFOs must be for `NoneFull` to hold.
