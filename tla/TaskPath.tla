------------------------------ MODULE TaskPath ------------------------------
(***************************************************************************)
(* The way of a task in PIFO_SRAM_TOP.sv from its input ports to the RPUs: *)
(* one TaskFIFO per RPU and the dispatcher behind them.  The FIFOs are     *)
(* bounded queues, which is what TaskFIFO is shown to implement.           *)
(***************************************************************************)
EXTENDS TaskDistribute, Sequences, FiniteSets

CONSTANTS
  FIFO_SIZE,  \* words in each task FIFO
  MaxTasks    \* bound: tasks written before the writers fall silent

ASSUME FIFOSizeAssumption == FIFO_SIZE \in Nat \ {0}
ASSUME MaxTasksAssumption == MaxTasks \in Nat

VARIABLES
  fifo, fifo_out,   \* contents and output register of each FIFO
  written           \* number of words written so far, for the bound

fifoVars == <<fifo, fifo_out>>
pathVars == <<tdVars, fifoVars, written>>

\* A word is written whenever it asks for something.
push_TaskFIFO(w) == w.push \/ w.pop

FIFOInit == /\ fifo = [i \in RPU |-> << >>]
            /\ fifo_out = [i \in RPU |-> NoTask]

PathInit == Init /\ FIFOInit /\ written = 0

TaskFIFO_full(i) == Len(fifo[i]) = FIFO_SIZE

\* One FIFO across a clock edge, read if rd, w on its input port.
FIFO_nxt(i, rd, w) ==
  LET rest == IF rd THEN Tail(fifo[i]) ELSE fifo[i]
  IN  IF push_TaskFIFO(w) /\ (rd \/ ~TaskFIFO_full(i))
      THEN Append(rest, w) ELSE rest

\* The FIFOs across a clock edge with in[i] on the input ports of list i.
FIFOClock(in) ==
  /\ fifo' = [i \in RPU |-> FIFO_nxt(i, pop_TaskFIFO_last'[i], in[i])]
  /\ fifo_out' = [i \in RPU |-> IF pop_TaskFIFO_last'[i]
                                THEN Head(fifo[i]) ELSE NoTask]

\* The dispatcher behind them.
DispatcherClock == Clock(fifo_out, [i \in RPU |-> fifo[i] = << >>])

PathClock(in) == DispatcherClock /\ FIFOClock(in)

-----------------------------------------------------------------------------
(* The writers.  A task goes to the list of the RPU its trees begin on;    *)
(* operands a task has no use for are zero.                                *)
TaskFor == [i \in RPU |->
  {w \in Task : /\ push_TaskFIFO(w)
                /\ IF w.push THEN w.push_tree % LEVEL = i
                             ELSE w.push_tree = 0 /\ w.data = 0
                /\ IF w.pop THEN w.pop_tree % LEVEL = i ELSE w.pop_tree = 0}]

Inputs == {in \in [RPU -> {NoTask} \cup UNION {TaskFor[i] : i \in RPU}] :
             \A i \in RPU : in[i] = NoTask \/ in[i] \in TaskFor[i]}

Words(in) == Cardinality({i \in RPU : in[i] # NoTask})

\* Writers look at o_task_fifo_full, and at last they fall silent.
Write(in) ==
  /\ written + Words(in) <= MaxTasks
  /\ \A i \in RPU : TaskFIFO_full(i) => in[i] = NoTask
  /\ written' = written + Words(in)

PathNext == DispatcherClock /\ \E in \in Inputs : Write(in) /\ FIFOClock(in)

PathSpec == PathInit /\ [][PathNext]_pathVars

\* The clock runs for ever; every step of PathNext is one of the dispatcher.
FairPathSpec == PathSpec /\ WF_tdVars(DispatcherClock)

-----------------------------------------------------------------------------
(* What is left to start of list i: the task at its head, as long as it    *)
(* asks for something, and the words in the FIFO.                          *)
Waiting(i) ==
  LET h == TaskHead(fifo_out)[i]
  IN  (IF h.push \/ h.pop THEN <<h>> ELSE << >>) \o fifo[i]

(* What the dispatcher's outputs start on RPU i.                           *)
Issue(i) ==
  CASE rpu_push_new[i] ->
         [op |-> "PUSH", tree |-> rpu_treeId[i], data |-> rpu_push_data[i]]
    [] ~rpu_push_new[i] /\ rpu_pop_new[i] ->
         [op |-> "POP", tree |-> rpu_treeId[i]]
    [] OTHER -> [op |-> "NONE"]

Lists == INSTANCE TaskLists WITH
           List <- RPU, Capacity <- FIFO_SIZE,
           pend <- [i \in RPU |-> Waiting(i)],
           issue <- [i \in RPU |-> Issue(i)]

(* The task path implements the task lists: through FIFO, output register, *)
(* head register and bit flips, no operation of a list is lost, repeated,  *)
(* overtaken or given another one's operands.                              *)
ImplementsLists == Lists!Spec

(* The dispatcher never wedges: when the writers stop, everything that     *)
(* waits is started, although RPUs wait for their neighbours around a ring *)
(* and the last RPU yields to the first.                                   *)
EveryTaskServed ==
  (\E i \in RPU : Waiting(i) # << >>) ~> (\A i \in RPU : Waiting(i) = << >>)
=============================================================================
