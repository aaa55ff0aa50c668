----------------------------- MODULE TraceReader -----------------------------
(***************************************************************************)
(* TraceReader.sv with the TraceRom.sv it addresses: every clock cycle it  *)
(* fetches the next record of the trace, unless it waits for the idle      *)
(* cycles of an earlier record, and shows a fetched push or pop to the     *)
(* scheduler one cycle later.  The address wraps at the end of the ROM.    *)
(***************************************************************************)
EXTENDS TraceMem

CONSTANT Traces   \* the trace files: a set of sequences of lines

\* Every trace file converts to an image of the ROM.
ASSUME TracesAssumption ==
  \A t \in Traces : MemFile(t) \in [0 .. ROM_SIZE - 1 -> Nat]

VARIABLES
  lines,               \* the trace file
  mem,                 \* contents of the ROM
  read_addr, idle_cycle_counter, out,   \* registers
  last, gap            \* history: address fetched last, cycles since then

vars == <<lines, mem, read_addr, idle_cycle_counter, out, last, gap>>

AllOnes(w) == 2 ^ w - 1

\* The output registers when they show neither a push nor a pop.
Silent == [push |-> FALSE, pop |-> FALSE, priority |-> AllOnes(PTW),
           tree_id |-> 0, data |-> AllOnes(MTW + PTW)]

\* Nothing has been fetched yet.
NoAddr == ROM_SIZE

Init ==
  /\ lines \in Traces
  /\ mem = MemFile(lines)
  /\ read_addr = 0 /\ idle_cycle_counter = 0 /\ out = Silent
  /\ last = NoAddr /\ gap = 0

read == idle_cycle_counter = 0

i_trace_data == IF read THEN mem[read_addr] ELSE 0

\* Mutant: every record that waits ends the trace.
o_finish_any == read /\ i_idle_cycle_counter(i_trace_data) # 0

o_finish == read /\ i_idle_cycle_counter(i_trace_data) = AllOnes(IDLECYCLE_BITS)

\* Mutant: the priority is taken from where the older record format had it.
Outputs_old_format(w) ==
  IF i_push(w)
  THEN [push |-> TRUE, pop |-> i_pop(w), priority |-> Bits(w, PTW + MTW + TREE_NUM_BITS, PTW),
        tree_id |-> Bits(w, PTW + MTW, TREE_NUM_BITS), data |-> Bits(w, 0, MTW + PTW)]
  ELSE [Silent EXCEPT !.pop = i_pop(w)]

Outputs(w) ==
  IF i_push(w)
  THEN [push |-> TRUE, pop |-> i_pop(w), priority |-> i_push_priority(w),
        tree_id |-> i_push_tree_id(w), data |-> i_push_data(w)]
  ELSE [Silent EXCEPT !.pop = i_pop(w)]

\* Mutant: the counter is loaded by pushes too.
NextCounter_any == IF read THEN i_idle_cycle_counter(i_trace_data)
                           ELSE idle_cycle_counter - 1

NextCounter ==
  IF ~i_push(i_trace_data) /\ read THEN i_idle_cycle_counter(i_trace_data)
  ELSE IF idle_cycle_counter = 0 THEN 0 ELSE idle_cycle_counter - 1

\* Mutant: the address stays at the last word.
NextAddr_stop == IF read /\ read_addr < ROM_SIZE - 1 THEN read_addr + 1 ELSE read_addr

NextAddr == IF read THEN (read_addr + 1) % ROM_SIZE ELSE read_addr

\* A rising clock edge.
Tick ==
  /\ out' = Outputs(i_trace_data)
  /\ idle_cycle_counter' = NextCounter
  /\ read_addr' = NextAddr
  /\ last' = IF read THEN read_addr ELSE last
  /\ gap' = IF read THEN 0 ELSE gap + 1
  /\ UNCHANGED <<lines, mem>>

Next == Tick

Spec == Init /\ [][Next]_vars /\ WF_vars(Tick)

-----------------------------------------------------------------------------
(* Type invariant of the registers and the ROM.                            *)
TypeOK ==
  /\ read_addr \in 0 .. ROM_SIZE - 1 /\ last \in 0 .. ROM_SIZE
  /\ idle_cycle_counter \in 0 .. AllOnes(IDLECYCLE_BITS)
  /\ gap \in 0 .. AllOnes(IDLECYCLE_BITS)
  /\ mem \in [0 .. ROM_SIZE - 1 -> Nat]

(* The line at address a, in the terms of the trace file.                  *)
LineAt(a) == IF a < Len(lines) THEN lines[a + 1] ELSE IdleLine(0)
LineType(a) == LineAt(a)[1][2]

\* What the scheduler is to see of the line at address a.
Shown(a) ==
  CASE LineType(a) = 1 ->
         [push |-> TRUE, pop |-> FALSE, priority |-> LineAt(a)[5][2],
          tree_id |-> LineAt(a)[2][2],
          data |-> LineAt(a)[3][2] * 2 ^ PTW + LineAt(a)[4][2]]
    [] LineType(a) = 2 -> [Silent EXCEPT !.pop = TRUE]
    [] OTHER -> Silent

\* Traces that fit the ROM, and whose numbers fit the widths of their fields.
FittingLine ==
  {IdleLine(n) : n \in 0 .. AllOnes(IDLECYCLE_BITS)} \cup {PopLine} \cup
  {PushLine(t, m, p, q) : t \in 0 .. AllOnes(TREE_NUM_BITS), m \in 0 .. AllOnes(MTW),
                          p \in 0 .. AllOnes(PTW), q \in 0 .. AllOnes(PTW)}
TracesFit == \A t \in Traces : t \in Seq(FittingLine) /\ Len(t) <= ROM_SIZE

\* A push that the reader cannot tell from the end line: TraceReader.sv looks
\* at the idle cycles of every word, and there a push has the low bits of its
\* rank at the root.
LooksLikeEnd(a) ==
  LineType(a) = 1 /\ LineAt(a)[5][2] % 2 ^ IDLECYCLE_BITS = AllOnes(IDLECYCLE_BITS)

\* Idle cycles that the record at address a asks for.
Wait(a) == IF a = NoAddr \/ i_push(mem[a]) THEN 0 ELSE i_idle_cycle_counter(mem[a])

(* The push or pop on the scheduler's port is that of the line fetched in  *)
(* the cycle before, as the compiler wrote it, there is none in a cycle    *)
(* that follows a wait, and the waits are those of the lines: converting   *)
(* the trace to a memory image and cutting it up again loses nothing.      *)
ReplayedAsWritten ==
  /\ out = IF gap = 0 THEN Shown(last) ELSE Silent
  /\ \A a \in 0 .. ROM_SIZE - 1 : Wait(a) = IF LineType(a) = 0 THEN LineAt(a)[2][2] ELSE 0

(* A record is followed by exactly the idle cycles it asks for: the counter *)
(* and the cycles gone since the last fetch add up to them.                *)
WaitsAsAsked == gap + idle_cycle_counter = Wait(last)

(* What o_finish announces, for every line that can be fetched.  It never  *)
(* misses the end line, and a pop, a shorter wait and the zeros after the  *)
(* trace never raise it; but a push does, in the middle of the trace, when *)
(* its rank at the root ends in IDLECYCLE_BITS ones, and no other push.    *)
(* Nothing in the compiler or in trace2mem.py keeps such a rank out.       *)
FinishAsMarked ==
  o_finish <=> read /\ (LineAt(read_addr) = EndLine \/ LooksLikeEnd(read_addr))

(* The trace is replayed over and over: its end is reached, and the        *)
(* wrapped address comes back to it.                                       *)
ReplaysForever == []<>(o_finish /\ LineAt(read_addr) = EndLine)
=============================================================================
