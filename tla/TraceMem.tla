------------------------------ MODULE TraceMem ------------------------------
(***************************************************************************)
(* A trace on its way from the compiler to the scheduler: the lines that   *)
(* SchedStrategy.cpp prints, the memory file that trace2mem.py makes of    *)
(* them, and the fields that TraceReader.sv cuts out of a word.            *)
(***************************************************************************)
EXTENDS BitStrings, Sequences

CONSTANTS
  PTW, MTW, TREE_NUM_BITS, IDLECYCLE_BITS,  \* widths, the same in both tools
  ROM_SIZE                                  \* words of the trace ROM

ASSUME WidthAssumption ==
  /\ PTW \in Nat \ {0} /\ MTW \in Nat \ {0}
  /\ TREE_NUM_BITS \in Nat \ {0} /\ IDLECYCLE_BITS \in Nat \ {0}
  /\ 2 ^ IDLECYCLE_BITS \in Nat \ {0}
\* ROM_SIZE is a power of two, so that the address register, of
\* $clog2(ROM_SIZE) bits, wraps at the end of the ROM.
ASSUME RomAssumption ==
  ROM_SIZE \in Nat \ {0} /\ \E n \in 0 .. ROM_SIZE : ROM_SIZE = 2 ^ n

PUSH_WIDTH  == PTW + TREE_NUM_BITS + MTW + PTW
TOTAL_WIDTH == 2 + (IF IDLECYCLE_BITS > PUSH_WIDTH THEN IDLECYCLE_BITS ELSE PUSH_WIDTH)

\* No record is as wide as another: 0 formatted with the width 0 is one digit.
ASSUME PaddingAssumption == IDLECYCLE_BITS # PUSH_WIDTH

-----------------------------------------------------------------------------
(* Lines of the trace file: items in the order in which they are printed.  *)
IdleLine(n) == << <<"type", 0>>, <<"idle_cycle", n>> >>
PopLine     == << <<"type", 2>> >>
PushLine(tree_id, meta, priority0, priority1) ==
  << <<"type", 1>>, <<"tree_id", tree_id>>, <<"meta", meta>>,
     <<"priority0", priority0>>, <<"priority1", priority1>> >>

\* The line that ends a trace.
EndLine == IdleLine(2 ^ IDLECYCLE_BITS - 1)

-----------------------------------------------------------------------------
(* trace2mem.py *)
width_dict == [type |-> 2, priority1 |-> PTW, tree_id |-> TREE_NUM_BITS,
               meta |-> MTW, priority0 |-> PTW, idle_cycle |-> IDLECYCLE_BITS]

idlecycle_padding == IDLECYCLE_BITS < PUSH_WIDTH

\* What follows an item: the rest of a shorter record.
Padding(name, value) ==
  CASE name = "type" /\ value = 2 -> Format(0, TOTAL_WIDTH - 2)
    [] name = "type" /\ value = (IF idlecycle_padding THEN 0 ELSE 1) ->
         Format(0, IF idlecycle_padding THEN PUSH_WIDTH - IDLECYCLE_BITS
                                        ELSE IDLECYCLE_BITS - PUSH_WIDTH)
    [] OTHER -> EmptyString

AddItem(text, item) ==
  Concat(Concat(text, Format(item[2], width_dict[item[1]])), Padding(item[1], item[2]))

Encode(line) ==
  LET text[n \in 0 .. Len(line)] ==
        IF n = 0 THEN EmptyString ELSE AddItem(text[n - 1], line[n])
  IN  text[Len(line)]

\* The memory file as the ROM loads it: a word a line, then zeros.
MemFile(lines) ==
  [a \in 0 .. ROM_SIZE - 1 |->
     IF a < Len(lines) THEN Word(Encode(lines[a + 1]), TOTAL_WIDTH) ELSE 0]

-----------------------------------------------------------------------------
(* TraceReader.sv: the wires cut from a word. *)
i_pop(w)  == Bits(w, TOTAL_WIDTH - 1, 1) = 1
i_push(w) == Bits(w, TOTAL_WIDTH - 2, 1) = 1
i_push_tree_id(w)  == Bits(w, (MTW + PTW) + PTW, TREE_NUM_BITS)
i_push_data(w)     == Bits(w, PTW, MTW + PTW)
i_push_priority(w) == Bits(w, 0, PTW)
i_idle_cycle_counter(w) == Bits(w, 0, IDLECYCLE_BITS)
=============================================================================
