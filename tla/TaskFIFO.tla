------------------------------ MODULE TaskFIFO ------------------------------
(***************************************************************************)
(* The synchronous FIFO that buffers the tasks of one RPU, translated from *)
(* hardware/BMW_PIFO_SRAM_vPIFO/TaskFIFO.sv.  One step is one rising edge  *)
(* of clk; the ports wr_en, rd_en and buf_in are the action's parameters.  *)
(* The memory has no reset, so its first contents are any words at all.    *)
(***************************************************************************)
EXTENDS Naturals

CONSTANTS
  BUF_SIZE,   \* number of words; a power of two, so that pointers wrap at it
  Data,       \* the words that are written
  Zero        \* the all-zero word that buf_out shows when nothing was read

ASSUME BufSizeAssumption == BUF_SIZE \in Nat \ {0}
ASSUME PowerOfTwoAssumption == \E w \in 1 .. BUF_SIZE : BUF_SIZE = 2 ^ w
ASSUME ZeroAssumption == Zero \notin Data

VARIABLES
  fifo_counter, rd_ptr, wr_ptr,             \* occupancy and the two pointers
  buf_mem, buf_rd,                          \* memory and its read register
  rd_en_last, wr_en_last, buf_empty_last    \* the last cycle's strobes

vars == <<fifo_counter, rd_ptr, wr_ptr, buf_mem, buf_rd,
          rd_en_last, wr_en_last, buf_empty_last>>

Ptr == 0 .. BUF_SIZE - 1

\* A pointer has clog2(BUF_SIZE) bits: its increment wraps.
Incr(p) == (p + 1) % BUF_SIZE

buf_empty == fifo_counter = 0
buf_full  == fifo_counter = BUF_SIZE

buf_out == IF rd_en_last /\ (~buf_empty_last \/ wr_en_last)
           THEN buf_rd ELSE Zero

Init ==
  /\ fifo_counter = 0 /\ rd_ptr = 0 /\ wr_ptr = 0
  /\ buf_mem \in [Ptr -> Data]
  /\ buf_rd = Zero
  /\ rd_en_last = FALSE /\ wr_en_last \in BOOLEAN /\ buf_empty_last = TRUE

\* Mutant: the counter is not stopped at a full FIFO.
fifo_counter_nxt_unchecked(wr_en, rd_en) ==
  IF wr_en /\ rd_en THEN fifo_counter
  ELSE IF wr_en THEN fifo_counter + 1
  ELSE IF ~buf_empty /\ rd_en THEN fifo_counter - 1
  ELSE fifo_counter

fifo_counter_nxt(wr_en, rd_en) ==
  IF wr_en /\ rd_en THEN fifo_counter
  ELSE IF ~buf_full /\ wr_en THEN fifo_counter + 1
  ELSE IF ~buf_empty /\ rd_en THEN fifo_counter - 1
  ELSE fifo_counter

\* Mutant: the write pointer runs on when the FIFO is full.
write_accepted_unchecked(wr_en, rd_en) == wr_en

\* The word at wr_ptr is stored when there is room, or room is being made.
write_accepted(wr_en, rd_en) == wr_en /\ (~buf_full \/ rd_en)

read_accepted(wr_en, rd_en) == rd_en /\ (~buf_empty \/ wr_en)

Cycle(wr_en, rd_en, buf_in) ==
  /\ fifo_counter' = fifo_counter_nxt(wr_en, rd_en)
  /\ buf_rd' = buf_mem[rd_ptr]
  /\ buf_mem' = IF write_accepted(wr_en, rd_en)
                THEN [buf_mem EXCEPT ![wr_ptr] = buf_in] ELSE buf_mem
  /\ wr_ptr' = IF write_accepted(wr_en, rd_en) THEN Incr(wr_ptr) ELSE wr_ptr
  /\ rd_ptr' = IF read_accepted(wr_en, rd_en) THEN Incr(rd_ptr) ELSE rd_ptr
  /\ rd_en_last' = rd_en
  /\ wr_en_last' = wr_en
  /\ buf_empty_last' = buf_empty

\* Mutant: the reader does not look at buf_empty.
o_pop_TaskFIFO_blind(rd_en) == TRUE

\* The reader: TaskDistribute raises rd_en only while the FIFO is not empty.
o_pop_TaskFIFO(rd_en) == rd_en => ~buf_empty

Next == \E wr_en, rd_en \in BOOLEAN, buf_in \in Data :
          o_pop_TaskFIFO(rd_en) /\ Cycle(wr_en, rd_en, buf_in)

Spec == Init /\ [][Next]_vars

-----------------------------------------------------------------------------
(* Type invariant: the registers of TaskFIFO.sv keep to their widths; the  *)
(* counter in particular never leaves 0..BUF_SIZE.                         *)
TypeOK ==
  /\ fifo_counter \in 0 .. BUF_SIZE
  /\ rd_ptr \in Ptr /\ wr_ptr \in Ptr
  /\ buf_mem \in [Ptr -> Data]
  /\ buf_rd \in Data \cup {Zero}
  /\ rd_en_last \in BOOLEAN /\ wr_en_last \in BOOLEAN
  /\ buf_empty_last \in BOOLEAN

(* Occupancy is kept twice over, by the counter and by the distance        *)
(* between the pointers, each updated under conditions of its own: they    *)
(* never drift apart, also across writes lost on a full FIFO.              *)
PointersAgree == wr_ptr = (rd_ptr + fifo_counter) % BUF_SIZE

(* The words waiting in the memory, oldest first.                          *)
Contents == [k \in 1 .. fifo_counter |-> buf_mem[(rd_ptr + k - 1) % BUF_SIZE]]

Queue == INSTANCE BoundedQueue WITH
           Capacity <- BUF_SIZE, q <- Contents, out <- buf_out

(* Every clock edge does to the circular memory what the same strobes and  *)
(* the same word do to a bounded queue: the word read is the oldest one,   *)
(* the word written comes last, simultaneous read and write work at any    *)
(* occupancy that is read at all, and a write is lost only on a full FIFO. *)
StepIsQueueStep ==
  [][\A wr_en, rd_en \in BOOLEAN, buf_in \in Data :
        o_pop_TaskFIFO(rd_en) /\ Cycle(wr_en, rd_en, buf_in)
          => Queue!Step(wr_en, rd_en, buf_in)]_vars

(* TaskFIFO.sv implements the bounded queue.                               *)
ImplementsQueue == Queue!Spec
=============================================================================
