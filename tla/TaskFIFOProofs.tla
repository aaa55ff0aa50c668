--------------------------- MODULE TaskFIFOProofs ---------------------------
(***************************************************************************)
(* TaskFIFO is a bounded queue for every BUF_SIZE and every set of words.  *)
(* The inductive invariant is TypeOK /\ PointersAgree: without the second  *)
(* part the word written would not be known to follow the ones waiting.    *)
(***************************************************************************)
EXTENDS TaskFIFO, SequenceTheorems, TLAPS

(* Pointer arithmetic: sums of a pointer and an occupancy stay below twice *)
(* BUF_SIZE, where % is a single conditional subtraction.                  *)
LEMMA ModCases ==
  ASSUME NEW n \in 0 .. 2 * BUF_SIZE - 1
  PROVE  n % BUF_SIZE = IF n < BUF_SIZE THEN n ELSE n - BUF_SIZE
<1>1. BUF_SIZE \in Nat /\ BUF_SIZE > 0
  BY BufSizeAssumption
<1>2. CASE n < BUF_SIZE
  BY <1>1, <1>2
<1>3. CASE n >= BUF_SIZE
  BY <1>1, <1>3
<1> QED
  BY <1>1, <1>2, <1>3

\* A sum below twice the size is reduced by subtraction.
LEMMA ModSum ==
  \A p \in Ptr, c \in 0 .. BUF_SIZE :
    (p + c) % BUF_SIZE = IF p + c < BUF_SIZE THEN p + c ELSE p + c - BUF_SIZE
BY ModCases, BufSizeAssumption DEF Ptr

\* A pointer is incremented or goes back to 0.
LEMMA IncrCases ==
  \A p \in Ptr : /\ Incr(p) \in Ptr
                 /\ Incr(p) = IF p + 1 < BUF_SIZE THEN p + 1 ELSE 0
BY ModCases, BufSizeAssumption DEF Ptr, Incr

-----------------------------------------------------------------------------
IInv == TypeOK /\ PointersAgree

\* The registers start in the invariant.
LEMMA InitIInv == Init => IInv
<1> SUFFICES ASSUME Init PROVE IInv
  OBVIOUS
<1>1. fifo_counter \in 0 .. BUF_SIZE /\ rd_ptr \in Ptr /\ wr_ptr \in Ptr
  BY BufSizeAssumption DEF Init, Ptr
<1>3. TypeOK
  BY <1>1, Zenon DEF Init, TypeOK
<1>2. (0 + 0) % BUF_SIZE = 0
  BY ModCases, BufSizeAssumption
<1> QED
  BY <1>2, <1>3 DEF Init, IInv, PointersAgree

(* One clock edge, under the reader's discipline, keeps the registers in   *)
(* range and moves the write pointer, the read pointer and the counter     *)
(* together.                                                               *)
LEMMA CycleIInv ==
  ASSUME IInv, NEW wr_en \in BOOLEAN, NEW rd_en \in BOOLEAN,
         NEW buf_in \in Data, o_pop_TaskFIFO(rd_en),
         Cycle(wr_en, rd_en, buf_in)
  PROVE  IInv'
<1> USE BufSizeAssumption
<1>0. /\ fifo_counter \in 0 .. BUF_SIZE /\ rd_ptr \in 0 .. BUF_SIZE - 1
      /\ wr_ptr \in 0 .. BUF_SIZE - 1
      /\ wr_ptr = (rd_ptr + fifo_counter) % BUF_SIZE
  BY DEF IInv, TypeOK, PointersAgree, Ptr
<1>1. \A p \in Ptr : Incr(p) = IF p + 1 < BUF_SIZE THEN p + 1 ELSE 0
  BY IncrCases
<1>2. fifo_counter' \in 0 .. BUF_SIZE
  BY <1>0 DEF Cycle, fifo_counter_nxt, buf_full, buf_empty
<1>3. rd_ptr' \in Ptr /\ wr_ptr' \in Ptr
  BY <1>0, <1>1 DEF Cycle, Ptr
<1>4. TypeOK'
  BY <1>2, <1>3 DEF Cycle, IInv, TypeOK, buf_empty
<1>5. wr_ptr' = (rd_ptr' + fifo_counter') % BUF_SIZE
  <2>1. wr_ptr = IF rd_ptr + fifo_counter < BUF_SIZE THEN rd_ptr + fifo_counter
                 ELSE rd_ptr + fifo_counter - BUF_SIZE
    BY <1>0, ModCases
  <2>2. (rd_ptr' + fifo_counter') % BUF_SIZE
           = IF rd_ptr' + fifo_counter' < BUF_SIZE THEN rd_ptr' + fifo_counter'
             ELSE rd_ptr' + fifo_counter' - BUF_SIZE
    BY <1>2, <1>3, ModSum
  <2>3. CASE wr_en /\ rd_en
    BY <2>1, <2>2, <2>3, <1>0, <1>1
       DEF Cycle, fifo_counter_nxt, write_accepted, read_accepted, Ptr
  <2>4. CASE wr_en /\ ~rd_en
    BY <2>1, <2>2, <2>4, <1>0, <1>1
       DEF Cycle, fifo_counter_nxt, write_accepted, read_accepted, Ptr,
           buf_full, buf_empty
  <2>5. CASE ~wr_en /\ rd_en
    BY <2>1, <2>2, <2>5, <1>0, <1>1
       DEF Cycle, fifo_counter_nxt, write_accepted, read_accepted, Ptr,
           buf_full, buf_empty, o_pop_TaskFIFO
  <2>6. CASE ~wr_en /\ ~rd_en
    BY <2>1, <2>2, <2>6, <1>0, <1>1
       DEF Cycle, fifo_counter_nxt, write_accepted, read_accepted
  <2> QED
    BY <2>3, <2>4, <2>5, <2>6
<1> QED
  BY <1>4, <1>5 DEF IInv, PointersAgree

\* A step that changes nothing keeps the invariant.
LEMMA StutterIInv == IInv /\ UNCHANGED vars => IInv'
BY DEF IInv, TypeOK, PointersAgree, vars

\* The inductive invariant holds in every reachable state.
LEMMA IInvInvariant == Spec => []IInv
<1>1. IInv /\ [Next]_vars => IInv'
  BY CycleIInv, StutterIInv DEF Next
<1> QED
  BY InitIInv, <1>1, PTL DEF Spec

(* The registers keep to their widths in every reachable state: occupancy  *)
(* never passes BUF_SIZE, whatever is written and whenever it is read.     *)
THEOREM TypeCorrect == Spec => []TypeOK
BY IInvInvariant, PTL DEF IInv

(* The write pointer is always the read pointer plus the counter.          *)
THEOREM PointersCorrect == Spec => []PointersAgree
BY IInvInvariant, PTL DEF IInv

-----------------------------------------------------------------------------
(* The c words of memory m from address r on, as a sequence.               *)
Window(m, r, c) == [k \in 1 .. c |-> m[(r + k - 1) % BUF_SIZE]]

\* The k-th word from r on has an address inside the memory, r + k - 1 wrapped.
LEMMA WindowIndex ==
  \A r \in Ptr, c \in 0 .. BUF_SIZE : \A k \in 1 .. c :
    /\ (r + k - 1) % BUF_SIZE \in Ptr
    /\ (r + k - 1) % BUF_SIZE = IF r + k - 1 < BUF_SIZE THEN r + k - 1
                                ELSE r + k - 1 - BUF_SIZE
<1> SUFFICES ASSUME NEW r \in Ptr, NEW c \in 0 .. BUF_SIZE, NEW k \in 1 .. c
             PROVE  /\ (r + k - 1) % BUF_SIZE \in Ptr
                    /\ (r + k - 1) % BUF_SIZE
                         = IF r + k - 1 < BUF_SIZE THEN r + k - 1
                           ELSE r + k - 1 - BUF_SIZE
  OBVIOUS
<1>1. k - 1 \in 0 .. BUF_SIZE /\ r + (k - 1) = r + k - 1 /\ k - 1 < BUF_SIZE
  BY BufSizeAssumption DEF Ptr
<1>2. (r + k - 1) % BUF_SIZE = IF r + k - 1 < BUF_SIZE THEN r + k - 1
                               ELSE r + k - 1 - BUF_SIZE
  BY <1>1, ModSum
<1> QED
  BY <1>1, <1>2, BufSizeAssumption DEF Ptr

\* The words waiting form a sequence of the counter's length.
LEMMA WindowSeq ==
  ASSUME NEW m \in [Ptr -> Data], NEW r \in Ptr, NEW c \in 0 .. BUF_SIZE
  PROVE  Window(m, r, c) \in Seq(Data) /\ Len(Window(m, r, c)) = c
<1>1. c \in Nat
  BY BufSizeAssumption
<1>2. \A k \in 1 .. c : m[(r + k - 1) % BUF_SIZE] \in Data
  BY WindowIndex
<1>3. Window(m, r, c) \in [1 .. c -> Data]
  BY <1>2 DEF Window
<1>4. Window(m, r, c) \in Seq(Data)
  BY <1>1, <1>3, SeqDef
<1>5. DOMAIN Window(m, r, c) = 1 .. c
  BY DEF Window
<1> QED
  BY <1>1, <1>4, <1>5, LenProperties

(* Reading: the oldest word leaves, the window starts one later.           *)
LEMMA WindowTail ==
  ASSUME NEW m \in [Ptr -> Data], NEW r \in Ptr, NEW c \in 1 .. BUF_SIZE
  PROVE  /\ Window(m, r, c) # << >>
         /\ Head(Window(m, r, c)) = m[r]
         /\ Tail(Window(m, r, c)) = Window(m, Incr(r), c - 1)
<1> DEFINE w == Window(m, r, c)
           t == Window(m, Incr(r), c - 1)
<1>1. c \in 0 .. BUF_SIZE /\ c - 1 \in 0 .. BUF_SIZE
  BY BufSizeAssumption
<1>2. Incr(r) \in Ptr /\ Incr(r) = IF r + 1 < BUF_SIZE THEN r + 1 ELSE 0
  BY IncrCases
<1>3. w \in Seq(Data) /\ Len(w) = c
  BY <1>1, WindowSeq
<1>4. t \in Seq(Data) /\ Len(t) = c - 1
  BY <1>1, <1>2, WindowSeq
<1>5. w # << >>
  BY <1>3, EmptySeq
<1>6. Head(w) = m[r]
  <2>1. Head(w) = w[1]
    BY <1>3, <1>5
  <2>2. (r + 1 - 1) % BUF_SIZE = r
    BY WindowIndex, <1>1, BufSizeAssumption DEF Ptr
  <2> QED
    BY <2>1, <2>2, <1>1 DEF Window
<1>7. /\ Tail(w) \in Seq(Data) /\ Len(Tail(w)) = c - 1
      /\ \A k \in 1 .. c - 1 : Tail(w)[k] = w[k + 1]
  BY <1>3, <1>5, HeadTailProperties
<1>8. ASSUME NEW k \in 1 .. c - 1 PROVE w[k + 1] = t[k]
  <2>1. k + 1 \in 1 .. c
    BY <1>8
  <2>2. (r + (k + 1) - 1) % BUF_SIZE = (Incr(r) + k - 1) % BUF_SIZE
    BY <2>1, <1>1, <1>2, WindowIndex, BufSizeAssumption DEF Ptr
  <2> QED
    BY <2>1, <2>2 DEF Window
<1>9. \A k \in 1 .. Len(t) : Tail(w)[k] = t[k]
  BY <1>4, <1>7, <1>8
<1>10. Tail(w) = t
  BY <1>4, <1>7, <1>9, SeqEqual
<1> QED
  BY <1>5, <1>6, <1>10

(* Writing: the word stored where the window ends becomes its last one.    *)
LEMMA WindowAppend ==
  ASSUME NEW m \in [Ptr -> Data], NEW r \in Ptr, NEW c \in 0 .. BUF_SIZE - 1,
         NEW d \in Data
  PROVE  Append(Window(m, r, c), d)
           = Window([m EXCEPT ![(r + c) % BUF_SIZE] = d], r, c + 1)
<1> DEFINE w == Window(m, r, c)
           e == (r + c) % BUF_SIZE
           n == [m EXCEPT ![e] = d]
           v == Window(n, r, c + 1)
<1>1. c \in 0 .. BUF_SIZE /\ c + 1 \in 0 .. BUF_SIZE /\ c + 1 \in 1 .. c + 1
  BY BufSizeAssumption
<1>2. e \in Ptr /\ e = IF r + c < BUF_SIZE THEN r + c ELSE r + c - BUF_SIZE
  BY <1>1, ModSum, BufSizeAssumption DEF Ptr
<1>3. n \in [Ptr -> Data] /\ n[e] = d /\ \A p \in Ptr \ {e} : n[p] = m[p]
  BY <1>2
<1>4. w \in Seq(Data) /\ Len(w) = c
  BY <1>1, WindowSeq
<1>5. v \in Seq(Data) /\ Len(v) = c + 1
  BY <1>1, <1>3, WindowSeq
<1>6. /\ Append(w, d) \in Seq(Data) /\ Len(Append(w, d)) = c + 1
      /\ \A k \in 1 .. c : Append(w, d)[k] = w[k]
      /\ Append(w, d)[c + 1] = d
  BY <1>4, AppendProperties
<1>7. ASSUME NEW k \in 1 .. c PROVE v[k] = w[k]
  <2>1. k \in 1 .. c + 1
    BY <1>7
  <2>2. (r + k - 1) % BUF_SIZE \in Ptr \ {e}
    BY <1>1, <1>2, WindowIndex, BufSizeAssumption DEF Ptr
  <2> QED
    BY <2>1, <2>2, <1>3 DEF Window
<1>8. v[c + 1] = d
  <2>1. (r + (c + 1) - 1) % BUF_SIZE = e
    BY <1>1, <1>2, WindowIndex, BufSizeAssumption DEF Ptr
  <2> QED
    BY <2>1, <1>1, <1>3 DEF Window
<1>9. \A k \in 1 .. c + 1 : Append(w, d)[k] = v[k]
  <2>1. \A k \in 1 .. c + 1 : k \in 1 .. c \/ k = c + 1
    OBVIOUS
  <2>2. \A k \in 1 .. c : v[k] = w[k]
    BY <1>7
  <2> HIDE DEF w, v
  <2> QED
    BY <2>1, <2>2, <1>6, <1>8
<1> QED
  BY <1>5, <1>6, <1>9, SeqEqual

-----------------------------------------------------------------------------
(* One clock edge is one step of the queue, for the same strobes and word. *)
LEMMA CycleRefines ==
  ASSUME IInv, NEW wr_en \in BOOLEAN, NEW rd_en \in BOOLEAN,
         NEW buf_in \in Data, o_pop_TaskFIFO(rd_en),
         Cycle(wr_en, rd_en, buf_in)
  PROVE  Queue!Step(wr_en, rd_en, buf_in)
<1> DEFINE q  == Window(buf_mem, rd_ptr, fifo_counter)
           qn == Window(buf_mem', rd_ptr', fifo_counter')
<1>1. Contents = q /\ Contents' = qn
  BY DEF Contents, Window
<1>2. /\ buf_mem \in [Ptr -> Data] /\ rd_ptr \in Ptr
      /\ fifo_counter \in 0 .. BUF_SIZE
      /\ wr_ptr = (rd_ptr + fifo_counter) % BUF_SIZE
  BY DEF IInv, TypeOK, PointersAgree
<1>3. Len(Contents) = fifo_counter
  BY <1>1, <1>2, WindowSeq
<1>4. ASSUME rd_en
      PROVE  /\ fifo_counter \in 1 .. BUF_SIZE
             /\ rd_ptr' = Incr(rd_ptr)
             /\ Queue!Take
             /\ Tail(Contents) = Window(buf_mem, Incr(rd_ptr), fifo_counter - 1)
  <2>1. fifo_counter # 0 /\ ~buf_empty
    BY <1>4 DEF o_pop_TaskFIFO, buf_empty
  <2>2. fifo_counter \in 1 .. BUF_SIZE
    BY <2>1, <1>2, BufSizeAssumption
  <2>3. rd_ptr' = Incr(rd_ptr)
    BY <1>4, <2>1 DEF Cycle, read_accepted
  <2>4. buf_out' = buf_mem[rd_ptr]
    BY <1>4, <2>1 DEF Cycle, buf_out
  <2>5. /\ Contents # << >> /\ Head(Contents) = buf_mem[rd_ptr]
        /\ Tail(Contents) = Window(buf_mem, Incr(rd_ptr), fifo_counter - 1)
    BY <1>1, <1>2, <2>2, WindowTail
  <2> QED
    BY <2>2, <2>3, <2>4, <2>5 DEF Queue!Take
<1>5. ASSUME ~rd_en PROVE rd_ptr' = rd_ptr /\ buf_out' = Zero
  BY <1>5 DEF Cycle, read_accepted, buf_out
<1>6. CASE wr_en /\ rd_en
  <2>1. buf_mem' = [buf_mem EXCEPT ![wr_ptr] = buf_in]
    BY <1>6 DEF Cycle, write_accepted
  <2>2. fifo_counter' = fifo_counter
    BY <1>6 DEF Cycle, fifo_counter_nxt
  <2>3. fifo_counter - 1 \in 0 .. BUF_SIZE - 1 /\ fifo_counter - 1 + 1 = fifo_counter
    BY <1>4, <1>6, BufSizeAssumption
  <2>4. Incr(rd_ptr) \in Ptr
    BY <1>2, IncrCases
  <2>5. (Incr(rd_ptr) + (fifo_counter - 1)) % BUF_SIZE = wr_ptr
    <3>1. /\ (Incr(rd_ptr) + (fifo_counter - 1)) % BUF_SIZE
               = IF Incr(rd_ptr) + (fifo_counter - 1) < BUF_SIZE
                 THEN Incr(rd_ptr) + (fifo_counter - 1)
                 ELSE Incr(rd_ptr) + (fifo_counter - 1) - BUF_SIZE
          /\ wr_ptr = IF rd_ptr + fifo_counter < BUF_SIZE THEN rd_ptr + fifo_counter
                      ELSE rd_ptr + fifo_counter - BUF_SIZE
      BY <1>2, <2>3, <2>4, ModSum, BufSizeAssumption
    <3>2. Incr(rd_ptr) = IF rd_ptr + 1 < BUF_SIZE THEN rd_ptr + 1 ELSE 0
      BY <1>2, IncrCases
    <3> QED
      BY <1>2, <1>4, <1>6, <3>1, <3>2, BufSizeAssumption DEF Ptr
  <2>6. Contents' = Append(Tail(Contents), buf_in)
    BY <1>1, <1>2, <1>4, <1>6, <2>1, <2>2, <2>3, <2>4, <2>5, WindowAppend
  <2>7. Queue!ReadWrite(buf_in)
    BY <1>4, <1>6, <2>6 DEF Queue!ReadWrite
  <2> QED
    BY <1>6, <2>7 DEF Queue!Step
<1>7. CASE wr_en /\ ~rd_en
  <2>1. CASE buf_full
    <3>1. Len(Contents) = BUF_SIZE /\ fifo_counter' = fifo_counter
      BY <1>3, <1>7, <2>1 DEF buf_full, Cycle, fifo_counter_nxt
    <3>2. buf_mem' = buf_mem
      BY <1>7, <2>1 DEF Cycle, write_accepted
    <3>3. Queue!Overflow
      BY <1>1, <1>5, <1>7, <3>1, <3>2 DEF Queue!Overflow
    <3> QED
      BY <1>7, <3>3 DEF Queue!Step
  <2>2. CASE ~buf_full
    <3>1. fifo_counter \in 0 .. BUF_SIZE - 1 /\ fifo_counter' = fifo_counter + 1
      BY <1>2, <1>7, <2>2, BufSizeAssumption
         DEF buf_full, Cycle, fifo_counter_nxt
    <3>2. buf_mem' = [buf_mem EXCEPT ![wr_ptr] = buf_in]
      BY <1>7, <2>2 DEF Cycle, write_accepted
    <3>3. Contents' = Append(Contents, buf_in)
      <4>1. Append(q, buf_in)
              = Window([buf_mem EXCEPT ![(rd_ptr + fifo_counter) % BUF_SIZE] = buf_in],
                       rd_ptr, fifo_counter + 1)
        BY <1>2, <3>1, WindowAppend
      <4>2. rd_ptr' = rd_ptr
        BY <1>5, <1>7
      <4> QED
        BY <1>1, <1>2, <3>1, <3>2, <4>1, <4>2
    <3>4. Len(Contents) < BUF_SIZE
      BY <1>3, <3>1, BufSizeAssumption
    <3>5. Queue!Write(buf_in)
      BY <1>5, <1>7, <3>3, <3>4 DEF Queue!Write
    <3> QED
      BY <1>7, <3>5 DEF Queue!Step
  <2> QED
    BY <2>1, <2>2
<1>8. CASE ~wr_en /\ rd_en
  <2>1. fifo_counter' = fifo_counter - 1 /\ buf_mem' = buf_mem
    BY <1>8, <1>4 DEF Cycle, fifo_counter_nxt, write_accepted, buf_empty
  <2>2. Queue!Read
    BY <1>1, <1>4, <1>8, <2>1 DEF Queue!Read
  <2> QED
    BY <1>8, <2>2 DEF Queue!Step
<1>9. CASE ~wr_en /\ ~rd_en
  <2>1. fifo_counter' = fifo_counter /\ buf_mem' = buf_mem
    BY <1>9 DEF Cycle, fifo_counter_nxt, write_accepted
  <2>2. Queue!Idle
    BY <1>1, <1>5, <1>9, <2>1 DEF Queue!Idle
  <2> QED
    BY <1>9, <2>2 DEF Queue!Step
<1> QED
  BY <1>6, <1>7, <1>8, <1>9

(* For every BUF_SIZE and every set of words, each clock edge of           *)
(* TaskFIFO.sv does to its contents what the same strobes and word do to a *)
(* bounded queue.                                                          *)
THEOREM StepsAreQueueSteps == Spec => StepIsQueueStep
<1>1. IInv /\ [Next]_vars
        => [\A wr_en, rd_en \in BOOLEAN, buf_in \in Data :
              o_pop_TaskFIFO(rd_en) /\ Cycle(wr_en, rd_en, buf_in)
                => Queue!Step(wr_en, rd_en, buf_in)]_vars
  BY CycleRefines
<1> QED
  BY IInvInvariant, <1>1, PTL DEF Spec, StepIsQueueStep

(* TaskFIFO.sv implements the bounded queue of its size.                   *)
THEOREM FIFOImplementsQueue == Spec => ImplementsQueue
<1>1. Init => Queue!Init
  <2> SUFFICES ASSUME Init PROVE Contents = << >> /\ buf_out = Zero
    BY DEF Queue!Init
  <2>1. Contents = [k \in 1 .. 0 |-> buf_mem[(rd_ptr + k - 1) % BUF_SIZE]]
    BY DEF Init, Contents
  <2>2. Contents = << >>
    BY <2>1
  <2> QED
    BY <2>2 DEF Init, buf_out
<1>2. IInv /\ [Next]_vars => [Queue!Next]_<<Contents, buf_out>>
  <2>1. IInv /\ Next => Queue!Next
    BY CycleRefines DEF Next, Queue!Next
  <2>2. UNCHANGED vars => UNCHANGED <<Contents, buf_out>>
    BY DEF vars, Contents, buf_out
  <2> QED
    BY <2>1, <2>2
<1> QED
  BY IInvInvariant, <1>1, <1>2, PTL DEF Spec, ImplementsQueue, Queue!Spec
=============================================================================
