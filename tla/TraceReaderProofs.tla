-------------------------- MODULE TraceReaderProofs --------------------------
(***************************************************************************)
(* For trace files and widths of every size: the reader's registers stay   *)
(* in range and every record is followed by the idle cycles it asks for    *)
(* (the first part). When every field of a line fits its width, every word *)
(* the ROM serves is decoded to the line it was made from, so the engine   *)
(* sees the trace as it was written; when the last address holds the end   *)
(* marker and no earlier one does, the reader reports the end there and    *)
(* only there (the second part).                                           *)
(***************************************************************************)
EXTENDS TraceReader, ArithmeticLemmas

\* The idle field of a word is a number the counter can hold.
LEMMA IdleFieldInRange ==
  ASSUME NEW w \in Nat
  PROVE  i_idle_cycle_counter(w) \in 0 .. AllOnes(IDLECYCLE_BITS)
<1>1. 2 ^ 0 = 1
  OBVIOUS
<1>2. w \div 1 \in Nat
  OBVIOUS
<1>3. \A v \in Nat, p \in Nat \ {0} : v % p \in 0 .. p - 1
  OBVIOUS
<1>4. (w \div 1) % 2 ^ IDLECYCLE_BITS \in 0 .. 2 ^ IDLECYCLE_BITS - 1
  BY <1>2, <1>3, WidthAssumption
<1> QED
  BY <1>1, <1>4 DEF i_idle_cycle_counter, Bits, AllOnes

-----------------------------------------------------------------------------
(* A fetched word, or zero in a cycle without a fetch.                     *)
LEMMA TraceDataType ==
  ASSUME TypeOK
  PROVE  i_trace_data \in Nat
  BY DEF TypeOK, i_trace_data

\* The counter steps within its range.
LEMMA CounterStep ==
  ASSUME TypeOK
  PROVE  NextCounter \in 0 .. AllOnes(IDLECYCLE_BITS)
<1>1. i_idle_cycle_counter(i_trace_data) \in 0 .. AllOnes(IDLECYCLE_BITS)
  BY TraceDataType, IdleFieldInRange
<1>2. AllOnes(IDLECYCLE_BITS) \in Nat
  BY WidthAssumption DEF AllOnes
<1>3. /\ idle_cycle_counter # 0 => idle_cycle_counter - 1 \in 0 .. AllOnes(IDLECYCLE_BITS)
      /\ 0 \in 0 .. AllOnes(IDLECYCLE_BITS)
  BY <1>2 DEF TypeOK
<1> QED
  BY <1>1, <1>3 DEF NextCounter

\* The address steps within the ROM.
LEMMA AddrStep ==
  ASSUME TypeOK
  PROVE  NextAddr \in 0 .. ROM_SIZE - 1
<1>1. \A v \in Nat, p \in Nat \ {0} : v % p \in 0 .. p - 1
  OBVIOUS
<1>2. (read_addr + 1) % ROM_SIZE \in 0 .. ROM_SIZE - 1
  BY <1>1, RomAssumption DEF TypeOK
<1> QED
  BY <1>2 DEF NextAddr, TypeOK

\* What is proved inductive: the types, and the idle cycles of the record
\* fetched last are those waited for and those still to wait.
Inv == TypeOK /\ WaitsAsAsked

\* What a record asks for fits the counter.
LEMMA WaitInRange ==
  ASSUME TypeOK
  PROVE  Wait(last) \in 0 .. AllOnes(IDLECYCLE_BITS)
<1>1. AllOnes(IDLECYCLE_BITS) \in Nat
  BY WidthAssumption DEF AllOnes
<1>2. CASE last = NoAddr
  BY <1>1, <1>2 DEF Wait
<1>3. CASE last # NoAddr
  <2>1. mem[last] \in Nat
    BY <1>3, RomAssumption DEF TypeOK, NoAddr
  <2> QED
    BY <1>1, <2>1, IdleFieldInRange DEF Wait
<1> QED
  BY <1>2, <1>3

\* After reset nothing has been fetched and nothing is waited for.
LEMMA InitInv == Init => Inv
<1> SUFFICES ASSUME Init PROVE Inv
  OBVIOUS
<1>1. AllOnes(IDLECYCLE_BITS) \in Nat
  BY WidthAssumption DEF AllOnes
<1>2. TypeOK
  BY <1>1, RomAssumption, TracesAssumption DEF Init, TypeOK, NoAddr
<1>3. WaitsAsAsked
  BY DEF Init, WaitsAsAsked, Wait
<1> QED
  BY <1>2, <1>3 DEF Inv

\* A clock edge keeps the invariant.
LEMMA TickInv == Inv /\ Tick => Inv'
<1> SUFFICES ASSUME Inv, Tick PROVE Inv'
  OBVIOUS
<1> USE DEF Inv
<1>1. mem' = mem /\ lines' = lines
  BY DEF Tick
<1>2. idle_cycle_counter' \in 0 .. AllOnes(IDLECYCLE_BITS) /\ read_addr' \in 0 .. ROM_SIZE - 1
  BY CounterStep, AddrStep DEF Tick
<1>2a. AllOnes(IDLECYCLE_BITS) \in Nat
  BY WidthAssumption DEF AllOnes
<1>3. idle_cycle_counter' \in Nat
  BY <1>2, <1>2a
<1>4. gap \in Nat /\ idle_cycle_counter \in Nat
  BY DEF TypeOK
<1>5. CASE read
  <2>1. idle_cycle_counter = 0 /\ i_trace_data = mem[read_addr]
    BY <1>5 DEF read, i_trace_data
  <2>2. last' = read_addr /\ gap' = 0
    BY <1>5 DEF Tick
  <2>3. read_addr # NoAddr
    BY RomAssumption DEF TypeOK, NoAddr
  <2>4. idle_cycle_counter' = IF i_push(mem[read_addr]) THEN 0
                              ELSE i_idle_cycle_counter(mem[read_addr])
    BY <1>5, <2>1 DEF Tick, NextCounter
  <2>5. Wait(last)' = idle_cycle_counter'
    BY <1>1, <2>2, <2>3, <2>4 DEF Wait, NoAddr
  <2>6. WaitsAsAsked'
    BY <1>3, <2>2, <2>5 DEF WaitsAsAsked, Wait, NoAddr
  <2>7. TypeOK'
    BY <1>1, <1>2, <1>2a, <2>2, RomAssumption DEF TypeOK
  <2> QED
    BY <2>6, <2>7
<1>6. CASE ~read
  <2>1. idle_cycle_counter # 0
    BY <1>6 DEF read
  <2>2. idle_cycle_counter' = idle_cycle_counter - 1
    BY <1>6, <2>1 DEF Tick, NextCounter
  <2>3. last' = last /\ gap' = gap + 1
    BY <1>6 DEF Tick
  <2>4. Wait(last)' = Wait(last)
    BY <1>1, <2>3 DEF Wait, NoAddr
  <2>5. WaitsAsAsked'
    BY <1>4, <2>2, <2>3, <2>4 DEF WaitsAsAsked
  <2>6. gap' \in 0 .. AllOnes(IDLECYCLE_BITS)
    BY <1>2a, <1>4, <2>1, <2>3, WaitInRange DEF WaitsAsAsked
  <2>7. TypeOK'
    BY <1>1, <1>2, <2>3, <2>6 DEF TypeOK
  <2> QED
    BY <2>5, <2>7
<1> QED
  BY <1>5, <1>6

\* The invariant holds of every state of every behaviour.
LEMMA Invariance == Spec => []Inv
<1>1. Init => Inv
  BY InitInv
<1>2. Inv /\ [Next]_vars => Inv'
  <2> SUFFICES ASSUME Inv, [Next]_vars PROVE Inv'
    OBVIOUS
  <2>1. CASE Tick
    BY <2>1, TickInv
  <2>2. CASE UNCHANGED vars
    BY <2>2 DEF vars, Inv, TypeOK, WaitsAsAsked, Wait, NoAddr
  <2> QED
    BY <2>1, <2>2 DEF Next
<1> QED
  BY <1>1, <1>2, PTL DEF Spec

(* TraceReader.sv: the registers of the reader stay within their widths,   *)
(* whatever the trace.                                                     *)
THEOREM ReaderTypeCorrect == Spec => []TypeOK
<1>1. Inv => TypeOK
  BY DEF Inv
<1> QED
  BY <1>1, Invariance, PTL

(* TraceReader.sv, the idle counter: every record is followed by exactly   *)
(* the idle cycles it asks for, whatever the trace and its length.         *)
THEOREM ReaderKeepsTime == Spec => []WaitsAsAsked
<1>1. Inv => WaitsAsAsked
  BY DEF Inv
<1> QED
  BY <1>1, Invariance, PTL

-----------------------------------------------------------------------------
(* What trace2mem.py writes and TraceReader.sv cuts out again.             *)

\* The items of a line are appended one after the other.
Text == [len : Nat, val : Nat]

LEMMA EncodeSteps ==
  ASSUME NEW line, Len(line) \in Nat,
         \A n \in 1 .. Len(line) : \A s \in Text : AddItem(s, line[n]) \in Text
  PROVE  \E f \in [Nat -> Text] :
           /\ f[0] = EmptyString /\ Encode(line) = f[Len(line)]
           /\ \A n \in 1 .. Len(line) : f[n] = AddItem(f[n - 1], line[n])
<1> DEFINE L == Len(line)
           G == [n \in Nat |-> [s \in Text |-> IF n < L THEN AddItem(s, line[n + 1]) ELSE s]]
           Steps(t) == t = [n \in 0 .. L |-> IF n = 0 THEN EmptyString ELSE AddItem(t[n - 1], line[n])]
<1>1. G \in [Nat -> [Text -> Text]]
  <2>1. ASSUME NEW n \in Nat, NEW s \in Text, n < L PROVE AddItem(s, line[n + 1]) \in Text
    <3>1. n + 1 \in 1 .. L
      BY <2>1
    <3> QED
      BY <3>1
  <2> QED
    BY <2>1
<1>2. EmptyString \in Text
  BY DEF EmptyString, Text
<1>3. \A n \in Nat, s \in Text : G[n][s] = IF n < L THEN AddItem(s, line[n + 1]) ELSE s
  OBVIOUS
<1> HIDE DEF G
<1>4. PICK f \in [Nat -> Text] : Follows(EmptyString, G, f)
  BY <1>1, <1>2, RecursiveFunction
<1>5. ASSUME NEW n \in 1 .. L PROVE f[n] = AddItem(f[n - 1], line[n])
  <2>1. n - 1 \in Nat /\ n - 1 + 1 = n /\ n - 1 < L
    OBVIOUS
  <2>2. f[n - 1] \in Text /\ f[n - 1 + 1] = G[n - 1][f[n - 1]]
    BY <1>4, <2>1 DEF Follows
  <2>3. G[n - 1][f[n - 1]] = AddItem(f[n - 1], line[n - 1 + 1])
    BY <1>3, <2>1, <2>2
  <2> QED
    BY <2>1, <2>2, <2>3
<1>6. f[0] = EmptyString
  BY <1>4 DEF Follows
<1> DEFINE g == [n \in 0 .. L |-> f[n]]
<1>7. Steps(g)
  <2>1. ASSUME NEW n \in 0 .. L
        PROVE  g[n] = IF n = 0 THEN EmptyString ELSE AddItem(g[n - 1], line[n])
    <3>1. CASE n = 0
      BY <1>6, <3>1
    <3>2. CASE n # 0
      <4>1. n \in 1 .. L /\ n - 1 \in 0 .. L
        BY <3>2
      <4> QED
        BY <1>5, <3>2, <4>1
    <3> QED
      BY <3>1, <3>2
  <2> QED
    BY <2>1
<1> DEFINE h == CHOOSE t : Steps(t)
<1>8. Steps(h)
  BY <1>7
<1>9. Encode(line) = h[L]
  BY DEF Encode
<1>10. \A n \in 0 .. L : h[n] = IF n = 0 THEN EmptyString ELSE AddItem(h[n - 1], line[n])
  BY <1>8
<1> HIDE DEF h, Steps
<1>11. \A n \in Nat : n \in {k \in Nat : k <= L => h[k] = f[k]}
  <2> DEFINE S == {k \in Nat : k <= L => h[k] = f[k]}
  <2>1. 0 \in S
    BY <1>6, <1>10
  <2>2. ASSUME NEW n \in Nat, n \in S PROVE n + 1 \in S
    <3> SUFFICES ASSUME n + 1 <= L PROVE h[n + 1] = f[n + 1]
      OBVIOUS
    <3>1. n <= L /\ n + 1 \in 0 .. L /\ n + 1 \in 1 .. L /\ n + 1 # 0 /\ n + 1 - 1 = n
      OBVIOUS
    <3>2. h[n] = f[n]
      BY <2>2, <3>1
    <3>3. h[n + 1] = AddItem(h[n + 1 - 1], line[n + 1]) /\ f[n + 1] = AddItem(f[n + 1 - 1], line[n + 1])
      BY <1>5, <1>10, <3>1
    <3> QED
      BY <3>1, <3>2, <3>3
  <2> HIDE DEF S
  <2>3. \A n \in Nat : n \in S
    BY <2>1, <2>2, SetInduction
  <2> QED
    BY <2>3 DEF S
<1>12. Encode(line) = f[L]
  BY <1>9, <1>11
<1> QED
  BY <1>5, <1>6, <1>12

\* A field in the middle of a word: h, then m in w bits, then r in low bits.
Cuts(x, h, m, r, Q, P, low, w) ==
  /\ low \in Nat /\ w \in Nat /\ h \in Nat /\ m \in Nat /\ r \in Nat
  /\ P = 2 ^ low /\ Q = 2 ^ w /\ m < Q /\ r < P
  /\ x = (h * Q + m) * P + r

LEMMA FieldOfWord ==
  ASSUME NEW x, NEW h, NEW m, NEW r, NEW Q, NEW P, NEW low, NEW w,
         Cuts(x, h, m, r, Q, P, low, w)
  PROVE  Bits(x, low, w) = m
<1>1. /\ low \in Nat /\ w \in Nat /\ h \in Nat /\ m \in Nat /\ r \in Nat
      /\ P = 2 ^ low /\ Q = 2 ^ w /\ m < Q /\ r < P
      /\ x = (h * Q + m) * P + r
  BY DEF Cuts
<1>2. P \in Nat \ {0} /\ Q \in Nat \ {0}
  BY <1>1, PowerSucc
<1> DEFINE y == h * Q + m
<1>3. y \in Nat /\ y = Q * h + m /\ m \in 0 .. Q - 1 /\ r \in 0 .. P - 1
  BY <1>1, <1>2
<1>4. y % Q = m
  BY <1>1, <1>2, <1>3, DivModUnique
<1>5. x = y * P + r
  BY <1>1
<1> HIDE DEF y
<1>6. x = P * y + r
  BY <1>2, <1>3, <1>5
<1>7. (P * y + r) \div P = y
  BY <1>2, <1>3, DivModUnique
<1>8. (x \div P) % Q = m
  BY <1>4, <1>6, <1>7
<1> QED
  BY <1>1, <1>8 DEF Bits

\* The widths, and the room that a shorter record leaves.
Rest == TOTAL_WIDTH - 2

LEMMA Widths ==
  /\ PTW \in Nat \ {0} /\ MTW \in Nat \ {0} /\ TREE_NUM_BITS \in Nat \ {0}
  /\ IDLECYCLE_BITS \in Nat \ {0} /\ PUSH_WIDTH \in Nat /\ Rest \in Nat \ {0}
  /\ TOTAL_WIDTH = Rest + 2 /\ IDLECYCLE_BITS <= Rest /\ PUSH_WIDTH <= Rest
  /\ Rest = IF idlecycle_padding THEN PUSH_WIDTH ELSE IDLECYCLE_BITS
<1>1. /\ PTW \in Nat \ {0} /\ MTW \in Nat \ {0} /\ TREE_NUM_BITS \in Nat \ {0}
      /\ IDLECYCLE_BITS \in Nat \ {0}
  BY WidthAssumption
<1>2. PUSH_WIDTH \in Nat
  BY <1>1 DEF PUSH_WIDTH
<1>3. Rest = IF IDLECYCLE_BITS > PUSH_WIDTH THEN IDLECYCLE_BITS ELSE PUSH_WIDTH
  BY <1>1, <1>2 DEF Rest, TOTAL_WIDTH
<1>4. TOTAL_WIDTH = Rest + 2 /\ Rest \in Nat
  BY <1>1, <1>2, <1>3 DEF TOTAL_WIDTH
<1> QED
  BY <1>1, <1>2, <1>3, <1>4 DEF idlecycle_padding

\* An item that is not the type of its line.
LEMMA AddField ==
  ASSUME NEW s \in Text, NEW name, name # "type", NEW v \in Nat,
         NEW w \in Nat \ {0}, width_dict[name] = w, v < 2 ^ w
  PROVE  /\ AddItem(s, <<name, v>>) \in Text
         /\ AddItem(s, <<name, v>>).val = s.val * 2 ^ w + v
<1>1. w \in Nat \ {0} /\ v < 2 ^ w /\ 2 ^ w \in Nat
  BY PowerSucc
<1>2. Padding(name, v) = EmptyString
  BY DEF Padding
<1>3. Format(v, w) = [len |-> w, val |-> v]
  BY <1>1 DEF Format
<1>4. s.len \in Nat /\ s.val \in Nat
  BY DEF Text
<1> DEFINE t == Concat(s, Format(v, w))
<1>5. t = [len |-> s.len + w, val |-> s.val * 2 ^ w + v]
  BY <1>3 DEF Concat
<1>6. t.len = s.len + w /\ t.val = s.val * 2 ^ w + v /\ t.len \in Nat /\ t.val \in Nat
  BY <1>1, <1>4, <1>5
<1> HIDE DEF t
<1>7. Concat(t, EmptyString) = [len |-> t.len + 0, val |-> t.val * 1 + 0]
  BY PowerZero DEF Concat, EmptyString
<1>8. Concat(t, EmptyString).val = t.val /\ Concat(t, EmptyString) \in Text
  BY <1>6, <1>7 DEF Text
<1>9. AddItem(s, <<name, v>>) = Concat(t, EmptyString)
  BY <1>2 DEF AddItem, t
<1> QED
  BY <1>6, <1>8, <1>9

\* The type of a line, with the padding that follows it.
Pad(v) == IF v = 2 THEN Rest
          ELSE IF v = (IF idlecycle_padding THEN 0 ELSE 1)
          THEN (IF idlecycle_padding THEN PUSH_WIDTH - IDLECYCLE_BITS ELSE IDLECYCLE_BITS - PUSH_WIDTH)
          ELSE 0

LEMMA AddType ==
  ASSUME NEW v \in {0, 1, 2}, NEW s \in Text
  PROVE  /\ Pad(v) \in Nat
         /\ AddItem(s, <<"type", v>>) \in Text
         /\ s.val = 0 => AddItem(s, <<"type", v>>).val = v * 2 ^ Pad(v)
<1>1. Pad(v) \in Nat
  BY Widths DEF Pad, idlecycle_padding
<1>2. Padding("type", v) = [len |-> Pad(v), val |-> 0]
  <2> DEFINE n == Pad(v)
  <2>0. ASSUME n # 0 PROVE Format(0, n) = [len |-> n, val |-> 0]
    <3>1. n \in Nat \ {0}
      BY <1>1, <2>0
    <3>2. 0 < 2 ^ n
      BY <3>1, PowerSucc
    <3> HIDE DEF n
    <3> QED
      BY <3>1, <3>2 DEF Format
  <2>1. CASE v = 2
    <3>1. Padding("type", v) = Format(0, n) /\ n # 0
      BY <2>1, Widths DEF Padding, Pad, Rest
    <3> QED
      BY <2>0, <3>1
  <2>2. CASE v # 2 /\ v = (IF idlecycle_padding THEN 0 ELSE 1)
    <3>1. Padding("type", v) = Format(0, n)
      BY <2>2 DEF Padding, Pad
    <3>2. n # 0
      BY <2>2, Widths, PaddingAssumption DEF Pad, idlecycle_padding
    <3> QED
      BY <2>0, <3>1, <3>2
  <2>3. CASE v # 2 /\ v # (IF idlecycle_padding THEN 0 ELSE 1)
    BY <2>3 DEF Padding, Pad, EmptyString
  <2> QED
    BY <2>1, <2>2, <2>3
<1>3. 2 ^ 2 = 4 /\ width_dict["type"] = 2
  BY PowerZero, PowerSucc DEF width_dict
<1>4. Format(v, 2) = [len |-> 2, val |-> v]
  BY <1>3 DEF Format
<1>5. s.len \in Nat /\ s.val \in Nat /\ v \in Nat
  BY DEF Text
<1> DEFINE t == Concat(s, Format(v, 2))
<1>6. t = [len |-> s.len + 2, val |-> s.val * 4 + v]
  <2>1. Format(v, 2).len = 2 /\ Format(v, 2).val = v
    BY <1>4
  <2>2. t = [len |-> s.len + Format(v, 2).len, val |-> s.val * 2 ^ Format(v, 2).len + Format(v, 2).val]
    BY DEF Concat
  <2> QED
    BY <1>3, <2>1, <2>2
<1>7. t.len \in Nat /\ t.val \in Nat /\ t.val = s.val * 4 + v
  BY <1>5, <1>6
<1> HIDE DEF t
<1>8. AddItem(s, <<"type", v>>) = [len |-> t.len + Pad(v), val |-> t.val * 2 ^ Pad(v) + 0]
  <2>1. AddItem(s, <<"type", v>>) = Concat(t, Padding("type", v))
    BY <1>3 DEF AddItem, t
  <2> QED
    BY <1>2, <2>1 DEF Concat
<1>9. 2 ^ Pad(v) \in Nat
  BY <1>1, PowerSucc
<1>10. t.val * 2 ^ Pad(v) + 0 = t.val * 2 ^ Pad(v) /\ t.val * 2 ^ Pad(v) \in Nat /\ t.len + Pad(v) \in Nat
  BY <1>1, <1>7, <1>9
<1>11. AddItem(s, <<"type", v>>) \in Text /\ AddItem(s, <<"type", v>>).val = t.val * 2 ^ Pad(v)
  BY <1>8, <1>10 DEF Text
<1>12. s.val = 0 => t.val = v
  BY <1>5, <1>7
<1> QED
  BY <1>1, <1>11, <1>12

\* The three kinds of lines as numbers.
LEMMA IdleValue ==
  ASSUME NEW n \in 0 .. AllOnes(IDLECYCLE_BITS)
  PROVE  Encode(IdleLine(n)).val = n
<1> DEFINE line == IdleLine(n)
<1>1. Len(line) = 2 /\ line[1] = <<"type", 0>> /\ line[2] = <<"idle_cycle", n>>
  BY DEF IdleLine
<1>2. n \in Nat /\ n < 2 ^ IDLECYCLE_BITS /\ 2 ^ IDLECYCLE_BITS \in Nat
  BY WidthAssumption DEF AllOnes
<1>3. width_dict["idle_cycle"] = IDLECYCLE_BITS
  BY DEF width_dict
<1>4. ASSUME NEW s \in Text
      PROVE  /\ AddItem(s, <<"idle_cycle", n>>) \in Text
             /\ AddItem(s, <<"idle_cycle", n>>).val = s.val * 2 ^ IDLECYCLE_BITS + n
  <2>1. "idle_cycle" # "type" /\ IDLECYCLE_BITS \in Nat \ {0}
    BY Widths
  <2> QED
    BY <1>2, <1>3, <2>1, AddField
<1> HIDE DEF line
<1>5. \A k \in 1 .. Len(line) : \A s \in Text : AddItem(s, line[k]) \in Text
  BY <1>1, <1>4, AddType
<1>6. PICK f \in [Nat -> Text] :
        /\ f[0] = EmptyString /\ Encode(line) = f[Len(line)]
        /\ \A k \in 1 .. Len(line) : f[k] = AddItem(f[k - 1], line[k])
  BY <1>1, <1>5, EncodeSteps
<1>7. f[1] = AddItem(f[0], <<"type", 0>>) /\ f[2] = AddItem(f[1], <<"idle_cycle", n>>)
  BY <1>1, <1>6
<1>8. f[0] \in Text /\ f[1] \in Text /\ f[0].val = 0
  BY <1>6 DEF EmptyString
<1>9. f[1].val = 0 * 2 ^ Pad(0) /\ Pad(0) \in Nat
  BY <1>7, <1>8, AddType
<1>10. f[1].val = 0
  BY <1>9, PowerSucc
<1>11. f[2].val = 0 * 2 ^ IDLECYCLE_BITS + n
  BY <1>4, <1>7, <1>8, <1>10
<1>12. f[2].val = n
  BY <1>2, <1>11
<1> QED
  BY <1>1, <1>6, <1>12 DEF line

LEMMA PopValue == Encode(PopLine).val = 2 * 2 ^ Rest
<1> DEFINE line == PopLine
<1>1. Len(line) = 1 /\ line[1] = <<"type", 2>>
  BY DEF PopLine
<1> HIDE DEF line
<1>2. \A k \in 1 .. Len(line) : \A s \in Text : AddItem(s, line[k]) \in Text
  BY <1>1, AddType
<1>3. PICK f \in [Nat -> Text] :
        /\ f[0] = EmptyString /\ Encode(line) = f[Len(line)]
        /\ \A k \in 1 .. Len(line) : f[k] = AddItem(f[k - 1], line[k])
  BY <1>1, <1>2, EncodeSteps
<1>4. f[1] = AddItem(f[0], <<"type", 2>>) /\ f[0] \in Text /\ f[0].val = 0
  BY <1>1, <1>3 DEF EmptyString
<1>5. f[1].val = 2 * 2 ^ Pad(2)
  BY <1>4, AddType
<1>6. Pad(2) = Rest
  BY DEF Pad
<1> QED
  BY <1>1, <1>3, <1>5, <1>6 DEF line

\* The fields of a push as one number.
PushFields(t, m, p, q) == ((t * 2 ^ MTW + m) * 2 ^ PTW + p) * 2 ^ PTW + q

LEMMA PushValue ==
  ASSUME NEW t \in 0 .. AllOnes(TREE_NUM_BITS), NEW m \in 0 .. AllOnes(MTW),
         NEW p \in 0 .. AllOnes(PTW), NEW q \in 0 .. AllOnes(PTW)
  PROVE  /\ Encode(PushLine(t, m, p, q)).val = 2 ^ Rest + PushFields(t, m, p, q)
         /\ Encode(PushLine(t, m, p, q)).val = PushFields(2 ^ Pad(1) * 2 ^ TREE_NUM_BITS + t, m, p, q)
         /\ 2 ^ Rest = (((2 ^ Pad(1) * 2 ^ TREE_NUM_BITS) * 2 ^ MTW) * 2 ^ PTW) * 2 ^ PTW
         /\ 2 ^ Pad(1) \in Nat \ {0}
<1> DEFINE line == PushLine(t, m, p, q)
           A == 2 ^ TREE_NUM_BITS
           B == 2 ^ MTW
           P == 2 ^ PTW
           D == 2 ^ Pad(1)
<1>1. /\ Len(line) = 5 /\ line[1] = <<"type", 1>> /\ line[2] = <<"tree_id", t>>
      /\ line[3] = <<"meta", m>> /\ line[4] = <<"priority0", p>> /\ line[5] = <<"priority1", q>>
  BY DEF PushLine
<1>2. A \in Nat \ {0} /\ B \in Nat \ {0} /\ P \in Nat \ {0} /\ D \in Nat \ {0} /\ Pad(1) \in Nat
  <2>1. EmptyString \in Text
    BY DEF EmptyString, Text
  <2>2. Pad(1) \in Nat
    BY <2>1, AddType
  <2> QED
    BY <2>2, Widths, PowerSucc
<1>3. /\ t \in Nat /\ t < A /\ m \in Nat /\ m < B /\ p \in Nat /\ p < P /\ q \in Nat /\ q < P
  BY <1>2 DEF AllOnes
<1>4. /\ width_dict["tree_id"] = TREE_NUM_BITS /\ width_dict["meta"] = MTW
      /\ width_dict["priority0"] = PTW /\ width_dict["priority1"] = PTW
  BY DEF width_dict
<1>5. ASSUME NEW s \in Text
      PROVE  /\ AddItem(s, <<"tree_id", t>>) \in Text /\ AddItem(s, <<"tree_id", t>>).val = s.val * A + t
             /\ AddItem(s, <<"meta", m>>) \in Text /\ AddItem(s, <<"meta", m>>).val = s.val * B + m
             /\ AddItem(s, <<"priority0", p>>) \in Text /\ AddItem(s, <<"priority0", p>>).val = s.val * P + p
             /\ AddItem(s, <<"priority1", q>>) \in Text /\ AddItem(s, <<"priority1", q>>).val = s.val * P + q
  <2>1. AddItem(s, <<"tree_id", t>>) \in Text /\ AddItem(s, <<"tree_id", t>>).val = s.val * A + t
    <3>1. "tree_id" # "type" /\ TREE_NUM_BITS \in Nat \ {0}
      BY Widths
    <3> QED
      BY <1>3, <1>4, <3>1, AddField
  <2>2. AddItem(s, <<"meta", m>>) \in Text /\ AddItem(s, <<"meta", m>>).val = s.val * B + m
    <3>1. "meta" # "type" /\ MTW \in Nat \ {0}
      BY Widths
    <3> QED
      BY <1>3, <1>4, <3>1, AddField
  <2>3. AddItem(s, <<"priority0", p>>) \in Text /\ AddItem(s, <<"priority0", p>>).val = s.val * P + p
    <3>1. "priority0" # "type" /\ PTW \in Nat \ {0}
      BY Widths
    <3> QED
      BY <1>3, <1>4, <3>1, AddField
  <2>4. AddItem(s, <<"priority1", q>>) \in Text /\ AddItem(s, <<"priority1", q>>).val = s.val * P + q
    <3>1. "priority1" # "type" /\ PTW \in Nat \ {0}
      BY Widths
    <3> QED
      BY <1>3, <1>4, <3>1, AddField
  <2> QED
    BY <2>1, <2>2, <2>3, <2>4
<1> HIDE DEF line
<1>6. \A k \in 1 .. Len(line) : \A s \in Text : AddItem(s, line[k]) \in Text
  BY <1>1, <1>5, AddType
<1>6a. Len(line) \in Nat
  BY <1>1
<1>7. PICK f \in [Nat -> Text] :
        /\ f[0] = EmptyString /\ Encode(line) = f[Len(line)]
        /\ \A k \in 1 .. Len(line) : f[k] = AddItem(f[k - 1], line[k])
  BY <1>6, <1>6a, EncodeSteps
<1>8. /\ f[1] = AddItem(f[0], <<"type", 1>>) /\ f[2] = AddItem(f[1], <<"tree_id", t>>)
      /\ f[3] = AddItem(f[2], <<"meta", m>>) /\ f[4] = AddItem(f[3], <<"priority0", p>>)
      /\ f[5] = AddItem(f[4], <<"priority1", q>>)
  BY <1>1, <1>7
<1>9. f[0] \in Text /\ f[1] \in Text /\ f[2] \in Text /\ f[3] \in Text /\ f[4] \in Text /\ f[0].val = 0
  BY <1>7 DEF EmptyString
<1>10. f[1].val = 1 * D
  BY <1>8, <1>9, AddType
<1> HIDE DEF A, B, P, D
<1>11. f[1].val = D /\ f[2].val = D * A + t /\ f[3].val = (D * A + t) * B + m
       /\ f[4].val = ((D * A + t) * B + m) * P + p
       /\ f[5].val = (((D * A + t) * B + m) * P + p) * P + q
  <2>1. f[1].val = D
    BY <1>2, <1>10
  <2>2. f[2].val = D * A + t
    BY <1>5, <1>8, <1>9, <2>1
  <2>3. f[3].val = (D * A + t) * B + m
    BY <1>5, <1>8, <1>9, <2>2
  <2>4. f[4].val = ((D * A + t) * B + m) * P + p
    BY <1>5, <1>8, <1>9, <2>3
  <2>5. f[5].val = (((D * A + t) * B + m) * P + p) * P + q
    BY <1>5, <1>8, <1>9, <2>4
  <2> QED
    BY <2>1, <2>2, <2>3, <2>4, <2>5
<1>12. 2 ^ Rest = (((D * A) * B) * P) * P
  <2>1. Rest = (((Pad(1) + TREE_NUM_BITS) + MTW) + PTW) + PTW
    <3>1. Rest = Pad(1) + PUSH_WIDTH
      BY Widths DEF Pad
    <3> QED
      BY <1>2, <3>1, Widths DEF PUSH_WIDTH
  <2>2. 2 ^ (Pad(1) + TREE_NUM_BITS) = D * A
    BY <1>2, Widths, PowerAdd DEF D, A
  <2>3. 2 ^ ((Pad(1) + TREE_NUM_BITS) + MTW) = (D * A) * B
    <3>1. Pad(1) + TREE_NUM_BITS \in Nat
      BY <1>2, Widths
    <3> QED
      BY <3>1, <2>2, Widths, PowerAdd DEF B
  <2>4. 2 ^ (((Pad(1) + TREE_NUM_BITS) + MTW) + PTW) = ((D * A) * B) * P
    <3>1. (Pad(1) + TREE_NUM_BITS) + MTW \in Nat
      BY <1>2, Widths
    <3> QED
      BY <3>1, <2>3, Widths, PowerAdd DEF P
  <2>5. 2 ^ ((((Pad(1) + TREE_NUM_BITS) + MTW) + PTW) + PTW) = (((D * A) * B) * P) * P
    <3>1. ((Pad(1) + TREE_NUM_BITS) + MTW) + PTW \in Nat
      BY <1>2, Widths
    <3> QED
      BY <3>1, <2>4, Widths, PowerAdd DEF P
  <2> QED
    BY <2>1, <2>5
<1>13. (((D * A + t) * B + m) * P + p) * P + q
         = (((D * A) * B) * P) * P + (((t * B + m) * P + p) * P + q)
  <2> DEFINE E == D * A
  <2>1. E \in Nat
    BY <1>2
  <2> HIDE DEF E
  <2>2. (E + t) * B + m = E * B + (t * B + m) /\ E * B \in Nat /\ t * B + m \in Nat
    BY <1>2, <1>3, <2>1
  <2> DEFINE F == E * B
             u == t * B + m
  <2>3. F \in Nat /\ u \in Nat /\ (E + t) * B + m = F + u
    BY <2>2
  <2> HIDE DEF F, u
  <2>4. (F + u) * P + p = F * P + (u * P + p) /\ F * P \in Nat /\ u * P + p \in Nat
    BY <1>2, <1>3, <2>3
  <2> DEFINE H == F * P
             v == u * P + p
  <2>5. H \in Nat /\ v \in Nat /\ (F + u) * P + p = H + v
    BY <2>4
  <2> HIDE DEF H, v
  <2>6. (H + v) * P + q = H * P + (v * P + q)
    BY <1>2, <1>3, <2>5
  <2>7. (((E + t) * B + m) * P + p) * P + q = H * P + (v * P + q)
    BY <2>3, <2>5, <2>6
  <2> QED
    BY <2>7 DEF H, v, F, u, E
<1>14. Encode(line).val = 2 ^ Rest + (((t * B + m) * P + p) * P + q)
  BY <1>1, <1>7, <1>11, <1>12, <1>13
<1>15. Encode(line).val = (((D * A + t) * B + m) * P + p) * P + q
  BY <1>1, <1>7, <1>11
<1> QED
  BY <1>2, <1>12, <1>14, <1>15 DEF line, PushFields, A, B, P, D

\* The two bits that tell what a record is.
LEMMA TypeBits ==
  ASSUME NEW c \in {0, 1, 2}, NEW r \in Nat, r < 2 ^ Rest, NEW v, v = c * 2 ^ Rest + r
  PROVE  /\ v \in Nat /\ v % 2 ^ TOTAL_WIDTH = v
         /\ i_push(v) <=> c = 1
         /\ i_pop(v) <=> c = 2
<1> DEFINE R == 2 ^ Rest
<1>1. Rest \in Nat /\ R \in Nat \ {0} /\ r < R /\ v = c * R + r
  BY Widths, PowerSucc
<1>2. 2 ^ 1 = 2 /\ 2 ^ (Rest + 1) = 2 * R /\ 2 ^ TOTAL_WIDTH = 4 * R
  <2>1. 2 ^ (Rest + 1) = 2 * R /\ 2 ^ ((Rest + 1) + 1) = 2 * 2 ^ (Rest + 1)
    BY <1>1, PowerSucc
  <2>2. TOTAL_WIDTH = (Rest + 1) + 1
    BY <1>1, Widths
  <2> QED
    BY <1>1, <2>1, <2>2, PowerZero, PowerSucc
<1>3. TOTAL_WIDTH - 2 = Rest /\ TOTAL_WIDTH - 1 = Rest + 1 /\ Rest + 1 \in Nat
  BY <1>1, Widths
<1> HIDE DEF R
<1>4. c \in Nat /\ v \in Nat /\ v < 4 * R
  BY <1>1
<1>5. v % 2 ^ TOTAL_WIDTH = v
  BY <1>1, <1>2, <1>4, ModSmall
<1>6. Bits(v, Rest, 1) = IF c = 1 THEN 1 ELSE 0
  <2> DEFINE h == IF c = 2 THEN 1 ELSE 0
             m == IF c = 1 THEN 1 ELSE 0
  <2>1. h \in Nat /\ m \in Nat /\ m < 2 /\ c = h * 2 + m
    OBVIOUS
  <2> HIDE DEF h, m
  <2>2. Cuts(v, h, m, r, 2, R, Rest, 1)
    <3>1. v = (h * 2 + m) * R + r
      BY <1>1, <2>1
    <3>2. R = 2 ^ Rest
      BY DEF R
    <3> QED
      BY <1>1, <1>2, <2>1, <3>1, <3>2 DEF Cuts
  <2> QED
    BY <2>2, FieldOfWord DEF m
<1>7. Bits(v, Rest + 1, 1) = IF c = 2 THEN 1 ELSE 0
  <2> DEFINE m == IF c = 2 THEN 1 ELSE 0
             k == IF c = 2 THEN r ELSE v
  <2>1. m \in Nat /\ m < 2 /\ k \in Nat /\ k < 2 * R /\ v = (0 * 2 + m) * (2 * R) + k
    BY <1>1, <1>4
  <2> HIDE DEF m, k
  <2>2. Cuts(v, 0, m, k, 2, 2 * R, Rest + 1, 1)
    BY <1>2, <1>3, <2>1 DEF Cuts
  <2> QED
    BY <2>2, FieldOfWord DEF m
<1> QED
  BY <1>3, <1>4, <1>5, <1>6, <1>7 DEF i_push, i_pop

\* The lowest field.
LEMMA LowField ==
  ASSUME NEW w \in Nat, NEW h \in Nat, NEW m \in Nat, m < 2 ^ w
  PROVE  Bits(h * 2 ^ w + m, 0, w) = m
<1> DEFINE Q == 2 ^ w
           x == h * Q + m
<1>1. 2 ^ 0 = 1 /\ Q \in Nat /\ m < Q
  BY PowerZero, PowerSucc
<1>2. Q = 2 ^ w
  OBVIOUS
<1> HIDE DEF Q
<1>3. x \in Nat /\ x = (h * Q + m) * 1 + 0
  BY <1>1
<1>4. Cuts(x, h, m, 0, Q, 1, 0, w)
  BY <1>1, <1>2, <1>3 DEF Cuts
<1>5. Bits(x, 0, w) = m
  BY <1>4, FieldOfWord
<1> QED
  BY <1>5 DEF Q, x

\* A number put together of two that are below their bounds.
LEMMA Below ==
  ASSUME NEW a \in Nat, NEW x \in Nat, a < x, NEW b \in Nat, NEW y \in Nat, b < y
  PROVE  a * y + b \in Nat /\ a * y + b < x * y
<1>1. a + 1 <= x /\ a + 1 \in Nat
  OBVIOUS
<1>2. (a + 1) * y <= x * y
  BY <1>1
<1>3. (a + 1) * y = a * y + y /\ a * y \in Nat /\ x * y \in Nat
  OBVIOUS
<1> QED
  BY <1>2, <1>3

LEMMA IdleDecoded ==
  ASSUME NEW n \in 0 .. AllOnes(IDLECYCLE_BITS), NEW w, w = Word(Encode(IdleLine(n)), TOTAL_WIDTH)
  PROVE  ~i_push(w) /\ ~i_pop(w) /\ i_idle_cycle_counter(w) = n
<1>1. IDLECYCLE_BITS \in Nat /\ Rest \in Nat /\ IDLECYCLE_BITS <= Rest
  BY Widths
<1>2. n \in Nat /\ n < 2 ^ IDLECYCLE_BITS /\ 2 ^ IDLECYCLE_BITS \in Nat /\ 2 ^ Rest \in Nat
  BY <1>1, PowerSucc DEF AllOnes
<1>3. 2 ^ IDLECYCLE_BITS <= 2 ^ Rest
  BY <1>1, PowerMonotone
<1>4. n < 2 ^ Rest /\ n = 0 * 2 ^ Rest + n /\ n = 0 * 2 ^ IDLECYCLE_BITS + n
  BY <1>2, <1>3
<1>5. n % 2 ^ TOTAL_WIDTH = n /\ ~i_push(n) /\ ~i_pop(n)
  BY <1>2, <1>4, TypeBits
<1>6. w = n
  BY <1>5, IdleValue DEF Word
<1>7. Bits(n, 0, IDLECYCLE_BITS) = n
  <2>1. Bits(0 * 2 ^ IDLECYCLE_BITS + n, 0, IDLECYCLE_BITS) = n
    BY <1>1, <1>2, LowField
  <2> QED
    BY <1>4, <2>1
<1> QED
  BY <1>5, <1>6, <1>7 DEF i_idle_cycle_counter

LEMMA PopDecoded ==
  ASSUME NEW w, w = Word(Encode(PopLine), TOTAL_WIDTH)
  PROVE  ~i_push(w) /\ i_pop(w) /\ i_idle_cycle_counter(w) = 0
<1> DEFINE v == 2 * 2 ^ Rest
           k == Rest - IDLECYCLE_BITS
           I == 2 ^ IDLECYCLE_BITS
           K == 2 ^ k
<1>1. IDLECYCLE_BITS \in Nat /\ Rest \in Nat /\ k \in Nat /\ Rest = k + IDLECYCLE_BITS
  BY Widths
<1>2. 2 ^ Rest = K * I /\ 2 ^ Rest \in Nat \ {0} /\ I \in Nat \ {0} /\ K \in Nat \ {0}
  BY <1>1, PowerAdd, PowerSucc
<1>3. v = 2 * 2 ^ Rest + 0 /\ 0 < 2 ^ Rest
  BY <1>2
<1>4. v % 2 ^ TOTAL_WIDTH = v /\ ~i_push(v) /\ i_pop(v)
  BY <1>3, TypeBits
<1>5. w = v
  BY <1>4, PopValue DEF Word
<1>6. Bits(v, 0, IDLECYCLE_BITS) = 0
  <2> HIDE DEF K, I
  <2>1. v = (2 * K) * I + 0 /\ 2 * K \in Nat /\ 0 < I
    BY <1>2
  <2> HIDE DEF v
  <2>2. Bits((2 * K) * I + 0, 0, IDLECYCLE_BITS) = 0
    BY <1>1, <2>1, LowField DEF I
  <2> QED
    BY <2>1, <2>2
<1> QED
  BY <1>4, <1>5, <1>6 DEF i_idle_cycle_counter

LEMMA PushDecoded ==
  ASSUME NEW t \in 0 .. AllOnes(TREE_NUM_BITS), NEW m \in 0 .. AllOnes(MTW),
         NEW p \in 0 .. AllOnes(PTW), NEW q \in 0 .. AllOnes(PTW),
         NEW w, w = Word(Encode(PushLine(t, m, p, q)), TOTAL_WIDTH)
  PROVE  /\ i_push(w) /\ ~i_pop(w)
         /\ i_push_tree_id(w) = t /\ i_push_data(w) = m * 2 ^ PTW + p /\ i_push_priority(w) = q
         /\ IDLECYCLE_BITS <= PTW => i_idle_cycle_counter(w) = q % 2 ^ IDLECYCLE_BITS
<1> DEFINE A == 2 ^ TREE_NUM_BITS
           B == 2 ^ MTW
           P == 2 ^ PTW
           D == 2 ^ Pad(1)
           v == Encode(PushLine(t, m, p, q)).val
           f == ((t * B + m) * P + p) * P + q
           g == D * A + t
<1>1. A \in Nat \ {0} /\ B \in Nat \ {0} /\ P \in Nat \ {0}
  BY Widths, PowerSucc
<1>2. /\ t \in Nat /\ t < A /\ m \in Nat /\ m < B /\ p \in Nat /\ p < P /\ q \in Nat /\ q < P
  BY <1>1 DEF AllOnes
<1>3. /\ v = 2 ^ Rest + f /\ v = ((g * B + m) * P + p) * P + q
      /\ 2 ^ Rest = (((D * A) * B) * P) * P /\ D \in Nat \ {0}
  BY PushValue DEF PushFields
<1>4. /\ 2 ^ (MTW + PTW) = B * P /\ 2 ^ ((MTW + PTW) + PTW) = (B * P) * P
      /\ MTW \in Nat /\ PTW \in Nat /\ TREE_NUM_BITS \in Nat
      /\ MTW + PTW \in Nat /\ (MTW + PTW) + PTW \in Nat
  <2>1. MTW \in Nat /\ PTW \in Nat /\ TREE_NUM_BITS \in Nat /\ MTW + PTW \in Nat
    BY Widths
  <2>2. 2 ^ (MTW + PTW) = B * P
    BY <2>1, PowerAdd
  <2>3. 2 ^ ((MTW + PTW) + PTW) = 2 ^ (MTW + PTW) * P
    BY <2>1, PowerAdd
  <2> QED
    BY <2>1, <2>2, <2>3
<1>5. w = v % 2 ^ TOTAL_WIDTH
  BY DEF Word
<1> HIDE DEF A, B, P, D, v
<1>6. m * P + p \in Nat /\ m * P + p < B * P
  BY <1>1, <1>2, Below
<1>7. (m * P + p) * P + q \in Nat /\ (m * P + p) * P + q < (B * P) * P
  <2> DEFINE a == m * P + p
             x == B * P
  <2>1. a \in Nat /\ x \in Nat /\ a < x
    BY <1>1, <1>6
  <2> HIDE DEF a, x
  <2>2. a * P + q \in Nat /\ a * P + q < x * P
    BY <1>1, <1>2, <2>1, Below
  <2> QED
    BY <2>2 DEF a, x
<1>8. f \in Nat /\ f < 2 ^ Rest
  <2> DEFINE b == (m * P + p) * P + q
             y == (B * P) * P
  <2>1. b \in Nat /\ y \in Nat /\ b < y
    BY <1>1, <1>7
  <2>2. f = t * y + b
    BY <1>1, <1>2
  <2>3. 2 ^ Rest = D * (A * y)
    BY <1>1, <1>3
  <2> HIDE DEF b, y, f
  <2>4. t * y + b \in Nat /\ t * y + b < A * y /\ A * y \in Nat
    BY <1>1, <1>2, <2>1, Below
  <2> DEFINE z == A * y
  <2>5. z \in Nat /\ f < z /\ 2 ^ Rest = D * z
    BY <2>2, <2>3, <2>4
  <2> HIDE DEF z
  <2>6. z <= D * z
    BY <1>3, <2>5
  <2> QED
    BY <1>3, <2>2, <2>4, <2>5, <2>6
<1> DEFINE R == 2 ^ Rest
<1>9. R \in Nat /\ v = 1 * R + f
  BY <1>3, Widths, PowerSucc
<1>10. v \in Nat /\ v % 2 ^ TOTAL_WIDTH = v /\ i_push(v) /\ ~i_pop(v)
  <2> HIDE DEF f
  <2> QED
    BY <1>8, <1>9, TypeBits
<1>11. w = v
  BY <1>5, <1>10
<1>12. g \in Nat
  BY <1>1, <1>2, <1>3
<1> HIDE DEF f, g, R
<1>13. i_push_priority(v) = q
  <2> DEFINE h == (g * B + m) * P + p
  <2>1. h \in Nat /\ v = h * P + q
    BY <1>1, <1>2, <1>3, <1>12
  <2> HIDE DEF h
  <2> QED
    BY <1>2, <1>4, <2>1, LowField DEF i_push_priority, P
<1>14. i_push_data(v) = m * P + p
  <2> DEFINE a == m * P + p
  <2>1. a \in Nat /\ a < B * P /\ v = (g * (B * P) + a) * P + q
    BY <1>1, <1>2, <1>3, <1>6, <1>12
  <2> HIDE DEF a
  <2>2. P = 2 ^ PTW
    BY DEF P
  <2>3. Cuts(v, g, a, q, B * P, P, PTW, MTW + PTW)
    BY <1>2, <1>4, <1>12, <2>1, <2>2 DEF Cuts
  <2> QED
    BY <2>3, FieldOfWord DEF i_push_data, a
<1>15. i_push_tree_id(v) = t
  <2> DEFINE b == (m * P + p) * P + q
             y == (B * P) * P
  <2>1. b \in Nat /\ b < y /\ v = (D * A + t) * y + b
    BY <1>1, <1>2, <1>3, <1>7, <1>12 DEF g
  <2> HIDE DEF b
  <2>2. A = 2 ^ TREE_NUM_BITS
    BY DEF A
  <2>3. Cuts(v, D, t, b, A, y, (MTW + PTW) + PTW, TREE_NUM_BITS)
    BY <1>2, <1>3, <1>4, <2>1, <2>2 DEF Cuts
  <2> QED
    BY <2>3, FieldOfWord DEF i_push_tree_id
<1>16. ASSUME IDLECYCLE_BITS <= PTW PROVE i_idle_cycle_counter(v) = q % 2 ^ IDLECYCLE_BITS
  <2> DEFINE I == 2 ^ IDLECYCLE_BITS
             k == PTW - IDLECYCLE_BITS
             K == 2 ^ k
             h == (g * B + m) * P + p
  <2>1. k \in Nat /\ IDLECYCLE_BITS \in Nat /\ PTW = k + IDLECYCLE_BITS
    BY <1>16, Widths
  <2>2. P = K * I /\ K \in Nat /\ I \in Nat \ {0}
    BY <2>1, PowerAdd, PowerSucc DEF P
  <2>3. h \in Nat /\ v = h * P + q
    BY <1>1, <1>2, <1>3, <1>12
  <2> DEFINE d == q \div I
             e == q % I
  <2> HIDE DEF h, K, I
  <2>4. q = I * d + e /\ d \in Nat /\ e \in 0 .. I - 1
    BY <1>2, <2>2, DivMod
  <2> HIDE DEF d, e
  <2>5. e \in Nat /\ e < I
    BY <2>2, <2>4
  <2>6. v = (h * K + d) * I + e /\ h * K + d \in Nat
    BY <2>2, <2>3, <2>4, <2>5
  <2> DEFINE z == h * K + d
  <2>7. z \in Nat /\ v = z * I + e
    BY <2>6
  <2> HIDE DEF z
  <2>8. Bits(z * 2 ^ IDLECYCLE_BITS + e, 0, IDLECYCLE_BITS) = e
    BY <2>1, <2>5, <2>7, LowField DEF I
  <2> QED
    BY <2>7, <2>8 DEF i_idle_cycle_counter, I, e
<1> QED
  BY <1>10, <1>11, <1>13, <1>14, <1>15, <1>16 DEF P

-----------------------------------------------------------------------------
(* The replay.  Every address holds the word of a line that fits.          *)
LEMMA LineFits ==
  ASSUME TracesFit, lines \in Traces, NEW a \in 0 .. ROM_SIZE - 1
  PROVE  LineAt(a) \in FittingLine /\ MemFile(lines)[a] = Word(Encode(LineAt(a)), TOTAL_WIDTH)
<1>1. lines \in Seq(FittingLine) /\ Len(lines) \in Nat /\ a \in Nat
  BY RomAssumption DEF TracesFit
<1>2. CASE a < Len(lines)
  <2>1. a + 1 \in DOMAIN lines
    BY <1>1, <1>2
  <2>2. lines[a + 1] \in FittingLine
    BY <1>1, <2>1
  <2> QED
    BY <1>2, <2>2 DEF LineAt, MemFile
<1>3. CASE ~(a < Len(lines))
  <2>1. 0 \in 0 .. AllOnes(IDLECYCLE_BITS)
    BY Widths, PowerSucc DEF AllOnes
  <2>2. IdleLine(0) \in FittingLine
    BY <2>1 DEF FittingLine
  <2>3. 0 % 2 ^ TOTAL_WIDTH = 0
    <3>1. 0 = 0 * 2 ^ Rest + 0 /\ 0 < 2 ^ Rest
      BY Widths, PowerSucc
    <3> QED
      BY <3>1, TypeBits
  <2>4. Word(Encode(IdleLine(0)), TOTAL_WIDTH) = 0
    BY <2>1, <2>3, IdleValue DEF Word
  <2> QED
    BY <1>3, <2>2, <2>4 DEF LineAt, MemFile
<1> QED
  BY <1>2, <1>3

\* A word that is not a push shows nothing but its pop.
LEMMA NoPushShown ==
  ASSUME NEW w, ~i_push(w)
  PROVE  /\ ~i_pop(w) => Outputs(w) = Silent
         /\ i_pop(w) => Outputs(w) = [Silent EXCEPT !.pop = TRUE]
<1>1. Outputs(w) = [Silent EXCEPT !.pop = i_pop(w)]
  BY DEF Outputs
<1>2. i_pop(w) \in BOOLEAN
  BY DEF i_pop
<1>3. CASE i_pop(w)
  <2>1. i_pop(w) = TRUE
    BY <1>2, <1>3
  <2> QED
    BY <1>1, <1>3, <2>1
<1>4. CASE ~i_pop(w)
  <2>1. i_pop(w) = FALSE
    BY <1>2, <1>4
  <2>2. Outputs(w) = [Silent EXCEPT !.pop = FALSE]
    BY <1>1, <2>1
  <2> QED
    BY <1>4, <2>2 DEF Silent
<1> QED
  BY <1>3, <1>4

\* A fetched word shows its line, and asks for the idle cycles of its line.
LEMMA AddressDecoded ==
  ASSUME TracesFit, lines \in Traces, NEW a \in 0 .. ROM_SIZE - 1, NEW w, w = MemFile(lines)[a]
  PROVE  /\ Outputs(w) = Shown(a)
         /\ (IF i_push(w) THEN 0 ELSE i_idle_cycle_counter(w))
              = IF LineType(a) = 0 THEN LineAt(a)[2][2] ELSE 0
<1> DEFINE x == LineAt(a)
<1>1. x \in FittingLine /\ w = Word(Encode(x), TOTAL_WIDTH)
  BY LineFits
<1>2. LineType(a) = x[1][2]
  BY DEF LineType
<1>3. CASE x \in {IdleLine(n) : n \in 0 .. AllOnes(IDLECYCLE_BITS)}
  <2>1. PICK n \in 0 .. AllOnes(IDLECYCLE_BITS) : x = IdleLine(n)
    BY <1>3
  <2>2. ~i_push(w) /\ ~i_pop(w) /\ i_idle_cycle_counter(w) = n
    BY <1>1, <2>1, IdleDecoded
  <2>3. x[1][2] = 0 /\ x[2][2] = n
    BY <2>1 DEF IdleLine
  <2>4. Shown(a) = Silent
    BY <1>2, <2>3 DEF Shown
  <2> QED
    BY <1>2, <2>2, <2>3, <2>4, NoPushShown
<1>4. CASE x = PopLine
  <2>1. ~i_push(w) /\ i_pop(w) /\ i_idle_cycle_counter(w) = 0
    BY <1>1, <1>4, PopDecoded
  <2>2. x[1][2] = 2
    BY <1>4 DEF PopLine
  <2>3. Shown(a) = [Silent EXCEPT !.pop = TRUE]
    BY <1>2, <2>2 DEF Shown
  <2>4. Outputs(w) = [Silent EXCEPT !.pop = TRUE]
    BY <2>1, NoPushShown
  <2>5. Outputs(w) = Shown(a)
    BY <2>3, <2>4
  <2>6. LineType(a) # 0
    BY <1>2, <2>2
  <2>7. (IF i_push(w) THEN 0 ELSE i_idle_cycle_counter(w)) = 0
    BY <2>1
  <2> QED
    BY <2>5, <2>6, <2>7
<1>5. CASE x \in {PushLine(t, m, p, q) :
                    t \in 0 .. AllOnes(TREE_NUM_BITS), m \in 0 .. AllOnes(MTW),
                    p \in 0 .. AllOnes(PTW), q \in 0 .. AllOnes(PTW)}
  <2>1. PICK t \in 0 .. AllOnes(TREE_NUM_BITS), m \in 0 .. AllOnes(MTW),
             p \in 0 .. AllOnes(PTW), q \in 0 .. AllOnes(PTW) : x = PushLine(t, m, p, q)
    BY <1>5
  <2>2. /\ i_push(w) /\ ~i_pop(w)
        /\ i_push_tree_id(w) = t /\ i_push_data(w) = m * 2 ^ PTW + p /\ i_push_priority(w) = q
    BY <1>1, <2>1, PushDecoded
  <2>3. x[1][2] = 1 /\ x[2][2] = t /\ x[3][2] = m /\ x[4][2] = p /\ x[5][2] = q
    BY <2>1 DEF PushLine
  <2>4. Shown(a) = [push |-> TRUE, pop |-> FALSE, priority |-> q, tree_id |-> t,
                    data |-> m * 2 ^ PTW + p]
    BY <1>2, <2>3 DEF Shown
  <2>5. Outputs(w) = [push |-> TRUE, pop |-> i_pop(w), priority |-> q, tree_id |-> t,
                      data |-> m * 2 ^ PTW + p]
    BY <2>2 DEF Outputs
  <2>6. i_pop(w) = FALSE
    BY <2>2 DEF i_pop
  <2> QED
    BY <1>2, <2>2, <2>3, <2>4, <2>5, <2>6
<1> QED
  BY <1>1, <1>3, <1>4, <1>5 DEF FittingLine

\* A cycle without a fetch shows nothing.
LEMMA ZeroIsSilent == Outputs(0) = Silent
<1>1. 0 = 0 * 2 ^ Rest + 0 /\ 0 < 2 ^ Rest
  BY Widths, PowerSucc
<1>2. ~i_push(0) /\ ~i_pop(0)
  BY <1>1, TypeBits
<1> QED
  BY <1>2, NoPushShown

ReplayInv == /\ Inv /\ lines \in Traces /\ mem = MemFile(lines)
             /\ out = IF gap = 0 THEN Shown(last) ELSE Silent

LEMMA ReplayStart ==
  ASSUME TracesFit, Init
  PROVE  ReplayInv
<1>1. Inv
  BY InitInv
<1>2. lines \in Traces /\ mem = MemFile(lines) /\ out = Silent /\ gap = 0 /\ last = ROM_SIZE
  BY DEF Init, NoAddr
<1>3. LineAt(last) = IdleLine(0)
  <2>1. Len(lines) <= ROM_SIZE /\ Len(lines) \in Nat
    BY <1>2 DEF TracesFit
  <2> QED
    BY <1>2, <2>1, RomAssumption DEF LineAt
<1>4. LineType(last) = 0
  BY <1>3 DEF LineType, IdleLine
<1>5. Shown(last) = Silent
  BY <1>4 DEF Shown
<1> QED
  BY <1>1, <1>2, <1>5 DEF ReplayInv

LEMMA ReplayTick ==
  ASSUME TracesFit, ReplayInv, Tick
  PROVE  ReplayInv'
<1>1. Inv' /\ lines' = lines /\ mem' = mem
  BY TickInv DEF ReplayInv, Tick
<1>2. lines' \in Traces /\ mem' = MemFile(lines')
  BY <1>1 DEF ReplayInv
<1>3. CASE read
  <2>1. /\ out' = Outputs(mem[read_addr]) /\ last' = read_addr /\ gap' = 0
        /\ read_addr \in 0 .. ROM_SIZE - 1
    BY <1>3 DEF Tick, i_trace_data, ReplayInv, Inv, TypeOK
  <2>2. Outputs(mem[read_addr]) = Shown(read_addr)
    BY <2>1, AddressDecoded DEF ReplayInv
  <2>3. Shown(last)' = Shown(read_addr)
    BY <1>1, <2>1 DEF Shown, LineType, LineAt
  <2> QED
    BY <1>1, <1>2, <2>1, <2>2, <2>3 DEF ReplayInv
<1>4. CASE ~read
  <2>1. out' = Outputs(0) /\ gap' = gap + 1 /\ gap \in Nat
    BY <1>4 DEF Tick, i_trace_data, ReplayInv, Inv, TypeOK
  <2>2. gap' # 0 /\ out' = Silent
    BY <2>1, ZeroIsSilent
  <2> QED
    BY <1>1, <1>2, <2>2 DEF ReplayInv, Silent
<1> QED
  BY <1>3, <1>4

LEMMA ReplayInvariance ==
  ASSUME TracesFit PROVE Spec => []ReplayInv
<1>1. Init => ReplayInv
  BY ReplayStart
<1>2. ReplayInv /\ [Next]_vars => ReplayInv'
  <2> SUFFICES ASSUME ReplayInv, [Next]_vars PROVE ReplayInv'
    OBVIOUS
  <2>1. CASE Tick
    BY <2>1, ReplayTick
  <2>2. CASE UNCHANGED vars
    BY <2>2 DEF vars, ReplayInv, Inv, TypeOK, WaitsAsAsked, Wait, NoAddr, Shown, LineType, LineAt, Silent
  <2> QED
    BY <2>1, <2>2 DEF Next
<1> QED
  BY <1>1, <1>2, PTL DEF Spec

(* trace2mem.py and TraceReader.sv agree on the format of a record: for    *)
(* all widths, and all traces whose numbers fit them, what the scheduler   *)
(* is shown is what the compiler wrote, line by line, with its waits.      *)
THEOREM ReplaysTheTrace ==
  ASSUME TracesFit PROVE Spec => []ReplayedAsWritten
<1>1. ReplayInv => ReplayedAsWritten
  <2> SUFFICES ASSUME ReplayInv PROVE ReplayedAsWritten
    OBVIOUS
  <2>1. ASSUME NEW a \in 0 .. ROM_SIZE - 1
        PROVE  Wait(a) = IF LineType(a) = 0 THEN LineAt(a)[2][2] ELSE 0
    <3>1. a # NoAddr
      BY RomAssumption DEF NoAddr
    <3>2. Wait(a) = IF i_push(mem[a]) THEN 0 ELSE i_idle_cycle_counter(mem[a])
      BY <3>1 DEF Wait
    <3> QED
      BY <3>2, AddressDecoded DEF ReplayInv
  <2> QED
    BY <2>1 DEF ReplayInv, ReplayedAsWritten
<1> QED
  BY <1>1, ReplayInvariance, PTL

(* TraceReader.sv, o_finish: for all widths and all traces it comes with   *)
(* the end line, with the pushes whose rank at the root ends like the idle *)
(* field of that line, and with nothing else.                              *)
THEOREM FinishesAsMarked ==
  ASSUME TracesFit, IDLECYCLE_BITS <= PTW PROVE Spec => []FinishAsMarked
<1>1. ReplayInv => FinishAsMarked
  <2> SUFFICES ASSUME ReplayInv, read
               PROVE  (i_idle_cycle_counter(mem[read_addr]) = AllOnes(IDLECYCLE_BITS))
                        <=> (LineAt(read_addr) = EndLine \/ LooksLikeEnd(read_addr))
    BY DEF FinishAsMarked, o_finish, i_trace_data
  <2> DEFINE w == mem[read_addr]
             x == LineAt(read_addr)
             e == AllOnes(IDLECYCLE_BITS)
  <2>1. x \in FittingLine /\ w = Word(Encode(x), TOTAL_WIDTH)
    BY LineFits DEF ReplayInv, Inv, TypeOK
  <2>2. e # 0
    <3>1. IDLECYCLE_BITS - 1 \in Nat /\ (IDLECYCLE_BITS - 1) + 1 = IDLECYCLE_BITS
      BY Widths
    <3>2. 2 ^ IDLECYCLE_BITS = 2 * 2 ^ (IDLECYCLE_BITS - 1) /\ 2 ^ (IDLECYCLE_BITS - 1) \in Nat \ {0}
      BY <3>1, PowerSucc
    <3> DEFINE y == 2 ^ (IDLECYCLE_BITS - 1)
    <3>3. y \in Nat \ {0} /\ e = 2 * y - 1
      BY <3>2 DEF AllOnes
    <3> HIDE DEF y, e
    <3> QED
      BY <3>3
  <2>3. EndLine = IdleLine(e)
    BY DEF EndLine, AllOnes
  <2>4. CASE x \in {IdleLine(n) : n \in 0 .. AllOnes(IDLECYCLE_BITS)}
    <3>1. PICK n \in 0 .. AllOnes(IDLECYCLE_BITS) : x = IdleLine(n)
      BY <2>4
    <3>2. i_idle_cycle_counter(w) = n
      BY <2>1, <3>1, IdleDecoded
    <3>3. x[1][2] = 0 /\ x[2][2] = n /\ EndLine[2][2] = e
      BY <2>3, <3>1 DEF IdleLine
    <3>4. (x = EndLine) <=> (n = e)
      BY <2>3, <3>1, <3>3
    <3> QED
      BY <3>2, <3>3, <3>4 DEF LooksLikeEnd, LineType
  <2>5. CASE x = PopLine
    <3>1. i_idle_cycle_counter(w) = 0
      BY <2>1, <2>5, PopDecoded
    <3>2. x[1][2] = 2 /\ EndLine[1][2] = 0
      BY <2>3, <2>5 DEF PopLine, IdleLine
    <3> QED
      BY <2>2, <3>1, <3>2 DEF LooksLikeEnd, LineType
  <2>6. CASE x \in {PushLine(t, m, p, q) :
                      t \in 0 .. AllOnes(TREE_NUM_BITS), m \in 0 .. AllOnes(MTW),
                      p \in 0 .. AllOnes(PTW), q \in 0 .. AllOnes(PTW)}
    <3>1. PICK t \in 0 .. AllOnes(TREE_NUM_BITS), m \in 0 .. AllOnes(MTW),
               p \in 0 .. AllOnes(PTW), q \in 0 .. AllOnes(PTW) : x = PushLine(t, m, p, q)
      BY <2>6
    <3>2. i_idle_cycle_counter(w) = q % 2 ^ IDLECYCLE_BITS
      BY <2>1, <3>1, PushDecoded
    <3>3. x[1][2] = 1 /\ x[5][2] = q /\ EndLine[1][2] = 0
      BY <2>3, <3>1 DEF PushLine, IdleLine
    <3> QED
      BY <3>2, <3>3 DEF LooksLikeEnd, LineType
  <2> QED
    BY <2>1, <2>4, <2>5, <2>6 DEF FittingLine
<1> QED
  BY <1>1, ReplayInvariance, PTL
=============================================================================
