--------------------------- MODULE DPDKScheduler ---------------------------
(***************************************************************************)
(* The software scheduler of the DPDK experiment: one core receives, one   *)
(* sorts packets into flow rings, one for each node merges the node's      *)
(* flows, one merges the nodes, one for each port transmits.  The cores    *)
(* share nothing but rings, the counters of the output queues and          *)
(* force_quit.                                                             *)
(***************************************************************************)
EXTENDS Integers, Sequences, FiniteSets

CONSTANTS
  NODES, FLOWS,     \* two nodes and three flows of each
  Mbuf, NoMbuf,     \* the buffers of the pool; a pointer to none of them
  RingCap,          \* packets that a ring holds
  BURST,            \* burst_size_rx_read
  NODE_LIMIT, TX_LIMIT, QLEN_LIMIT,  \* the 20, 20 and 10000 of the loops
  WORD,             \* 2^32, where the unsigned counters wrap
  HostPort, DefaultPort,             \* app.port and app.default_port
  intra_node, inter_node,            \* policies
  SP_priority, WFQ_weight,   \* of <<"flow", f>> and <<"node", n>>, from 1 on
  pFabric_size,              \* of a flow
  Arrivals,         \* the traffic: records of a port, a flow and a length
  Signals,          \* the signals that may come: SIGINT and SIGTERM, or none
  MaxArrivals       \* bound: packets received in a run

Port == 0 .. 1
Node == 0 .. NODES - 1
Flow == 0 .. NODES * FLOWS - 1
NoFlow == NODES * FLOWS  \* of a packet that belongs to none of the flows
FlowsOf(n) == FLOWS * n .. FLOWS * n + FLOWS - 1

ASSUME PoolAssumption == IsFiniteSet(Mbuf) /\ NoMbuf \notin Mbuf
ASSUME SizeAssumption ==
  /\ NODES \in Nat \ {0} /\ FLOWS \in Nat \ {0} /\ MaxArrivals \in Nat
  /\ RingCap \in Nat \ {0} /\ BURST \in Nat \ {0}
  /\ NODE_LIMIT \in Nat /\ TX_LIMIT \in Nat /\ QLEN_LIMIT \in Nat /\ WORD \in Nat \ {0}
ASSUME PortAssumption == HostPort \in Port /\ DefaultPort \in Port
ASSUME PolicyAssumption ==
  /\ intra_node \in {"SP", "WFQ", "pFabric"} /\ inter_node \in {"SP", "WFQ"}
  /\ intra_node = "pFabric" => FLOWS = 3
\* The priorities of a node's flows, and of the nodes, number them from 1 on.
ASSUME PriorityAssumption ==
  /\ \A n \in Node : \A i \in 1 .. FLOWS : \E r \in {"flow"} \X FlowsOf(n) : SP_priority[r] = i
  /\ \A i \in 1 .. NODES : \E r \in {"node"} \X Node : SP_priority[r] = i
ASSUME WeightAssumption ==
  /\ \A r \in ({"flow"} \X Flow) \cup ({"node"} \X Node) : WFQ_weight[r] \in Nat \ {0}
  /\ pFabric_size \in [Flow -> Int]
\* A ring is created for a single producer.  The output ring of DefaultPort
\* has two, the classifier and the forwarder, when the traffic has packets
\* outside the flows as well as packets of the flows; here one of the two is
\* absent.
ASSUME SingleProducerAssumption ==
  /\ HostPort # DefaultPort
  /\ Arrivals \subseteq [port : Port, flow : Flow \cup {NoFlow}, len : Nat \ {0}]
  /\ \/ \A a \in Arrivals : a.port = HostPort => a.flow # NoFlow
     \/ \A a \in Arrivals : a.port = HostPort => a.flow = NoFlow

\* Who holds packets: rings, and the arrays in which cores carry them.
Ring  == ({"rx", "tx"} \X Port) \cup ({"flow"} \X Flow) \cup ({"node"} \X Node)
Merged == ({"flow"} \X Flow) \cup ({"node"} \X Node)
Array == {<<"rx array", 0>>, <<"rx2flows array", 0>>, <<"forwarding array", 0>>}
           \cup ({"node array"} \X Node) \cup ({"tx array"} \X Port)
Holder == Ring \cup Array
rxArray  == <<"rx array", 0>>
r2fArray == <<"rx2flows array", 0>>
fwdArray == <<"forwarding array", 0>>

NoPort == 2
Forwarding == NODES \* the last merging core, after those of the nodes

VARIABLES
  pool,             \* free buffers
  held,             \* what every ring and array holds
  pkt,              \* what arrived in a buffer: port, flow, number and pkt_len
  rx_port, r2f_port,\* the ports at which the loops of rx and rx2flows are
  plan,             \* of each merging core: the rings its call has yet to try
  size_left,        \* pFabric_size, which pFabric counts down
  r2f_count, fwd_count,  \* the port and buffer that a packet_enqueue has handed
                    \* over and not counted; history: its number and length then
  tx_counted,       \* whether a transmitting core has counted its packet out
  qlen_in, qlen_out,\* bytes counted into and out of each output queue
  force_quit,
  arrived,          \* history: packets received
  sent,             \* history: the packets sent, in order
  misread,          \* history: bytes counted into each output queue beyond
                    \* those of the packets that went there
  passed            \* history: of each ring of a flow or node, how often
                    \* another ring was served since it was or became filled

loopVars == <<rx_port, r2f_port, plan, size_left, r2f_count, fwd_count, tx_counted>>
vars == <<pool, held, pkt, loopVars, qlen_in, qlen_out, force_quit, arrived, sent, misread, passed>>

Blank == [port |-> 0, flow |-> NoFlow, no |-> 0, len |-> 0]  \* an unused buffer

\* No packet_enqueue is under way.
NoCount == [port |-> NoPort, mbuf |-> NoMbuf, no |-> 0, len |-> 0]

Init ==
  /\ pool = Mbuf /\ held = [h \in Holder |-> << >>]
  /\ pkt = [m \in Mbuf |-> Blank]
  /\ rx_port = 0 /\ r2f_port = 0
  /\ plan = [c \in 0 .. NODES |-> << >>]
  /\ size_left = pFabric_size
  /\ r2f_count = NoCount /\ fwd_count = NoCount /\ tx_counted = [p \in Port |-> FALSE]
  /\ qlen_in = [p \in Port |-> 0] /\ qlen_out = [p \in Port |-> 0]
  /\ force_quit = FALSE
  /\ arrived = 0 /\ sent = << >> /\ misread = [p \in Port |-> 0]
  /\ passed = [r \in Merged |-> 0]

\* Mutant: a core looks at force_quit no more.
Loops_ever(array) == held[array] = << >>

\* A core goes round its loop again only if nobody has asked it to quit.
Loops(array) == held[array] = << >> /\ ~force_quit

\* Mutant: the index of the port does not return to 0.
NextPort_on(p) == p + 1

NextPort(p) == (p + 1) % 2

\* Mutant: the newest packet is taken.
Dequeue_newest(ring, array) ==
  /\ held[ring] # << >>
  /\ LET n == Len(held[ring])
     IN  held' = [held EXCEPT ![ring] = SubSeq(@, 1, n - 1), ![array] = <<held[ring][n]>>]

\* rte_ring_sc_dequeue of a ring that is not empty.
Dequeue(ring, array) ==
  /\ held[ring] # << >>
  /\ held' = [held EXCEPT ![ring] = Tail(@), ![array] = <<Head(held[ring])>>]

\* Mutant: the packet stays in the array as well.
Enqueue_keeps(array, ring) ==
  /\ held[array] # << >>
  /\ held' = [held EXCEPT ![ring] = IF Len(@) < RingCap THEN Append(@, Head(held[array])) ELSE @]

\* rte_ring_sp_enqueue with its result ignored: a full ring drops the packet,
\* which nobody frees.
Enqueue(array, ring) ==
  /\ held[array] # << >>
  /\ held' = [held EXCEPT ![array] = << >>,
                ![ring] = IF Len(@) < RingCap THEN Append(@, Head(held[array])) ELSE @]

-----------------------------------------------------------------------------
(* receive.c *)
\* Up to BURST packets arrive at the port polled; the adapter has put each
\* into a buffer of the pool.
ReceiveBurst ==
  /\ Loops(rxArray)
  /\ \E n \in 1 .. BURST : \E s \in [1 .. n -> pool], a \in [1 .. n -> Arrivals] :
       /\ arrived + n <= MaxArrivals
       /\ \A i, j \in 1 .. n : i # j => s[i] # s[j]
       /\ \A i \in 1 .. n : a[i].port = rx_port
       /\ held' = [held EXCEPT ![rxArray] = s]
       /\ pool' = pool \ {s[i] : i \in 1 .. n}
       /\ pkt' = [m \in Mbuf |->
            IF \E i \in 1 .. n : s[i] = m
            THEN LET i == CHOOSE i \in 1 .. n : s[i] = m
                 IN  [port |-> rx_port, flow |-> a[i].flow, no |-> arrived + i, len |-> a[i].len]
            ELSE pkt[m]]
       /\ arrived' = arrived + n
  /\ UNCHANGED <<loopVars, qlen_in, qlen_out, force_quit, sent, misread, passed>>

ReceiveNothing ==
  /\ Loops(rxArray)
  /\ rx_port' = NextPort(rx_port)
  /\ UNCHANGED <<pool, held, pkt, r2f_port, plan, size_left, r2f_count, fwd_count, tx_counted,
                 qlen_in, qlen_out, force_quit, arrived, sent, misread, passed>>

\* The whole burst goes into the ring or, for lack of room, is tried again
\* for ever: this inner loop does not look at force_quit.
RxEnqueue ==
  /\ held[rxArray] # << >>
  /\ Len(held[<<"rx", rx_port>>]) + Len(held[rxArray]) <= RingCap
  /\ held' = [held EXCEPT ![<<"rx", rx_port>>] = @ \o held[rxArray], ![rxArray] = << >>]
  /\ rx_port' = NextPort(rx_port)
  /\ UNCHANGED <<pool, pkt, r2f_port, plan, size_left, r2f_count, fwd_count, tx_counted,
                 qlen_in, qlen_out, force_quit, arrived, sent, misread, passed>>

-----------------------------------------------------------------------------
(* rx2flows.c *)
Rx2FlowsPoll ==
  /\ Loops(r2fArray) /\ r2f_count = NoCount
  /\ \/ /\ Dequeue(<<"rx", r2f_port>>, r2fArray) /\ UNCHANGED r2f_port
     \/ /\ held[<<"rx", r2f_port>>] = << >>
        /\ r2f_port' = NextPort(r2f_port) /\ UNCHANGED held
  /\ UNCHANGED <<pool, pkt, rx_port, plan, size_left, r2f_count, fwd_count, tx_counted,
                 qlen_in, qlen_out, force_quit, arrived, sent, misread, passed>>

\* The output port of a packet that does not go through the scheduler.
Bypass == IF r2f_port # HostPort THEN HostPort ELSE DefaultPort

Scheduled(m) == r2f_port = HostPort /\ pkt[m].flow # NoFlow

Rx2FlowsFlow ==
  /\ held[r2fArray] # << >>
  /\ LET m == Head(held[r2fArray])
     IN  Scheduled(m) /\ Enqueue(r2fArray, <<"flow", pkt[m].flow>>)
  /\ r2f_port' = NextPort(r2f_port)
  /\ UNCHANGED <<pool, pkt, rx_port, plan, size_left, r2f_count, fwd_count, tx_counted,
                 qlen_in, qlen_out, force_quit, arrived, sent, misread, passed>>

\* packet_enqueue: into the ring first, then the counters.  The length that is
\* counted is read from the buffer when it is counted, by a core that no longer
\* owns the buffer: the packet may have been sent and another may have come in.
Handed(m, p) == [port |-> p, mbuf |-> m, no |-> pkt[m].no, len |-> pkt[m].len]

CountIn(c) ==
  /\ qlen_in' = [qlen_in EXCEPT ![c.port] = (@ + pkt[c.mbuf].len) % WORD]
  /\ misread' = [misread EXCEPT ![c.port] = @ + (pkt[c.mbuf].len - c.len)]

Rx2FlowsTx ==
  /\ held[r2fArray] # << >>
  /\ LET m == Head(held[r2fArray])
     IN  /\ ~Scheduled(m)
         /\ Enqueue(r2fArray, <<"tx", Bypass>>)
         /\ r2f_count' = Handed(m, Bypass)
  /\ UNCHANGED <<pool, pkt, rx_port, r2f_port, plan, size_left, fwd_count, tx_counted,
                 qlen_in, qlen_out, force_quit, arrived, sent, misread, passed>>

Rx2FlowsCount ==
  /\ r2f_count # NoCount
  /\ CountIn(r2f_count)
  /\ r2f_count' = NoCount
  /\ r2f_port' = NextPort(r2f_port)
  /\ UNCHANGED <<pool, held, pkt, rx_port, plan, size_left, fwd_count, tx_counted,
                 qlen_out, force_quit, arrived, sent, passed>>

-----------------------------------------------------------------------------
(* The policies.  A call of flows2nodes_* or forward_* tries rings one     *)
(* after another, each up to a number of times.                            *)
Try(ring, times) == [ring |-> ring, times |-> times]

PlanSP(rings, n) ==
  [i \in 1 .. n |-> Try(CHOOSE r \in rings : SP_priority[r] = i, 1)]

\* Mutant: one packet more than the weight.
PlanWFQ_more(first, n) == [i \in 1 .. n |->
  LET r == <<first[1], first[2] + i - 1>> IN Try(r, WFQ_weight[r] + 1)]

\* Mutant: the last ring is never tried.
PlanWFQ_short(first, n) == [i \in 1 .. n - 1 |->
  LET r == <<first[1], first[2] + i - 1>> IN Try(r, WFQ_weight[r])]

PlanWFQ(first, n) == [i \in 1 .. n |->
  LET r == <<first[1], first[2] + i - 1>> IN Try(r, WFQ_weight[r])]

\* The flow with the least left, and the one after it.
PlanPFabric(n) ==
  LET least == CHOOSE f \in FlowsOf(n) :
                 \A g \in FlowsOf(n) : size_left[f] < size_left[g] \/ (size_left[f] = size_left[g] /\ f <= g)
  IN  <<Try(<<"flow", least>>, 1), Try(<<"flow", FLOWS * n + ((least - FLOWS * n + 1) % FLOWS)>>, 1)>>

IntraPlan(n) ==
  IF intra_node = "SP" THEN PlanSP({"flow"} \X FlowsOf(n), FLOWS)
  ELSE IF intra_node = "WFQ" THEN PlanWFQ(<<"flow", FLOWS * n>>, FLOWS) ELSE PlanPFabric(n)

InterPlan ==
  IF inter_node = "SP" THEN PlanSP({"node"} \X Node, NODES) ELSE PlanWFQ(<<"node", 0>>, NODES)

\* After a packet was taken and passed on: WFQ goes on with the ring until
\* its share is used, the others are done.
AfterPacket(policy, p) ==
  IF policy # "WFQ" THEN << >>
  ELSE IF Head(p).times > 1 THEN <<Try(Head(p).ring, Head(p).times - 1)>> \o Tail(p)
  ELSE Tail(p)

policy(ring) == IF ring[1] = "node" THEN inter_node ELSE intra_node

\* The rings merged into the same ring as this one, without those that strict
\* priority puts after it.
Rivals(ring) ==
  LET all == IF ring[1] = "node" THEN {"node"} \X Node ELSE {"flow"} \X FlowsOf(ring[2] \div FLOWS)
  IN  {r \in all \ {ring} : policy(ring) = "SP" => SP_priority[r] < SP_priority[ring]}

\* ring is served: the filled rings that compete with it are passed over.
Serve(ring) ==
  passed' = [r \in Merged |->
    IF r = ring THEN 0
    ELSE IF r \in Rivals(ring) /\ held[r] # << >> THEN passed[r] + 1 ELSE passed[r]]

-----------------------------------------------------------------------------
(* flows2nodes.c *)
NodeCall(n) ==
  /\ Loops(<<"node array", n>>) /\ plan[n] = << >>
  /\ Len(held[<<"node", n>>]) < NODE_LIMIT
  /\ plan' = [plan EXCEPT ![n] = IntraPlan(n)]
  /\ UNCHANGED <<pool, held, pkt, rx_port, r2f_port, size_left, r2f_count, fwd_count, tx_counted,
                 qlen_in, qlen_out, force_quit, arrived, sent, misread, passed>>

NodeTry(n) ==
  /\ plan[n] # << >> /\ held[<<"node array", n>>] = << >>
  /\ LET ring == Head(plan[n]).ring
     IN  \/ /\ held[ring] = << >>
            /\ plan' = [plan EXCEPT ![n] = Tail(@)]
            /\ UNCHANGED <<held, size_left, passed>>
         \/ /\ Dequeue(ring, <<"node array", n>>)
            /\ size_left' = [size_left EXCEPT ![ring[2]] = 
                 IF intra_node = "pFabric" THEN @ - pkt[Head(held[ring])].len ELSE @]
            /\ Serve(ring) /\ UNCHANGED plan
  /\ UNCHANGED <<pool, pkt, rx_port, r2f_port, r2f_count, fwd_count, tx_counted,
                 qlen_in, qlen_out, force_quit, arrived, sent, misread>>

NodePut(n) ==
  /\ Enqueue(<<"node array", n>>, <<"node", n>>)
  /\ plan' = [plan EXCEPT ![n] = AfterPacket(intra_node, @)]
  /\ UNCHANGED <<pool, pkt, rx_port, r2f_port, size_left, r2f_count, fwd_count, tx_counted,
                 qlen_in, qlen_out, force_quit, arrived, sent, misread, passed>>

-----------------------------------------------------------------------------
(* forwarding.c *)
\* An unsigned difference of counters that the cores do not update together.
get_qlen_bytes(p) == (qlen_in[p] - qlen_out[p]) % WORD

ForwardCall ==
  /\ Loops(fwdArray) /\ plan[Forwarding] = << >> /\ fwd_count = NoCount
  /\ Len(held[<<"tx", DefaultPort>>]) < TX_LIMIT /\ get_qlen_bytes(DefaultPort) < QLEN_LIMIT
  /\ plan' = [plan EXCEPT ![Forwarding] = InterPlan]
  /\ UNCHANGED <<pool, held, pkt, rx_port, r2f_port, size_left, r2f_count, fwd_count, tx_counted,
                 qlen_in, qlen_out, force_quit, arrived, sent, misread, passed>>

ForwardTry ==
  /\ plan[Forwarding] # << >> /\ held[fwdArray] = << >> /\ fwd_count = NoCount
  /\ LET ring == Head(plan[Forwarding]).ring
     IN  \/ /\ held[ring] = << >>
            /\ plan' = [plan EXCEPT ![Forwarding] = Tail(@)]
            /\ UNCHANGED <<held, passed>>
         \/ Dequeue(ring, fwdArray) /\ Serve(ring) /\ UNCHANGED plan
  /\ UNCHANGED <<pool, pkt, rx_port, r2f_port, size_left, r2f_count, fwd_count, tx_counted,
                 qlen_in, qlen_out, force_quit, arrived, sent, misread>>

\* packet_enqueue
ForwardTx ==
  /\ Enqueue(fwdArray, <<"tx", DefaultPort>>)
  /\ fwd_count' = Handed(Head(held[fwdArray]), DefaultPort)
  /\ UNCHANGED <<pool, pkt, rx_port, r2f_port, plan, size_left, r2f_count, tx_counted,
                 qlen_in, qlen_out, force_quit, arrived, sent, misread, passed>>

ForwardCount ==
  /\ fwd_count # NoCount
  /\ CountIn(fwd_count)
  /\ fwd_count' = NoCount
  /\ plan' = [plan EXCEPT ![Forwarding] = AfterPacket(inter_node, @)]
  /\ UNCHANGED <<pool, held, pkt, rx_port, r2f_port, size_left, r2f_count, tx_counted,
                 qlen_out, force_quit, arrived, sent, passed>>

-----------------------------------------------------------------------------
(* transmit.c, for bursts of one packet and tokens to spare. *)
txArray(p) == <<"tx array", p>>

TxDequeue(p) ==
  /\ Loops(txArray(p))
  /\ Dequeue(<<"tx", p>>, txArray(p))
  /\ UNCHANGED <<pool, pkt, loopVars, qlen_in, qlen_out, force_quit, arrived, sent, misread, passed>>

\* Mutant: packets are counted out twice.
TxCount_again(p) ==
  /\ held[txArray(p)] # << >>
  /\ qlen_out' = [qlen_out EXCEPT ![p] = (@ + pkt[Head(held[txArray(p)])].len) % WORD]
  /\ tx_counted' = [tx_counted EXCEPT ![p] = TRUE]
  /\ UNCHANGED <<pool, held, pkt, rx_port, r2f_port, plan, size_left, r2f_count, fwd_count,
                 qlen_in, force_quit, arrived, sent, misread, passed>>

TxCount(p) ==
  /\ held[txArray(p)] # << >> /\ ~tx_counted[p]
  /\ qlen_out' = [qlen_out EXCEPT ![p] = (@ + pkt[Head(held[txArray(p)])].len) % WORD]
  /\ tx_counted' = [tx_counted EXCEPT ![p] = TRUE]
  /\ UNCHANGED <<pool, held, pkt, rx_port, r2f_port, plan, size_left, r2f_count, fwd_count,
                 qlen_in, force_quit, arrived, sent, misread, passed>>

\* The adapter takes the packet, sends it and frees the buffer; pkt_len stays
\* in it until the next packet arrives there.
TxSend(p) ==
  /\ tx_counted[p]
  /\ LET m == Head(held[txArray(p)])
     IN  /\ sent' = Append(sent, [port |-> pkt[m].port, flow |-> pkt[m].flow, no |-> pkt[m].no, out |-> p])
         /\ pkt' = [pkt EXCEPT ![m] = [Blank EXCEPT !.len = pkt[m].len]]
         /\ pool' = pool \cup {m}
  /\ held' = [held EXCEPT ![txArray(p)] = << >>]
  /\ tx_counted' = [tx_counted EXCEPT ![p] = FALSE]
  /\ UNCHANGED <<rx_port, r2f_port, plan, size_left, r2f_count, fwd_count,
                 qlen_in, qlen_out, force_quit, arrived, misread, passed>>

-----------------------------------------------------------------------------
(* main.c *)
signal_handler ==
  /\ Signals # {} /\ ~force_quit /\ force_quit' = TRUE
  /\ UNCHANGED <<pool, held, pkt, loopVars, qlen_in, qlen_out, arrived, sent, misread, passed>>

\* A core is between two turns of its loop, which it leaves there for good if
\* force_quit is set.
AtLoopHead(array) ==
  /\ held[array] = << >>
  /\ array = r2fArray => r2f_count = NoCount
  /\ array = fwdArray => fwd_count = NoCount /\ plan[Forwarding] = << >>
  /\ \A n \in Node : array = <<"node array", n>> => plan[n] = << >>

RxStep   == ReceiveBurst \/ ReceiveNothing \/ RxEnqueue
R2fStep  == Rx2FlowsPoll \/ Rx2FlowsFlow \/ Rx2FlowsTx \/ Rx2FlowsCount
NodeStep(n) == NodeCall(n) \/ NodeTry(n) \/ NodePut(n)
FwdStep  == ForwardCall \/ ForwardTry \/ ForwardTx \/ ForwardCount
TxStep(p) == TxDequeue(p) \/ TxCount(p) \/ TxSend(p)

Next ==
  \/ RxStep \/ R2fStep \/ FwdStep
  \/ \E n \in Node : NodeStep(n)
  \/ \E p \in Port : TxStep(p)
  \/ signal_handler

\* Every core runs on a processor of its own and keeps going round its loop.
Fairness ==
  /\ WF_vars(RxStep) /\ WF_vars(R2fStep) /\ WF_vars(FwdStep)
  /\ \A n \in Node : WF_vars(NodeStep(n))
  /\ \A p \in Port : WF_vars(TxStep(p))

Spec == Init /\ [][Next]_vars /\ Fairness

-----------------------------------------------------------------------------
(* Properties *)
Record == [port : Port, flow : Flow \cup {NoFlow}, no : Nat, len : Nat]
Count  == [port : Port, mbuf : Mbuf, no : Nat, len : Nat]

\* The types of the variables: the scheduler stays within its ports, rings and
\* flows, and a merging core tries only rings that belong to it.
TypeOK ==
  /\ pool \subseteq Mbuf /\ held \in [Holder -> Seq(Mbuf)]
  /\ pkt \in [Mbuf -> Record]
  /\ rx_port \in Port /\ r2f_port \in Port
  /\ DOMAIN plan = 0 .. NODES
  /\ \A n \in Node : plan[n] \in Seq([ring : {"flow"} \X FlowsOf(n), times : Nat])
  /\ plan[Forwarding] \in Seq([ring : {"node"} \X Node, times : Nat])
  /\ size_left \in [Flow -> Int]
  /\ r2f_count \in Count \cup {NoCount} /\ fwd_count \in Count \cup {NoCount}
  /\ tx_counted \in [Port -> BOOLEAN]
  /\ qlen_in \in [Port -> 0 .. WORD - 1] /\ qlen_out \in [Port -> 0 .. WORD - 1]
  /\ force_quit \in BOOLEAN
  /\ arrived \in Nat /\ sent \in Seq([port : Port, flow : Flow \cup {NoFlow}, no : Nat, out : Port])
  /\ misread \in [Port -> Int] /\ passed \in [Merged -> Nat]

\* No buffer is in two places: not twice in rings and arrays, and not free
\* while a ring or an array still holds it.
BuffersDistinct ==
  /\ \A h, k \in Holder : \A i \in DOMAIN held[h], j \in DOMAIN held[k] :
       held[h][i] = held[k][j] => h = k /\ i = j
  /\ \A h \in Holder : \A i \in DOMAIN held[h] : held[h][i] \notin pool

\* No buffer is lost, although nobody looks at the result of an enqueue and
\* nobody frees a packet that found no room.
BuffersKept ==
  \A m \in Mbuf : m \in pool \/ \E h \in Holder : \E i \in DOMAIN held[h] : held[h][i] = m

\* Every buffer is in exactly one place (with a pool no larger than a ring).
BuffersAccounted == BuffersDistinct /\ BuffersKept

\* The bytes of the packets in a ring or array, with k the contents of the
\* buffers.
Bytes(k, q) ==
  LET sum[n \in 0 .. Len(q)] == IF n = 0 THEN 0 ELSE sum[n - 1] + k[q[n]].len
  IN  sum[Len(q)]

\* Bytes that were put into the output ring of p and are yet to be counted in,
\* and bytes that were taken from it and are yet to be counted out.
Uncounted(p) == (IF r2f_count.port = p THEN r2f_count.len ELSE 0)
                  + (IF fwd_count.port = p THEN fwd_count.len ELSE 0)
Unsent(p)    == IF tx_counted[p] THEN 0 ELSE Bytes(pkt, held[txArray(p)])

SentNumbers == {sent[i].no : i \in DOMAIN sent}

\* The queue length that the forwarder reads is that of the output ring, but
\* for packets that a core has moved and not yet counted (it can lie below
\* zero, which get_qlen_bytes makes a huge number), and for what was misread;
\* and a length can be misread only after the packet has left by its port
\* and its buffer has been used for another.
QlenTracksRing ==
  /\ \A p \in Port : get_qlen_bytes(p) =
       (Bytes(pkt, held[<<"tx", p>>]) + Unsent(p) - Uncounted(p) + misread[p]) % WORD
  /\ \A c \in {r2f_count, fwd_count} : c # NoCount /\ pkt[c.mbuf].len # c.len =>
       c.no \in SentNumbers /\ pkt[c.mbuf].no # c.no

\* Packets of a flow leave in the order of their arrival, through all the
\* rings and cores, and never by the port they came from.
FlowOrder ==
  /\ \A i, j \in DOMAIN sent :
       i < j /\ sent[i].port = sent[j].port /\ sent[i].flow = sent[j].flow => sent[i].no < sent[j].no
  /\ \A i \in DOMAIN sent : sent[i].out # sent[i].port

\* A ring with a packet is not passed over for long: with strict priority at
\* most one packet of a ring behind it goes first (the one for which the core
\* had already found this ring empty), with WFQ at most the other rings' shares.
MostPassed(ring) ==
  LET others == Rivals(ring)
      total[S \in SUBSET others] ==
        IF S = {} THEN 0 ELSE LET r == CHOOSE r \in S : TRUE IN WFQ_weight[r] + total[S \ {r}]
  IN  IF policy(ring) = "WFQ" THEN total[others] ELSE 1
SharesKept == \A ring \in Merged : policy(ring) # "pFabric" => passed[ring] <= MostPassed(ring)

\* What was misread closes the forwarder's guard even when the output queue is
\* empty, so for ever.
Shut == misread[DefaultPort] % WORD >= QLEN_LIMIT

\* Every packet received is sent, unless the program is stopped: with traffic
\* that ends, there comes a time when all that arrived has left, save what
\* waits for a forwarder that misread lengths have shut.
EveryPacketSent ==
  []<>(\/ force_quit
       \/ \A no \in (1 .. arrived) \ SentNumbers :
            Shut /\ \E r \in Merged : \E i \in DOMAIN held[r] : pkt[held[r][i]].no = no)

\* After a signal every core comes to the head of its loop and leaves: from some
\* time on, a program that has been told to quit has no core at work.
Quits == <>[](force_quit => \A array \in Array : AtLoopHead(array))
=============================================================================
