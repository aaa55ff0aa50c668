------------------------ MODULE DPDKSchedulerProofs ------------------------
(***************************************************************************)
(* For every number of nodes, flows and buffers, every policy and every    *)
(* traffic: the types of the DPDK scheduler, that no ring is passed over   *)
(* more often than its policy allows, and, as long as a ring can take the  *)
(* whole pool, that the scheduler neither loses nor duplicates a buffer,   *)
(* that the queue lengths it keeps are those of the rings, and that the    *)
(* packets of a flow leave in the order in which they came.                *)
(***************************************************************************)
EXTENDS DPDKScheduler, ArithmeticLemmas, SequenceTheorems

\* No buffer is in two places of h, and none of h's is in p.
Distinct(h, p) ==
  /\ \A a, b \in DOMAIN h : \A i \in DOMAIN h[a], j \in DOMAIN h[b] :
       h[a][i] = h[b][j] => a = b /\ i = j
  /\ \A a \in DOMAIN h : \A i \in DOMAIN h[a] : h[a][i] \notin p

\* Every buffer of M is in p or in a place of h.
Kept(h, p, M) == \A m \in M : m \in p \/ \E a \in DOMAIN h : \E i \in DOMAIN h[a] : h[a][i] = m

\* The k elements of a go behind the n of b; the n elements of b come from p.
Poured(H, h, g, a, b, n, k) ==
  /\ a \in H /\ b \in H /\ a # b /\ n \in Nat /\ k \in Nat
  /\ DOMAIN h = H /\ DOMAIN g = H /\ DOMAIN h[a] = 1 .. k /\ DOMAIN h[b] = 1 .. n
  /\ DOMAIN g[a] = {} /\ DOMAIN g[b] = 1 .. n + k
  /\ \A i \in 1 .. n : g[b][i] = h[b][i]
  /\ \A i \in n + 1 .. n + k : g[b][i] = h[a][i - n]
  /\ \A c \in H \ {a, b} : g[c] = h[c]

Filling(H, h, g, p, q, b, n) ==
  /\ b \in H /\ n \in Nat
  /\ DOMAIN h = H /\ DOMAIN g = H /\ DOMAIN h[b] = {} /\ DOMAIN g[b] = 1 .. n
  /\ \A i \in 1 .. n : g[b][i] \in p
  /\ \A i, j \in 1 .. n : i # j => g[b][i] # g[b][j]
  /\ \A c \in H \ {b} : g[c] = h[c]
  /\ q = p \ {g[b][i] : i \in 1 .. n}

-----------------------------------------------------------------------------
(* Moving packets between the places of a function h.                      *)

\* One element moves from the front of one holder to an empty other.
LEMMA TakenDistinct ==
  ASSUME NEW H, NEW h, NEW g, NEW p, NEW a \in H, NEW b \in H, a # b, NEW n \in Nat \ {0},
         DOMAIN h = H, DOMAIN g = H, DOMAIN h[a] = 1 .. n,
         DOMAIN g[b] = {1}, g[b][1] = h[a][1],
         DOMAIN g[a] = 1 .. n - 1, \A i \in 1 .. n - 1 : g[a][i] = h[a][i + 1],
         \A c \in H \ {a, b} : g[c] = h[c],
         Distinct(h, p)
  PROVE  Distinct(g, p)
<1> DEFINE From(c, i) == IF c = b THEN a ELSE c
           At(c, i)   == IF c = a THEN i + 1 ELSE i
<1>1. ASSUME NEW c \in H, NEW i \in DOMAIN g[c]
      PROVE  /\ From(c, i) \in H /\ At(c, i) \in DOMAIN h[From(c, i)]
             /\ g[c][i] = h[From(c, i)][At(c, i)]
  <2>1. CASE c = a
    BY <1>1, <2>1
  <2>2. CASE c = b
    BY <1>1, <2>2
  <2>3. CASE c # a /\ c # b
    BY <1>1, <2>3
  <2> QED
    BY <2>1, <2>2, <2>3
<1>2. ASSUME NEW c \in H, NEW i \in DOMAIN g[c], NEW d \in H, NEW j \in DOMAIN g[d],
             From(c, i) = From(d, j), At(c, i) = At(d, j)
      PROVE  c = d /\ i = j
  BY <1>2
<1> HIDE DEF From, At
<1>3. ASSUME NEW c \in H, NEW i \in DOMAIN g[c], NEW d \in H, NEW j \in DOMAIN g[d], g[c][i] = g[d][j]
      PROVE  c = d /\ i = j
  <2>1. From(c, i) = From(d, j) /\ At(c, i) = At(d, j)
    BY <1>1, <1>3 DEF Distinct
  <2> QED
    BY <1>2, <2>1
<1>4. ASSUME NEW c \in H, NEW i \in DOMAIN g[c]
      PROVE  g[c][i] \notin p
  BY <1>1, <1>4 DEF Distinct
<1> QED
  BY <1>3, <1>4 DEF Distinct

LEMMA TakenKept ==
  ASSUME NEW H, NEW h, NEW g, NEW p, NEW M, NEW a \in H, NEW b \in H, a # b, NEW n \in Nat \ {0},
         DOMAIN h = H, DOMAIN g = H, DOMAIN h[a] = 1 .. n, DOMAIN h[b] = {},
         DOMAIN g[b] = {1}, g[b][1] = h[a][1],
         DOMAIN g[a] = 1 .. n - 1, \A i \in 1 .. n - 1 : g[a][i] = h[a][i + 1],
         \A c \in H \ {a, b} : g[c] = h[c],
         Kept(h, p, M)
  PROVE  Kept(g, p, M)
<1> SUFFICES ASSUME NEW m \in M, m \notin p
             PROVE  \E c \in H : \E i \in DOMAIN g[c] : g[c][i] = m
  BY DEF Kept
<1>1. PICK c \in H : \E i \in DOMAIN h[c] : h[c][i] = m
  BY DEF Kept
<1>2. PICK i \in DOMAIN h[c] : h[c][i] = m
  BY <1>1
<1>3. CASE c = a /\ i = 1
  BY <1>2, <1>3
<1>4. CASE c = a /\ i # 1
  <2>1. i - 1 \in DOMAIN g[a] /\ g[a][i - 1] = m
    BY <1>2, <1>4
  <2> QED
    BY <2>1
<1>5. CASE c # a
  BY <1>2, <1>5
<1> QED
  BY <1>3, <1>4, <1>5

\* The elements of one holder move to the end of another.
LEMMA PouredDistinct ==
  ASSUME NEW H, NEW h, NEW g, NEW p, NEW a, NEW b, NEW n, NEW k,
         Poured(H, h, g, a, b, n, k), Distinct(h, p)
  PROVE  Distinct(g, p)
<1> USE DEF Poured
<1> DEFINE From(c, i) == IF c = b /\ i > n THEN a ELSE c
           At(c, i)   == IF c = b /\ i > n THEN i - n ELSE i
<1>1. ASSUME NEW c \in H, NEW i \in DOMAIN g[c]
      PROVE  /\ From(c, i) \in H /\ At(c, i) \in DOMAIN h[From(c, i)]
             /\ g[c][i] = h[From(c, i)][At(c, i)]
  <2>1. CASE c = a
    BY <1>1, <2>1
  <2>2. CASE c = b
    BY <1>1, <2>2
  <2>3. CASE c # a /\ c # b
    BY <1>1, <2>3
  <2> QED
    BY <2>1, <2>2, <2>3
<1>2. ASSUME NEW c \in H, NEW i \in DOMAIN g[c], NEW d \in H, NEW j \in DOMAIN g[d],
             From(c, i) = From(d, j), At(c, i) = At(d, j)
      PROVE  c = d /\ i = j
  BY <1>2
<1> HIDE DEF From, At
<1>3. ASSUME NEW c \in H, NEW i \in DOMAIN g[c], NEW d \in H, NEW j \in DOMAIN g[d], g[c][i] = g[d][j]
      PROVE  c = d /\ i = j
  <2>1. From(c, i) = From(d, j) /\ At(c, i) = At(d, j)
    BY <1>1, <1>3 DEF Distinct
  <2> QED
    BY <1>2, <2>1
<1>4. ASSUME NEW c \in H, NEW i \in DOMAIN g[c]
      PROVE  g[c][i] \notin p
  BY <1>1, <1>4 DEF Distinct
<1> QED
  BY <1>3, <1>4 DEF Distinct

LEMMA PouredKept ==
  ASSUME NEW H, NEW h, NEW g, NEW p, NEW M, NEW a, NEW b, NEW n, NEW k,
         Poured(H, h, g, a, b, n, k), Kept(h, p, M)
  PROVE  Kept(g, p, M)
<1> USE DEF Poured
<1> SUFFICES ASSUME NEW m \in M, m \notin p
             PROVE  \E c \in H : \E i \in DOMAIN g[c] : g[c][i] = m
  BY DEF Kept
<1>1. PICK c \in H : \E i \in DOMAIN h[c] : h[c][i] = m
  BY DEF Kept
<1>2. PICK i \in DOMAIN h[c] : h[c][i] = m
  BY <1>1
<1>3. CASE c = a
  <2>1. n + i \in DOMAIN g[b] /\ g[b][n + i] = m
    BY <1>2, <1>3
  <2> QED
    BY <2>1
<1>4. CASE c = b
  BY <1>2, <1>4
<1>5. CASE c # a /\ c # b
  BY <1>2, <1>5
<1> QED
  BY <1>3, <1>4, <1>5

\* Elements of the pool move to an empty holder.
LEMMA Filled ==
  ASSUME NEW H, NEW h, NEW g, NEW p, NEW q, NEW M, NEW b, NEW n, Filling(H, h, g, p, q, b, n)
  PROVE  /\ Distinct(h, p) => Distinct(g, q)
         /\ Kept(h, p, M) => Kept(g, q, M)
<1> USE DEF Filling
<1>1. ASSUME Distinct(h, p), NEW c \in H, NEW i \in DOMAIN g[c],
             NEW d \in H, NEW j \in DOMAIN g[d], g[c][i] = g[d][j]
      PROVE  c = d /\ i = j
  <2>1. CASE c = b /\ d = b
    BY <1>1, <2>1
  <2>2. CASE c # b /\ d # b
    BY <1>1, <2>2 DEF Distinct
  <2>3. CASE c = b /\ d # b
    BY <1>1, <2>3 DEF Distinct
  <2>4. CASE c # b /\ d = b
    BY <1>1, <2>4 DEF Distinct
  <2> QED
    BY <2>1, <2>2, <2>3, <2>4
<1>2. ASSUME Distinct(h, p), NEW c \in H, NEW i \in DOMAIN g[c]
      PROVE  g[c][i] \notin q
  BY <1>2 DEF Distinct
<1>3. ASSUME Kept(h, p, M), NEW m \in M, m \notin q
      PROVE  \E c \in H : \E i \in DOMAIN g[c] : g[c][i] = m
  <2>1. CASE m \in p
    BY <1>3, <2>1
  <2>2. CASE m \notin p
    <3>1. PICK c \in H : \E i \in DOMAIN h[c] : h[c][i] = m
      BY <1>3, <2>2 DEF Kept
    <3> QED
      BY <3>1
  <2> QED
    BY <2>1, <2>2
<1>4. Distinct(h, p) => Distinct(g, q)
  BY <1>1, <1>2 DEF Distinct
<1> QED
  BY <1>3, <1>4 DEF Kept

\* The one element of a holder moves to the pool.
LEMMA Freed ==
  ASSUME NEW H, NEW h, NEW g, NEW p, NEW M, NEW a \in H,
         DOMAIN h = H, DOMAIN g = H, DOMAIN h[a] = {1}, DOMAIN g[a] = {},
         \A c \in H \ {a} : g[c] = h[c],
         NEW q, q = p \cup {h[a][1]}
  PROVE  /\ Distinct(h, p) => Distinct(g, q)
         /\ Kept(h, p, M) => Kept(g, q, M)
<1>1. ASSUME Distinct(h, p) PROVE Distinct(g, q)
  <2>1. ASSUME NEW c \in H, NEW i \in DOMAIN g[c], NEW d \in H, NEW j \in DOMAIN g[d], g[c][i] = g[d][j]
        PROVE  c = d /\ i = j
    <3>1. c # a /\ d # a
      BY <2>1
    <3> QED
      BY <1>1, <2>1, <3>1 DEF Distinct
  <2>2. ASSUME NEW c \in H, NEW i \in DOMAIN g[c]
        PROVE  g[c][i] \notin q
    <3>1. c # a /\ g[c][i] = h[c][i]
      BY <2>2
    <3> QED
      BY <1>1, <2>2, <3>1 DEF Distinct
  <2> QED
    BY <2>1, <2>2 DEF Distinct
<1>2. ASSUME Kept(h, p, M), NEW m \in M, m \notin q
      PROVE  \E c \in H : \E i \in DOMAIN g[c] : g[c][i] = m
  <2>1. PICK c \in H : \E i \in DOMAIN h[c] : h[c][i] = m
    BY <1>2 DEF Kept
  <2>2. c # a
    BY <1>2, <2>1
  <2> QED
    BY <2>1, <2>2
<1> QED
  BY <1>1, <1>2 DEF Kept

\* Two holders together hold no more than there are buffers.
LEMMA Room ==
  ASSUME NEW M, IsFiniteSet(M), NEW H, NEW h, NEW p, NEW a \in H, NEW b \in H, a # b,
         DOMAIN h = H, NEW n \in Nat, NEW k \in Nat, DOMAIN h[b] = 1 .. n, DOMAIN h[a] = 1 .. k,
         \A i \in 1 .. n : h[b][i] \in M, \A i \in 1 .. k : h[a][i] \in M,
         Distinct(h, p)
  PROVE  n + k <= Cardinality(M)
<1> DEFINE f == [i \in 1 .. n + k |-> IF i <= n THEN h[b][i] ELSE h[a][i - n]]
<1>1. f \in [1 .. n + k -> M]
  OBVIOUS
<1>2. ASSUME NEW i \in 1 .. n + k, NEW j \in 1 .. n + k, f[i] = f[j]
      PROVE  i = j
  <2>1. CASE i <= n /\ j <= n
    BY <1>2, <2>1 DEF Distinct
  <2>2. CASE i > n /\ j > n
    <3>1. i - n \in 1 .. k /\ j - n \in 1 .. k /\ h[a][i - n] = h[a][j - n]
      BY <1>2, <2>2
    <3>2. i - n = j - n
      BY <3>1 DEF Distinct
    <3> QED
      BY <3>2
  <2>3. CASE i <= n /\ j > n
    <3>1. i \in 1 .. n /\ j - n \in 1 .. k /\ h[b][i] = h[a][j - n]
      BY <1>2, <2>3
    <3> QED
      BY <3>1 DEF Distinct
  <2>4. CASE i > n /\ j <= n
    <3>1. j \in 1 .. n /\ i - n \in 1 .. k /\ h[b][j] = h[a][i - n]
      BY <1>2, <2>4
    <3> QED
      BY <3>1 DEF Distinct
  <2> QED
    BY <2>1, <2>2, <2>3, <2>4
<1>3. f \in Injection(1 .. n + k, M)
  BY <1>1, <1>2 DEF Injection, IsInjective
<1>4. Cardinality(1 .. n + k) = n + k
  <2>1. \A x, y \in Int : Cardinality(x .. y) = IF x > y THEN 0 ELSE y - x + 1
    BY FS_Interval
  <2> QED
    BY <2>1
<1>5. Cardinality(1 .. n + k) <= Cardinality(M)
  BY <1>3, FS_Injection
<1> QED
  BY <1>4, <1>5

-----------------------------------------------------------------------------
(* The holders, and what a step does to them. *)

HeldType == held \in [Holder -> Seq(Mbuf)]

LEMMA Holders ==
  /\ rxArray \in Array /\ r2fArray \in Array /\ fwdArray \in Array
  /\ \A n \in Node : <<"node array", n>> \in Array
  /\ \A p \in Port : txArray(p) \in Array
  /\ \A p \in Port : <<"rx", p>> \in Ring /\ <<"tx", p>> \in Ring
  /\ \A f \in Flow : <<"flow", f>> \in Ring
  /\ \A n \in Node : <<"node", n>> \in Ring
  /\ \A r \in Ring : r \notin Array
  /\ Ring \subseteq Holder /\ Array \subseteq Holder
<1>1. /\ rxArray \in Array /\ r2fArray \in Array /\ fwdArray \in Array
      /\ \A n \in Node : <<"node array", n>> \in Array
      /\ \A p \in Port : txArray(p) \in Array
  BY DEF Array, rxArray, r2fArray, fwdArray, txArray
<1>2. \A p \in Port : <<"rx", p>> \in Ring /\ <<"tx", p>> \in Ring
  BY DEF Ring
<1>3. /\ \A f \in Flow : <<"flow", f>> \in Ring
      /\ \A n \in Node : <<"node", n>> \in Ring
  BY DEF Ring
<1>4. \A r \in Ring : r[1] \in {"rx", "tx", "flow", "node"}
  BY DEF Ring
<1>5. \A r \in Array : r[1] \in {"rx array", "rx2flows array", "forwarding array", "node array", "tx array"}
  <2>1. <<"rx array", 0>>[1] = "rx array" /\ <<"rx2flows array", 0>>[1] = "rx2flows array"
        /\ <<"forwarding array", 0>>[1] = "forwarding array"
    OBVIOUS
  <2>2. /\ \A r \in {"node array"} \X Node : r[1] = "node array"
        /\ \A r \in {"tx array"} \X Port : r[1] = "tx array"
    OBVIOUS
  <2> QED
    BY <2>1, <2>2 DEF Array
<1>6. \A r \in Ring : r \notin Array
  BY <1>4, <1>5
<1> QED
  BY <1>1, <1>2, <1>3, <1>6 DEF Holder

LEMMA DequeueHeld ==
  ASSUME HeldType, NEW ring \in Ring, NEW array \in Array, Dequeue(ring, array)
  PROVE  /\ HeldType'
         /\ held[ring] \in Seq(Mbuf) /\ held[ring] # << >>
         /\ held'[ring] = Tail(held[ring])
         /\ held'[array] = <<Head(held[ring])>>
         /\ Len(held'[array]) = 1 /\ Len(held'[array]) <= 1 /\ held'[array] # << >>
         /\ \A c \in Holder \ {ring, array} : held'[c] = held[c]
         /\ \A c \in Array \ {array} : held'[c] = held[c]
<1>1. ring \in Holder /\ array \in Holder /\ ring # array
  BY Holders
<1>2. /\ held[ring] \in Seq(Mbuf) /\ held[ring] # << >>
      /\ held'[ring] = Tail(held[ring])
      /\ held'[array] = <<Head(held[ring])>>
      /\ \A c \in Holder \ {ring, array} : held'[c] = held[c]
      /\ held' = [c \in Holder |-> held'[c]]
  BY <1>1 DEF HeldType, Dequeue
<1>3. Head(held[ring]) \in Mbuf /\ Tail(held[ring]) \in Seq(Mbuf)
  BY <1>2
<1>4. <<Head(held[ring])>> \in Seq(Mbuf) /\ Len(<<Head(held[ring])>>) = 1
  BY <1>3
<1>5. \A c \in Holder : held'[c] \in Seq(Mbuf)
  BY <1>2, <1>3, <1>4 DEF HeldType
<1>6. \A c \in Array \ {array} : held'[c] = held[c]
  BY <1>2, Holders
<1> QED
  BY <1>2, <1>4, <1>5, <1>6 DEF HeldType

LEMMA EnqueueHeld ==
  ASSUME HeldType, NEW array \in Array, NEW ring \in Ring, Enqueue(array, ring)
  PROVE  /\ HeldType'
         /\ held[array] \in Seq(Mbuf) /\ held[array] # << >>
         /\ held'[array] = << >>
         /\ held'[ring] = IF Len(held[ring]) < RingCap THEN Append(held[ring], Head(held[array])) ELSE held[ring]
         /\ \A c \in Holder \ {ring, array} : held'[c] = held[c]
         /\ \A c \in Array \ {array} : held'[c] = held[c]
<1>1. ring \in Holder /\ array \in Holder /\ ring # array
  BY Holders
<1>2. /\ held[array] \in Seq(Mbuf) /\ held[array] # << >> /\ held[ring] \in Seq(Mbuf)
      /\ held'[array] = << >>
      /\ held'[ring] = IF Len(held[ring]) < RingCap THEN Append(held[ring], Head(held[array])) ELSE held[ring]
      /\ \A c \in Holder \ {ring, array} : held'[c] = held[c]
      /\ held' = [c \in Holder |-> held'[c]]
  BY <1>1 DEF HeldType, Enqueue
<1>3. Head(held[array]) \in Mbuf
  BY <1>2
<1>4. Append(held[ring], Head(held[array])) \in Seq(Mbuf) /\ << >> \in Seq(Mbuf)
  BY <1>2, <1>3
<1>5. \A c \in Holder : held'[c] \in Seq(Mbuf)
  BY <1>2, <1>4 DEF HeldType
<1>6. \A c \in Array \ {array} : held'[c] = held[c]
  BY <1>2, Holders
<1> QED
  BY <1>2, <1>5, <1>6 DEF HeldType

-----------------------------------------------------------------------------
(* Plans. *)

\* The flows of a node are flows.
LEMMA FlowsOfNode ==
  ASSUME NEW n \in Node
  PROVE  FlowsOf(n) \subseteq Flow /\ FLOWS * n \in Nat /\ NODES * FLOWS \in Nat
<1>1. NODES \in Nat /\ FLOWS \in Nat /\ n \in Nat /\ n + 1 <= NODES
  BY SizeAssumption DEF Node
<1>2. \A a, b, c \in Nat : a <= b => c * a <= c * b /\ c * a \in Nat
  OBVIOUS
<1>3. FLOWS * (n + 1) <= FLOWS * NODES /\ FLOWS * n \in Nat /\ FLOWS * NODES \in Nat
  BY <1>1, <1>2
<1>4. FLOWS * (n + 1) = FLOWS * n + FLOWS /\ FLOWS * NODES = NODES * FLOWS
  BY <1>1
<1> QED
  BY <1>1, <1>3, <1>4 DEF FlowsOf, Flow

NodePlans(n) == Seq([ring : {"flow"} \X FlowsOf(n), times : Nat])
FwdPlans     == Seq([ring : {"node"} \X Node, times : Nat])

LEMMA FunctionsAreSequences ==
  ASSUME NEW S, NEW k \in Nat, NEW s \in [1 .. k -> S]
  PROVE  s \in Seq(S)
  BY SeqDef

\* Some flow of three has the least left.
LEMMA LeastOfThree ==
  ASSUME NEW k \in Nat, NEW size, size[k] \in Int, size[k + 1] \in Int, size[k + 2] \in Int
  PROVE  \E f \in k .. k + 2 : \A g \in k .. k + 2 : size[f] < size[g] \/ (size[f] = size[g] /\ f <= g)
<1>1. \A g \in k .. k + 2 : g = k \/ g = k + 1 \/ g = k + 2
  OBVIOUS
<1>2. k \in k .. k + 2 /\ k + 1 \in k .. k + 2 /\ k + 2 \in k .. k + 2
  OBVIOUS
<1>3. CASE size[k] <= size[k + 1] /\ size[k] <= size[k + 2]
  BY <1>1, <1>2, <1>3
<1>4. CASE size[k + 1] < size[k] /\ size[k + 1] <= size[k + 2]
  BY <1>1, <1>2, <1>4
<1>5. CASE size[k + 2] < size[k] /\ size[k + 2] < size[k + 1]
  BY <1>1, <1>2, <1>5
<1> QED
  BY <1>3, <1>4, <1>5

LEMMA IntraPlanType ==
  ASSUME NEW n \in Node, size_left \in [Flow -> Int]
  PROVE  IntraPlan(n) \in NodePlans(n)
<1>1. FlowsOf(n) \subseteq Flow /\ FLOWS * n \in Nat /\ FLOWS \in Nat \ {0}
  BY FlowsOfNode, SizeAssumption
<1>2. CASE intra_node = "SP"
  <2>1. \A i \in 1 .. FLOWS :
          (CHOOSE r \in {"flow"} \X FlowsOf(n) : SP_priority[r] = i) \in {"flow"} \X FlowsOf(n)
    BY PriorityAssumption
  <2>2. PlanSP({"flow"} \X FlowsOf(n), FLOWS) \in [1 .. FLOWS -> [ring : {"flow"} \X FlowsOf(n), times : Nat]]
    BY <2>1 DEF PlanSP, Try
  <2> QED
    BY <1>1, <1>2, <2>2, FunctionsAreSequences DEF IntraPlan, NodePlans
<1>3. CASE intra_node = "WFQ"
  <2>1. \A i \in 1 .. FLOWS : /\ <<"flow", FLOWS * n + i - 1>> \in {"flow"} \X FlowsOf(n)
                             /\ WFQ_weight[<<"flow", FLOWS * n + i - 1>>] \in Nat
    <3>1. \A i \in 1 .. FLOWS : FLOWS * n + i - 1 \in FlowsOf(n)
      BY <1>1 DEF FlowsOf
    <3> QED
      BY <1>1, <3>1, WeightAssumption
  <2>2. PlanWFQ(<<"flow", FLOWS * n>>, FLOWS) \in [1 .. FLOWS -> [ring : {"flow"} \X FlowsOf(n), times : Nat]]
    BY <2>1 DEF PlanWFQ, Try
  <2> QED
    BY <1>1, <1>3, <2>2, FunctionsAreSequences DEF IntraPlan, NodePlans
<1>4. CASE intra_node = "pFabric"
  <2> DEFINE least == CHOOSE f \in FlowsOf(n) :
                 \A g \in FlowsOf(n) : size_left[f] < size_left[g] \/ (size_left[f] = size_left[g] /\ f <= g)
  <2>1. FLOWS = 3 /\ FlowsOf(n) = FLOWS * n .. FLOWS * n + 2
    BY <1>1, <1>4, PolicyAssumption DEF FlowsOf
  <2>2. least \in FlowsOf(n)
    <3>1. /\ FLOWS * n \in FlowsOf(n) /\ FLOWS * n + 1 \in FlowsOf(n) /\ FLOWS * n + 2 \in FlowsOf(n)
      BY <1>1, <2>1
    <3>2. \E f \in FlowsOf(n) :
            \A g \in FlowsOf(n) : size_left[f] < size_left[g] \/ (size_left[f] = size_left[g] /\ f <= g)
      BY <1>1, <2>1, <3>1, LeastOfThree
    <3> QED
      BY <3>2
  <2> HIDE DEF least
  <2>3. FLOWS * n + ((least - FLOWS * n + 1) % FLOWS) \in FlowsOf(n)
    BY <1>1, <2>1, <2>2
  <2>4. PlanPFabric(n) = <<Try(<<"flow", least>>, 1),
                           Try(<<"flow", FLOWS * n + ((least - FLOWS * n + 1) % FLOWS)>>, 1)>>
    BY DEF PlanPFabric, least
  <2>5. \A f \in FlowsOf(n) : Try(<<"flow", f>>, 1) \in [ring : {"flow"} \X FlowsOf(n), times : Nat]
    BY DEF Try
  <2>6. PlanPFabric(n) \in NodePlans(n)
    BY <2>2, <2>3, <2>4, <2>5 DEF NodePlans
  <2> QED
    BY <1>4, <2>6 DEF IntraPlan
<1> QED
  BY <1>2, <1>3, <1>4, PolicyAssumption

LEMMA InterPlanType == InterPlan \in FwdPlans
<1>1. NODES \in Nat \ {0}
  BY SizeAssumption
<1>2. CASE inter_node = "SP"
  <2>1. \A i \in 1 .. NODES : (CHOOSE r \in {"node"} \X Node : SP_priority[r] = i) \in {"node"} \X Node
    BY PriorityAssumption
  <2>2. PlanSP({"node"} \X Node, NODES) \in [1 .. NODES -> [ring : {"node"} \X Node, times : Nat]]
    BY <2>1 DEF PlanSP, Try
  <2> QED
    BY <1>1, <1>2, <2>2, FunctionsAreSequences DEF InterPlan, FwdPlans
<1>3. CASE inter_node = "WFQ"
  <2>1. \A i \in 1 .. NODES : /\ <<"node", 0 + i - 1>> \in {"node"} \X Node
                             /\ WFQ_weight[<<"node", 0 + i - 1>>] \in Nat
    <3>1. \A i \in 1 .. NODES : 0 + i - 1 \in Node
      BY <1>1 DEF Node
    <3> QED
      BY <3>1, WeightAssumption
  <2>2. PlanWFQ(<<"node", 0>>, NODES) \in [1 .. NODES -> [ring : {"node"} \X Node, times : Nat]]
    BY <2>1 DEF PlanWFQ, Try
  <2> QED
    BY <1>1, <1>3, <2>2, FunctionsAreSequences DEF InterPlan, FwdPlans
<1> QED
  BY <1>2, <1>3, PolicyAssumption

LEMMA HeadTail ==
  ASSUME NEW S, NEW s \in Seq(S)
  PROVE  << >> \in Seq(S) /\ (s # << >> => Head(s) \in S /\ Tail(s) \in Seq(S))
  OBVIOUS

\* What is left of a plan is a plan for the same rings.
LEMMA AfterPacketType ==
  ASSUME NEW R, NEW p \in Seq([ring : R, times : Nat]), p # << >>, NEW pol
  PROVE  AfterPacket(pol, p) \in Seq([ring : R, times : Nat])
<1>1. /\ Head(p) \in [ring : R, times : Nat] /\ Tail(p) \in Seq([ring : R, times : Nat])
      /\ << >> \in Seq([ring : R, times : Nat])
  BY HeadTail
<1>2. CASE Head(p).times > 1
  <2>1. Try(Head(p).ring, Head(p).times - 1) \in [ring : R, times : Nat]
    BY <1>1, <1>2 DEF Try
  <2>2. <<Try(Head(p).ring, Head(p).times - 1)>> \in Seq([ring : R, times : Nat])
    BY <2>1
  <2>3. <<Try(Head(p).ring, Head(p).times - 1)>> \o Tail(p) \in Seq([ring : R, times : Nat])
    BY <1>1, <2>2
  <2> QED
    BY <1>1, <2>3 DEF AfterPacket
<1> QED
  BY <1>1, <1>2 DEF AfterPacket

-----------------------------------------------------------------------------
(* Types.  TypeOK is inductive together with what the arrays hold: all but *)
(* the receiver's at most one packet, one that a plan is under way for.    *)

PlanType ==
  /\ DOMAIN plan = 0 .. NODES
  /\ \A n \in Node : plan[n] \in NodePlans(n)
  /\ plan[Forwarding] \in FwdPlans

RestType ==
  /\ pool \subseteq Mbuf /\ pkt \in [Mbuf -> Record]
  /\ rx_port \in Port /\ r2f_port \in Port
  /\ size_left \in [Flow -> Int]
  /\ r2f_count \in Count \cup {NoCount} /\ fwd_count \in Count \cup {NoCount}
  /\ tx_counted \in [Port -> BOOLEAN]
  /\ qlen_in \in [Port -> 0 .. WORD - 1] /\ qlen_out \in [Port -> 0 .. WORD - 1]
  /\ force_quit \in BOOLEAN
  /\ arrived \in Nat /\ sent \in Seq([port : Port, flow : Flow \cup {NoFlow}, no : Nat, out : Port])
  /\ misread \in [Port -> Int] /\ passed \in [Merged -> Nat]

LEMMA TypeParts == TypeOK <=> HeldType /\ PlanType /\ RestType
  BY DEF TypeOK, HeldType, PlanType, RestType, NodePlans, FwdPlans

ArraysOK ==
  /\ \A a \in Array \ {rxArray} : Len(held[a]) <= 1
  /\ \A p \in Port : tx_counted[p] => held[txArray(p)] # << >>
  /\ \A n \in Node : held[<<"node array", n>>] # << >> => plan[n] # << >>
  /\ held[fwdArray] # << >> \/ fwd_count # NoCount => plan[Forwarding] # << >>
  /\ fwd_count # NoCount => held[fwdArray] = << >>

TInv == HeldType /\ PlanType /\ RestType /\ ArraysOK

LEMMA ArraysDiffer ==
  /\ rxArray # r2fArray /\ rxArray # fwdArray /\ r2fArray # fwdArray
  /\ \A n \in Node : <<"node array", n>> \notin {rxArray, r2fArray, fwdArray}
  /\ \A p \in Port : txArray(p) \notin {rxArray, r2fArray, fwdArray}
  /\ \A n \in Node, p \in Port : <<"node array", n>> # txArray(p)
  /\ \A n, k \in Node : <<"node array", n>> = <<"node array", k>> => n = k
  /\ \A p, q \in Port : txArray(p) = txArray(q) => p = q
  BY DEF rxArray, r2fArray, fwdArray, txArray

\* A step changes one array and what goes with it.
LEMMA ArraysStep ==
  ASSUME ArraysOK, NEW array \in Array, array = rxArray \/ Len(held'[array]) <= 1,
         \A c \in Array \ {array} : held'[c] = held[c],
         \A p \in Port : array = txArray(p) => (tx_counted'[p] => held'[array] # << >>),
         \A p \in Port : array # txArray(p) => tx_counted'[p] = tx_counted[p],
         \A n \in Node : array = <<"node array", n>> => (held'[array] # << >> => plan'[n] # << >>),
         \A n \in Node : array # <<"node array", n>> => plan'[n] = plan[n],
         array = fwdArray => (held'[array] # << >> \/ fwd_count' # NoCount => plan'[Forwarding] # << >>),
         array = fwdArray => (fwd_count' # NoCount => held'[array] = << >>),
         array # fwdArray => plan'[Forwarding] = plan[Forwarding] /\ fwd_count' = fwd_count
  PROVE  ArraysOK'
<1>1. \A a \in Array \ {rxArray} : Len(held'[a]) <= 1
  BY DEF ArraysOK
<1>2. \A p \in Port : tx_counted'[p] => held'[txArray(p)] # << >>
  BY Holders DEF ArraysOK
<1>3. \A n \in Node : held'[<<"node array", n>>] # << >> => plan'[n] # << >>
  BY Holders DEF ArraysOK
<1>4. held'[fwdArray] # << >> \/ fwd_count' # NoCount => plan'[Forwarding] # << >>
  BY Holders DEF ArraysOK
<1>5. fwd_count' # NoCount => held'[fwdArray] = << >>
  BY Holders DEF ArraysOK
<1> QED
  BY <1>1, <1>2, <1>3, <1>4, <1>5 DEF ArraysOK, txArray

LEMMA NextPortType == \A p \in Port : NextPort(p) \in Port
  BY DEF NextPort, Port

LEMMA ArrivalType == \A x \in Arrivals : x.flow \in Flow \cup {NoFlow} /\ x.len \in Nat
<1>1. Arrivals \subseteq [port : Port, flow : Flow \cup {NoFlow}, len : Nat \ {0}]
  BY SingleProducerAssumption
<1> QED
  BY <1>1

LEMMA WordType == \A v \in 0 .. WORD - 1, l \in Nat : (v + l) % WORD \in 0 .. WORD - 1
  BY SizeAssumption

\* What packet_enqueue remembers of a packet, and what it counts later.
LEMMA HandedType ==
  ASSUME RestType, NEW m \in Mbuf, NEW p \in Port
  PROVE  Handed(m, p) \in Count /\ Handed(m, p) # NoCount
<1>1. pkt[m] \in Record /\ NoMbuf \notin Mbuf
  BY PoolAssumption DEF RestType
<1>2. Handed(m, p) \in Count /\ Handed(m, p).mbuf # NoMbuf
  BY <1>1 DEF Handed, Record, Count
<1>3. NoCount.mbuf = NoMbuf
  BY DEF NoCount
<1> QED
  BY <1>2, <1>3

LEMMA CountInType ==
  ASSUME RestType, NEW c \in Count, CountIn(c)
  PROVE  qlen_in' \in [Port -> 0 .. WORD - 1] /\ misread' \in [Port -> Int]
<1>1. c.port \in Port /\ c.len \in Nat /\ pkt[c.mbuf].len \in Nat
  BY DEF RestType, Count, Record
<1>2. \A v \in Int : v + (pkt[c.mbuf].len - c.len) \in Int
  BY <1>1
<1>3. \A v \in 0 .. WORD - 1 : (v + pkt[c.mbuf].len) % WORD \in 0 .. WORD - 1
  BY <1>1, WordType
<1> QED
  BY <1>1, <1>2, <1>3 DEF CountIn, RestType

LEMMA InitTInv == Init => TInv
<1> SUFFICES ASSUME Init PROVE TInv
  OBVIOUS
<1>1. /\ << >> \in Seq(Mbuf) /\ \A n \in Node : << >> \in NodePlans(n)
      /\ << >> \in FwdPlans
      /\ << >> \in Seq([port : Port, flow : Flow \cup {NoFlow}, no : Nat, out : Port])
  BY DEF NodePlans, FwdPlans
<1>2. HeldType
  BY <1>1 DEF Init, HeldType
<1>3. PlanType
  BY <1>1, SizeAssumption DEF Init, PlanType, Node, Forwarding
<1>4. Blank \in Record
  BY DEF Blank, Record, Port
<1>5. 0 \in 0 .. WORD - 1
  BY SizeAssumption
<1>6. RestType
  <2>1. pool \subseteq Mbuf /\ pkt \in [Mbuf -> Record] /\ size_left \in [Flow -> Int]
    BY <1>4, WeightAssumption DEF Init
  <2>2. tx_counted \in [Port -> BOOLEAN] /\ force_quit \in BOOLEAN
    BY DEF Init
  <2>3. /\ rx_port \in Port /\ r2f_port \in Port /\ r2f_count \in Count \cup {NoCount}
        /\ misread \in [Port -> Int] /\ fwd_count \in Count \cup {NoCount} /\ arrived \in Nat /\ passed \in [Merged -> Nat]
    BY DEF Init, Port
  <2>4. qlen_in \in [Port -> 0 .. WORD - 1] /\ qlen_out \in [Port -> 0 .. WORD - 1]
    BY <1>5 DEF Init
  <2>5. sent \in Seq([port : Port, flow : Flow \cup {NoFlow}, no : Nat, out : Port])
    BY <1>1 DEF Init
  <2> QED
    BY <2>1, <2>2, <2>3, <2>4, <2>5 DEF RestType
<1>7. ArraysOK
  <2>1. \A a \in Array : held[a] = << >>
    BY Holders DEF Init
  <2>2. fwd_count = NoCount /\ \A p \in Port : ~tx_counted[p]
    BY DEF Init
  <2>3. Len(<< >>) <= 1
    OBVIOUS
  <2>4. \A a \in Array : Len(held[a]) <= 1
    BY <2>1, <2>3
  <2> QED
    BY <2>1, <2>2, <2>4, Holders DEF ArraysOK
<1> QED
  BY <1>2, <1>3, <1>6, <1>7 DEF TInv

LEMMA RxTInv ==
  ASSUME TInv, RxStep
  PROVE  TInv'
<1> USE DEF TInv
<1>1. CASE ReceiveBurst
  <2>1. PICK n \in 1 .. BURST : \E s \in [1 .. n -> pool], a \in [1 .. n -> Arrivals] :
       /\ arrived + n <= MaxArrivals
       /\ \A i, j \in 1 .. n : i # j => s[i] # s[j]
       /\ \A i \in 1 .. n : a[i].port = rx_port
       /\ held' = [held EXCEPT ![rxArray] = s]
       /\ pool' = pool \ {s[i] : i \in 1 .. n}
       /\ pkt' = [m \in Mbuf |->
            IF \E i \in 1 .. n : s[i] = m
            THEN LET i == CHOOSE i \in 1 .. n : s[i] = m
                 IN  [port |-> rx_port, flow |-> a[i].flow, no |-> arrived + i, len |-> a[i].len]
            ELSE pkt[m]]
       /\ arrived' = arrived + n
    BY <1>1 DEF ReceiveBurst
  <2>2. PICK s \in [1 .. n -> pool], a \in [1 .. n -> Arrivals] :
       /\ held' = [held EXCEPT ![rxArray] = s]
       /\ pool' = pool \ {s[i] : i \in 1 .. n}
       /\ pkt' = [m \in Mbuf |->
            IF \E i \in 1 .. n : s[i] = m
            THEN LET i == CHOOSE i \in 1 .. n : s[i] = m
                 IN  [port |-> rx_port, flow |-> a[i].flow, no |-> arrived + i, len |-> a[i].len]
            ELSE pkt[m]]
       /\ arrived' = arrived + n
    BY <2>1
  <2>3. n \in Nat /\ s \in [1 .. n -> Mbuf]
    <3>1. n \in Nat
      BY SizeAssumption
    <3> QED
      BY <2>2, <3>1 DEF RestType
  <2>4. s \in Seq(Mbuf)
    BY <2>3, FunctionsAreSequences
  <2>5. HeldType' /\ \A c \in Holder \ {rxArray} : held'[c] = held[c]
    BY <2>2, <2>4, Holders DEF HeldType
  <2>6. PlanType'
    BY <1>1 DEF ReceiveBurst, loopVars, PlanType
  <2>7. \A i \in 1 .. n : [port |-> rx_port, flow |-> a[i].flow, no |-> arrived + i, len |-> a[i].len] \in Record
    <3>1. \A i \in 1 .. n : a[i].flow \in Flow \cup {NoFlow} /\ a[i].len \in Nat
      BY ArrivalType
    <3>2. rx_port \in Port /\ \A i \in 1 .. n : arrived + i \in Nat
      BY <2>3 DEF RestType
    <3> QED
      BY <3>1, <3>2 DEF Record
  <2>8. pkt' \in [Mbuf -> Record]
    BY <2>2, <2>7 DEF RestType
  <2>9. pool' \subseteq Mbuf /\ arrived' \in Nat
    BY <2>2, <2>3 DEF RestType
  <2>10. RestType'
    BY <1>1, <2>8, <2>9 DEF ReceiveBurst, RestType, loopVars
  <2>11. ArraysOK'
    BY <1>1, <2>5, Holders, ArraysDiffer DEF ReceiveBurst, ArraysOK, loopVars
  <2> QED
    BY <2>5, <2>6, <2>10, <2>11
<1>2. CASE ReceiveNothing
  BY <1>2, NextPortType DEF ReceiveNothing, HeldType, PlanType, RestType, ArraysOK
<1>3. CASE RxEnqueue
  <2>1. <<"rx", rx_port>> \in Ring
    BY Holders DEF RestType
  <2>2. held[<<"rx", rx_port>>] \in Seq(Mbuf) /\ held[rxArray] \in Seq(Mbuf)
    BY <2>1, Holders DEF HeldType
  <2>3. held[<<"rx", rx_port>>] \o held[rxArray] \in Seq(Mbuf) /\ << >> \in Seq(Mbuf)
    BY <2>2
  <2>4. HeldType' /\ \A c \in Array \ {rxArray} : held'[c] = held[c]
    BY <1>3, <2>1, <2>3, Holders DEF HeldType, RxEnqueue
  <2>5. PlanType' /\ RestType'
    BY <1>3, NextPortType DEF RxEnqueue, PlanType, RestType
  <2>6. ArraysOK'
    BY <1>3, <2>4, Holders, ArraysDiffer DEF RxEnqueue, ArraysOK
  <2> QED
    BY <2>4, <2>5, <2>6
<1> QED
  BY <1>1, <1>2, <1>3 DEF RxStep

LEMMA R2fTInv ==
  ASSUME TInv, R2fStep
  PROVE  TInv'
<1> USE DEF TInv
<1>0. r2fArray \in Array /\ WORD \in Nat \ {0}
  BY Holders, SizeAssumption
<1>1. CASE Rx2FlowsPoll
  <2>1. <<"rx", r2f_port>> \in Ring
    BY Holders DEF RestType
  <2>2. PlanType' /\ RestType'
    BY <1>1, NextPortType DEF Rx2FlowsPoll, PlanType, RestType
  <2>3. CASE Dequeue(<<"rx", r2f_port>>, r2fArray)
    <3>1. /\ HeldType' /\ Len(held'[r2fArray]) <= 1
          /\ \A c \in Array \ {r2fArray} : held'[c] = held[c]
      <4>1. ASSUME NEW ring \in Ring, Dequeue(ring, r2fArray)
            PROVE  /\ HeldType' /\ Len(held'[r2fArray]) <= 1
                   /\ \A c \in Array \ {r2fArray} : held'[c] = held[c]
        BY <1>0, <4>1, DequeueHeld
      <4> QED
        BY <2>1, <2>3, <4>1, Zenon
    <3>2. UNCHANGED <<plan, fwd_count, tx_counted>>
      BY <1>1 DEF Rx2FlowsPoll
    <3>3. ArraysOK'
      BY <1>0, <3>1, <3>2, ArraysDiffer, ArraysStep
    <3> QED
      BY <2>2, <3>1, <3>3
  <2>4. CASE UNCHANGED held
    BY <1>1, <2>2, <2>4 DEF Rx2FlowsPoll, HeldType, ArraysOK
  <2> QED
    BY <1>1, <2>3, <2>4 DEF Rx2FlowsPoll
<1>2. ASSUME NEW ring \in Ring, Enqueue(r2fArray, ring), UNCHANGED <<plan, fwd_count, tx_counted>>
      PROVE  HeldType' /\ PlanType' /\ ArraysOK'
  <2>1. /\ HeldType' /\ held'[r2fArray] = << >>
        /\ \A c \in Array \ {r2fArray} : held'[c] = held[c]
    BY <1>0, <1>2, EnqueueHeld
  <2>2. Len(held'[r2fArray]) <= 1
    BY <2>1
  <2>3. ArraysOK'
    BY <1>0, <1>2, <2>1, <2>2, ArraysDiffer, ArraysStep
  <2> QED
    BY <1>2, <2>1, <2>3 DEF PlanType
<1>3. CASE Rx2FlowsFlow
  <2> DEFINE m == Head(held[r2fArray])
  <2>1. m \in Mbuf
    <3>1. held[r2fArray] \in Seq(Mbuf) /\ held[r2fArray] # << >>
      BY <1>0, <1>3, Holders DEF HeldType, Rx2FlowsFlow
    <3> QED
      BY <3>1
  <2>2. <<"flow", pkt[m].flow>> \in Ring
    BY <1>3, <2>1, Holders DEF Rx2FlowsFlow, Scheduled, RestType, Record
  <2>3. RestType'
    BY <1>3, NextPortType DEF Rx2FlowsFlow, RestType
  <2>4. Enqueue(r2fArray, <<"flow", pkt[m].flow>>) /\ UNCHANGED <<plan, fwd_count, tx_counted>>
    BY <1>3 DEF Rx2FlowsFlow
  <2> QED
    BY <1>2, <2>2, <2>3, <2>4
<1>4. CASE Rx2FlowsTx
  <2>1. Bypass \in Port
    BY PortAssumption DEF Bypass
  <2>2. <<"tx", Bypass>> \in Ring
    BY <2>1, Holders
  <2>3. RestType'
    <3>1. held[r2fArray] \in Seq(Mbuf) /\ held[r2fArray] # << >>
      BY <1>0, <1>4, Holders DEF HeldType, Rx2FlowsTx
    <3>2. Head(held[r2fArray]) \in Mbuf
      BY <3>1
    <3>3. Handed(Head(held[r2fArray]), Bypass) \in Count
      BY <2>1, <3>2, HandedType
    <3> QED
      BY <1>4, <3>3 DEF Rx2FlowsTx, RestType
  <2>4. Enqueue(r2fArray, <<"tx", Bypass>>) /\ UNCHANGED <<plan, fwd_count, tx_counted>>
    BY <1>4 DEF Rx2FlowsTx
  <2> QED
    BY <1>2, <2>2, <2>3, <2>4
<1>5. CASE Rx2FlowsCount
  <2>1. r2f_count \in Count /\ CountIn(r2f_count)
    BY <1>5 DEF Rx2FlowsCount, RestType
  <2>2. qlen_in' \in [Port -> 0 .. WORD - 1] /\ misread' \in [Port -> Int]
    BY <2>1, CountInType
  <2>3. RestType'
    BY <1>5, <2>2, NextPortType DEF Rx2FlowsCount, RestType
  <2> QED
    BY <1>5, <2>3 DEF Rx2FlowsCount, HeldType, PlanType, ArraysOK
<1> QED
  BY <1>1, <1>3, <1>4, <1>5 DEF R2fStep

\* What a plan's first try names.
LEMMA PlanHead ==
  ASSUME TInv
  PROVE  /\ \A n \in Node : plan[n] # << >> => /\ Head(plan[n]).ring \in {"flow"} \X FlowsOf(n)
                                               /\ Head(plan[n]).ring \in Ring
                                               /\ Tail(plan[n]) \in NodePlans(n)
         /\ plan[Forwarding] # << >> => /\ Head(plan[Forwarding]).ring \in {"node"} \X Node
                                        /\ Head(plan[Forwarding]).ring \in Ring
                                        /\ Tail(plan[Forwarding]) \in FwdPlans
<1>1. ASSUME NEW n \in Node, plan[n] # << >>
      PROVE  /\ Head(plan[n]).ring \in {"flow"} \X FlowsOf(n)
             /\ Head(plan[n]).ring \in Ring
             /\ Tail(plan[n]) \in NodePlans(n)
  <2>1. Head(plan[n]) \in [ring : {"flow"} \X FlowsOf(n), times : Nat] /\ Tail(plan[n]) \in NodePlans(n)
    BY <1>1, HeadTail DEF TInv, PlanType, NodePlans
  <2>2. Head(plan[n]).ring \in {"flow"} \X Flow
    BY <2>1, FlowsOfNode
  <2> QED
    BY <2>1, <2>2 DEF Ring
<1>2. ASSUME plan[Forwarding] # << >>
      PROVE  /\ Head(plan[Forwarding]).ring \in {"node"} \X Node
             /\ Head(plan[Forwarding]).ring \in Ring
             /\ Tail(plan[Forwarding]) \in FwdPlans
  <2>1. Head(plan[Forwarding]) \in [ring : {"node"} \X Node, times : Nat] /\ Tail(plan[Forwarding]) \in FwdPlans
    BY <1>2, HeadTail DEF TInv, PlanType, FwdPlans
  <2> QED
    BY <2>1 DEF Ring
<1> QED
  BY <1>1, <1>2

LEMMA Cores ==
  /\ \A n \in Node : n \in 0 .. NODES /\ n # Forwarding
  /\ Forwarding \in 0 .. NODES
  BY SizeAssumption DEF Node, Forwarding

\* A step changes one plan.
LEMMA PlanStep ==
  ASSUME PlanType, NEW c \in 0 .. NODES, NEW q, plan' = [plan EXCEPT ![c] = q]
  PROVE  /\ plan'[c] = q /\ DOMAIN plan' = 0 .. NODES
         /\ \A k \in 0 .. NODES : k # c => plan'[k] = plan[k]
  BY DEF PlanType

LEMMA NodePlanStep ==
  ASSUME PlanType, NEW n \in Node, NEW q \in NodePlans(n), plan' = [plan EXCEPT ![n] = q]
  PROVE  /\ PlanType' /\ plan'[n] = q
         /\ \A k \in Node : k # n => plan'[k] = plan[k]
         /\ plan'[Forwarding] = plan[Forwarding]
<1>1. /\ plan'[n] = q /\ DOMAIN plan' = 0 .. NODES
      /\ \A k \in 0 .. NODES : k # n => plan'[k] = plan[k]
  BY Cores, PlanStep
<1>2. /\ \A k \in Node : k # n => plan'[k] = plan[k]
      /\ plan'[Forwarding] = plan[Forwarding]
  BY <1>1, Cores
<1>3. \A k \in Node : plan'[k] \in NodePlans(k)
  BY <1>1, <1>2 DEF PlanType
<1> QED
  BY <1>1, <1>2, <1>3 DEF PlanType, NodePlans, FwdPlans, FlowsOf, Node, Forwarding

LEMMA ServeType ==
  ASSUME passed \in [Merged -> Nat], NEW ring, Serve(ring)
  PROVE  passed' \in [Merged -> Nat]
  BY DEF Serve

LEMMA NodeTInv ==
  ASSUME TInv, NEW n \in Node, NodeStep(n)
  PROVE  TInv'
<1> USE DEF TInv
<1> DEFINE array == <<"node array", n>>
<1>0. /\ array \in Array
      /\ \A k \in Node : array = <<"node array", k>> => k = n
      /\ array # rxArray /\ array # fwdArray /\ \A p \in Port : array # txArray(p)
  BY Holders, ArraysDiffer
<1> HIDE DEF array
<1>1. CASE NodeCall(n)
  <2>1. IntraPlan(n) \in NodePlans(n)
    BY IntraPlanType DEF RestType
  <2>2. /\ PlanType'
        /\ \A k \in Node : k # n => plan'[k] = plan[k]
        /\ plan'[Forwarding] = plan[Forwarding]
    BY <1>1, <2>1, NodePlanStep DEF NodeCall
  <2>3. held[array] = << >> /\ UNCHANGED <<held, fwd_count, tx_counted>>
    BY <1>1 DEF NodeCall, Loops, array
  <2>4. ArraysOK'
    BY <2>2, <2>3 DEF ArraysOK, array, txArray
  <2> QED
    BY <1>1, <2>2, <2>4 DEF NodeCall, HeldType, RestType
<1>2. CASE NodeTry(n)
  <2> DEFINE ring == Head(plan[n]).ring
  <2>1. plan[n] # << >> /\ ring \in {"flow"} \X FlowsOf(n) /\ ring \in Ring /\ Tail(plan[n]) \in NodePlans(n)
    BY <1>2, PlanHead DEF NodeTry
  <2>2. ring[2] \in Flow
    BY <2>1, FlowsOfNode
  <2>3. CASE /\ held[ring] = << >>
             /\ plan' = [plan EXCEPT ![n] = Tail(@)]
             /\ UNCHANGED <<held, size_left, passed>>
    <3>1. /\ PlanType'
          /\ \A k \in Node : k # n => plan'[k] = plan[k]
          /\ plan'[Forwarding] = plan[Forwarding]
      BY <2>1, <2>3, NodePlanStep
    <3>2. held[array] = << >> /\ UNCHANGED <<held, fwd_count, tx_counted>>
      BY <1>2, <2>3 DEF NodeTry, array
    <3>4. ArraysOK'
      BY <3>1, <3>2 DEF ArraysOK, array, txArray
    <3>5. RestType'
      BY <1>2, <2>3 DEF NodeTry, RestType
    <3> QED
      BY <3>1, <3>2, <3>4, <3>5 DEF HeldType
  <2>4. CASE /\ Dequeue(ring, array)
             /\ size_left' = [size_left EXCEPT ![ring[2]] = 
                  IF intra_node = "pFabric" THEN @ - pkt[Head(held[ring])].len ELSE @]
             /\ Serve(ring) /\ UNCHANGED plan
    <3> HIDE DEF ring
    <3>1. /\ HeldType' /\ Len(held'[array]) <= 1
          /\ \A c \in Array \ {array} : held'[c] = held[c]
      BY <1>0, <2>1, <2>4, DequeueHeld
    <3>2. UNCHANGED <<plan, fwd_count, tx_counted>>
      BY <1>2, <2>4 DEF NodeTry
    <3>3. ArraysOK'
      BY <1>0, <2>1, <3>1, <3>2, ArraysStep
    <3>4. size_left' \in [Flow -> Int]
      <4>1. held[ring] \in Seq(Mbuf) /\ held[ring] # << >>
        BY <2>1, <2>4, Holders DEF HeldType, Dequeue
      <4>2. Head(held[ring]) \in Mbuf
        BY <4>1
      <4>3. pkt[Head(held[ring])].len \in Nat
        BY <4>2 DEF RestType, Record
      <4> QED
        BY <2>2, <2>4, <4>3 DEF RestType
    <3>5. passed' \in [Merged -> Nat]
      BY <2>4, ServeType DEF RestType
    <3>6. RestType'
      BY <1>2, <3>4, <3>5 DEF NodeTry, RestType
    <3> QED
      BY <3>1, <3>2, <3>3, <3>6 DEF PlanType
  <2> QED
    BY <1>2, <2>3, <2>4 DEF NodeTry, array
<1>3. CASE NodePut(n)
  <2>1. <<"node", n>> \in Ring
    BY Holders
  <2>2. Enqueue(array, <<"node", n>>)
    BY <1>3 DEF NodePut, array
  <2>3. ASSUME NEW ring \in Ring, Enqueue(array, ring)
        PROVE  /\ HeldType' /\ held'[array] = << >> /\ held[array] # << >>
               /\ \A c \in Array \ {array} : held'[c] = held[c]
    BY <1>0, <2>3, EnqueueHeld
  <2>4. /\ HeldType' /\ held'[array] = << >> /\ held[array] # << >>
        /\ \A c \in Array \ {array} : held'[c] = held[c]
    BY <2>1, <2>2, <2>3, Zenon
  <2>5. Len(held'[array]) <= 1
    BY <2>4
  <2>6. plan[n] # << >>
    BY <2>4 DEF ArraysOK, array
  <2>7. AfterPacket(intra_node, plan[n]) \in NodePlans(n)
    BY <2>6, AfterPacketType DEF NodePlans, PlanType
  <2>8. /\ PlanType'
        /\ \A k \in Node : k # n => plan'[k] = plan[k]
        /\ plan'[Forwarding] = plan[Forwarding]
    BY <1>3, <2>7, NodePlanStep DEF NodePut
  <2>9. UNCHANGED <<fwd_count, tx_counted>>
    BY <1>3 DEF NodePut
  <2>10. ArraysOK'
    <3>1. \A k \in Node : array # <<"node array", k>> => plan'[k] = plan[k]
      BY <2>8 DEF array
    <3>2. \A k \in Node : array = <<"node array", k>> => (held'[array] # << >> => plan'[k] # << >>)
      BY <2>4
    <3> QED
      BY <1>0, <2>4, <2>5, <2>8, <2>9, <3>1, <3>2, ArraysStep
  <2> QED
    BY <1>3, <2>4, <2>8, <2>10 DEF NodePut, RestType
<1> QED
  BY <1>1, <1>2, <1>3 DEF NodeStep

LEMMA FwdPlanStep ==
  ASSUME PlanType, NEW q \in FwdPlans, plan' = [plan EXCEPT ![Forwarding] = q]
  PROVE  /\ PlanType' /\ plan'[Forwarding] = q
         /\ \A k \in Node : plan'[k] = plan[k]
<1>1. /\ plan'[Forwarding] = q /\ DOMAIN plan' = 0 .. NODES
      /\ \A k \in 0 .. NODES : k # Forwarding => plan'[k] = plan[k]
  BY Cores, PlanStep
<1>2. \A k \in Node : plan'[k] = plan[k]
  BY <1>1, Cores
<1>3. \A k \in Node : plan'[k] \in NodePlans(k)
  BY <1>2 DEF PlanType
<1> QED
  BY <1>1, <1>2, <1>3 DEF PlanType, NodePlans, FwdPlans, FlowsOf, Node, Forwarding

LEMMA FwdTInv ==
  ASSUME TInv, FwdStep
  PROVE  TInv'
<1> USE DEF TInv
<1>0. /\ fwdArray \in Array /\ fwdArray # rxArray
      /\ \A k \in Node : fwdArray # <<"node array", k>>
      /\ \A p \in Port : fwdArray # txArray(p)
  BY Holders, ArraysDiffer
<1>1. CASE ForwardCall
  <2>1. /\ PlanType' /\ \A k \in Node : plan'[k] = plan[k]
    BY <1>1, InterPlanType, FwdPlanStep DEF ForwardCall
  <2>2. held[fwdArray] = << >> /\ fwd_count = NoCount /\ UNCHANGED <<held, fwd_count, tx_counted>>
    BY <1>1 DEF ForwardCall, Loops
  <2>3. ArraysOK'
    BY <2>1, <2>2 DEF ArraysOK, txArray
  <2> QED
    BY <1>1, <2>1, <2>3 DEF ForwardCall, HeldType, RestType
<1>2. CASE ForwardTry
  <2> DEFINE ring == Head(plan[Forwarding]).ring
  <2>1. plan[Forwarding] # << >> /\ ring \in Ring /\ Tail(plan[Forwarding]) \in FwdPlans
    BY <1>2, PlanHead DEF ForwardTry
  <2>2. fwd_count = NoCount /\ held[fwdArray] = << >> /\ UNCHANGED <<fwd_count, tx_counted>>
    BY <1>2 DEF ForwardTry
  <2>3. CASE /\ held[ring] = << >>
             /\ plan' = [plan EXCEPT ![Forwarding] = Tail(@)]
             /\ UNCHANGED <<held, passed>>
    <3>1. /\ PlanType' /\ \A k \in Node : plan'[k] = plan[k]
      BY <2>1, <2>3, FwdPlanStep
    <3>2. ArraysOK'
      BY <2>2, <2>3, <3>1 DEF ArraysOK, txArray
    <3> QED
      BY <1>2, <2>3, <3>1, <3>2 DEF ForwardTry, RestType, HeldType
  <2>4. CASE Dequeue(ring, fwdArray) /\ Serve(ring) /\ UNCHANGED plan
    <3> HIDE DEF ring
    <3>1. /\ HeldType' /\ Len(held'[fwdArray]) <= 1
          /\ \A c \in Array \ {fwdArray} : held'[c] = held[c]
      BY <1>0, <2>1, <2>4, DequeueHeld
    <3>2. ArraysOK'
      BY <1>0, <2>1, <2>2, <2>4, <3>1, ArraysStep
    <3>3. passed' \in [Merged -> Nat]
      BY <2>4, ServeType DEF RestType
    <3>4. RestType'
      BY <1>2, <3>3 DEF ForwardTry, RestType
    <3> QED
      BY <2>4, <3>1, <3>2, <3>4 DEF PlanType
  <2> QED
    BY <1>2, <2>3, <2>4 DEF ForwardTry
<1>3. CASE ForwardTx
  <2>1. <<"tx", DefaultPort>> \in Ring /\ DefaultPort \in Port
    BY Holders, PortAssumption
  <2>2. ASSUME NEW ring \in Ring, Enqueue(fwdArray, ring)
        PROVE  /\ HeldType' /\ held'[fwdArray] = << >> /\ held[fwdArray] # << >>
               /\ \A c \in Array \ {fwdArray} : held'[c] = held[c]
    BY <1>0, <2>2, EnqueueHeld
  <2>3. Enqueue(fwdArray, <<"tx", DefaultPort>>) /\ UNCHANGED <<plan, tx_counted>>
    BY <1>3 DEF ForwardTx
  <2>4. /\ HeldType' /\ held'[fwdArray] = << >> /\ held[fwdArray] # << >>
        /\ \A c \in Array \ {fwdArray} : held'[c] = held[c]
    BY <2>1, <2>2, <2>3, Zenon
  <2>5. Len(held'[fwdArray]) <= 1
    BY <2>4
  <2>6. plan'[Forwarding] # << >>
    BY <2>3, <2>4 DEF ArraysOK
  <2>7. ArraysOK'
    BY <1>0, <2>3, <2>4, <2>5, <2>6, ArraysStep
  <2>8. RestType'
    <3>1. held[fwdArray] \in Seq(Mbuf)
      BY <1>0, Holders DEF HeldType
    <3>2. Head(held[fwdArray]) \in Mbuf
      BY <2>4, <3>1
    <3>3. Handed(Head(held[fwdArray]), DefaultPort) \in Count
      BY <2>1, <3>2, HandedType
    <3> QED
      BY <1>3, <3>3 DEF ForwardTx, RestType
  <2> QED
    BY <2>3, <2>4, <2>7, <2>8 DEF PlanType
<1>4. CASE ForwardCount
  <2>1. plan[Forwarding] # << >>
    BY <1>4 DEF ForwardCount, ArraysOK
  <2>2. AfterPacket(inter_node, plan[Forwarding]) \in FwdPlans
    BY <2>1, AfterPacketType DEF PlanType, FwdPlans
  <2>3. /\ PlanType' /\ \A k \in Node : plan'[k] = plan[k]
    BY <1>4, <2>2, FwdPlanStep DEF ForwardCount
  <2>4. fwd_count \in Count /\ CountIn(fwd_count)
    BY <1>4 DEF ForwardCount, RestType
  <2>5. qlen_in' \in [Port -> 0 .. WORD - 1] /\ misread' \in [Port -> Int]
    BY <2>4, CountInType
  <2>6. RestType'
    BY <1>4, <2>5 DEF ForwardCount, RestType
  <2>7. fwd_count' = NoCount /\ held[fwdArray] = << >> /\ UNCHANGED <<held, tx_counted>>
    BY <1>4 DEF ForwardCount, ArraysOK
  <2> QED
    BY <2>3, <2>6, <2>7 DEF HeldType, ArraysOK, txArray
<1> QED
  BY <1>1, <1>2, <1>3, <1>4 DEF FwdStep

LEMMA TxTInv ==
  ASSUME TInv, NEW p \in Port, TxStep(p)
  PROVE  TInv'
<1> USE DEF TInv
<1> DEFINE array == txArray(p)
<1>0. /\ array \in Array /\ array # rxArray /\ array # fwdArray
      /\ \A k \in Node : array # <<"node array", k>>
      /\ \A q \in Port : array = txArray(q) => q = p
  BY Holders, ArraysDiffer
<1>1. CASE TxDequeue(p)
  <2> HIDE DEF array
  <2>1. <<"tx", p>> \in Ring
    BY Holders
  <2>2. ASSUME NEW ring \in Ring, Dequeue(ring, array)
        PROVE  /\ HeldType' /\ Len(held'[array]) <= 1 /\ held'[array] # << >>
               /\ \A c \in Array \ {array} : held'[c] = held[c]
    BY <1>0, <2>2, DequeueHeld
  <2>3. Dequeue(<<"tx", p>>, array) /\ UNCHANGED <<plan, fwd_count, tx_counted>>
    BY <1>1 DEF TxDequeue, loopVars, array
  <2>4. /\ HeldType' /\ Len(held'[array]) <= 1 /\ held'[array] # << >>
        /\ \A c \in Array \ {array} : held'[c] = held[c]
    BY <2>1, <2>2, <2>3, Zenon
  <2>5. ArraysOK'
    BY <1>0, <2>3, <2>4, ArraysStep
  <2> QED
    BY <1>1, <2>3, <2>4, <2>5 DEF TxDequeue, loopVars, PlanType, RestType
<1>2. CASE TxCount(p)
  <2>1. pkt[Head(held[array])].len \in Nat
    <3>1. held[array] \in Seq(Mbuf) /\ held[array] # << >>
      BY <1>0, <1>2, Holders DEF TxCount, HeldType
    <3>2. Head(held[array]) \in Mbuf
      BY <3>1
    <3> QED
      BY <3>2 DEF RestType, Record
  <2>2. qlen_out' \in [Port -> 0 .. WORD - 1]
    BY <1>2, <2>1, WordType DEF TxCount, RestType
  <2>3. tx_counted' \in [Port -> BOOLEAN]
    BY <1>2 DEF TxCount, RestType
  <2>4. RestType'
    BY <1>2, <2>2, <2>3 DEF TxCount, RestType
  <2>5. ArraysOK'
    BY <1>2 DEF TxCount, RestType, ArraysOK, txArray
  <2> QED
    BY <1>2, <2>4, <2>5 DEF TxCount, HeldType, PlanType
<1>3. CASE TxSend(p)
  <2> DEFINE m == Head(held[array])
  <2>1. held[array] \in Seq(Mbuf) /\ held[array] # << >>
    BY <1>0, <1>3, Holders DEF TxSend, HeldType, ArraysOK
  <2>2. m \in Mbuf
    BY <2>1
  <2>3. << >> \in Seq(Mbuf)
    OBVIOUS
  <2>4. HeldType' /\ held'[array] = << >> /\ \A c \in Array \ {array} : held'[c] = held[c]
    BY <1>0, <1>3, <2>3, Holders DEF TxSend, HeldType
  <2>5. Len(held'[array]) <= 1
    BY <2>4
  <2>6. UNCHANGED <<plan, fwd_count>> /\ tx_counted' = [tx_counted EXCEPT ![p] = FALSE]
    BY <1>3 DEF TxSend
  <2>7. tx_counted' \in [Port -> BOOLEAN] /\ ~tx_counted'[p] /\ \A q \in Port \ {p} : tx_counted'[q] = tx_counted[q]
    BY <2>6 DEF RestType
  <2>8. ArraysOK'
    <3> HIDE DEF array
    <3>1. \A q \in Port : array # txArray(q) => tx_counted'[q] = tx_counted[q]
      BY <2>7 DEF array
    <3>2. \A q \in Port : array = txArray(q) => (tx_counted'[q] => held'[array] # << >>)
      BY <1>0, <2>7
    <3> QED
      BY <1>0, <2>4, <2>5, <2>6, <3>1, <3>2, ArraysStep
  <2>9. [Blank EXCEPT !.len = pkt[m].len] \in Record
    BY <2>2 DEF Blank, Record, Port, RestType
  <2>10. pkt' \in [Mbuf -> Record] /\ pool' \subseteq Mbuf
    BY <1>3, <2>2, <2>9 DEF TxSend, RestType
  <2>11. [port |-> pkt[m].port, flow |-> pkt[m].flow, no |-> pkt[m].no, out |-> p]
           \in [port : Port, flow : Flow \cup {NoFlow}, no : Nat, out : Port]
    BY <2>2 DEF RestType, Record
  <2>12. sent' \in Seq([port : Port, flow : Flow \cup {NoFlow}, no : Nat, out : Port])
    <3>1. \A S : \A s \in Seq(S), e \in S : Append(s, e) \in Seq(S)
      OBVIOUS
    <3> QED
      BY <1>3, <2>11, <3>1 DEF TxSend, RestType
  <2>13. RestType'
    BY <1>3, <2>7, <2>10, <2>12 DEF TxSend, RestType
  <2> QED
    BY <2>4, <2>6, <2>8, <2>13 DEF PlanType
<1> QED
  BY <1>1, <1>2, <1>3 DEF TxStep

LEMMA NextTInv == TInv /\ [Next]_vars => TInv'
<1> SUFFICES ASSUME TInv, [Next]_vars PROVE TInv'
  OBVIOUS
<1>1. CASE RxStep \/ R2fStep \/ FwdStep
  BY <1>1, RxTInv, R2fTInv, FwdTInv
<1>2. CASE \E n \in Node : NodeStep(n)
  BY <1>2, NodeTInv
<1>3. CASE \E p \in Port : TxStep(p)
  BY <1>3, TxTInv
<1>4. CASE signal_handler
  BY <1>4 DEF signal_handler, loopVars, TInv, HeldType, PlanType, RestType, ArraysOK
<1>5. CASE UNCHANGED vars
  BY <1>5 DEF vars, loopVars, TInv, HeldType, PlanType, RestType, ArraysOK
<1> QED
  BY <1>1, <1>2, <1>3, <1>4, <1>5 DEF Next

\* TypeOK: whatever the traffic and the interleaving of the cores, the rings,
\* counters and plans of the scheduler keep their types.
THEOREM SchedulerTypeCorrect == Spec => []TypeOK
<1>1. TInv => TypeOK
  BY TypeParts DEF TInv
<1> QED
  BY <1>1, InitTInv, NextTInv, PTL DEF Spec

-----------------------------------------------------------------------------
(* Buffers.  With a pool that fits a ring no enqueue can fail: a ring and  *)
(* an array together hold different buffers, so the ring has room for the  *)
(* packet in the array.                                                    *)

PoolFits == Cardinality(Mbuf) <= RingCap

Places == Distinct(held, pool) /\ Kept(held, pool, Mbuf)

LEMMA PlacesAccounted ==
  ASSUME HeldType
  PROVE  Places <=> BuffersAccounted
<1>1. DOMAIN held = Holder
  BY DEF HeldType
<1>2. Distinct(held, pool) <=> BuffersDistinct
  BY <1>1 DEF Distinct, BuffersDistinct
<1>3. Kept(held, pool, Mbuf) <=> BuffersKept
  BY <1>1 DEF Kept, BuffersKept
<1> QED
  BY <1>2, <1>3 DEF Places, BuffersAccounted

\* What Tail, Append and concatenation do to domains and elements.
LEMMA Sequences1 ==
  ASSUME NEW S, NEW s \in Seq(S)
  PROVE  /\ Len(s) \in Nat /\ DOMAIN s = 1 .. Len(s) /\ \A i \in 1 .. Len(s) : s[i] \in S
         /\ s # << >> => /\ Len(s) \in Nat \ {0} /\ Head(s) = s[1]
                        /\ DOMAIN Tail(s) = 1 .. Len(s) - 1
                        /\ \A i \in 1 .. Len(s) - 1 : Tail(s)[i] = s[i + 1]
         /\ \A e : /\ DOMAIN Append(s, e) = 1 .. Len(s) + 1 /\ Append(s, e)[Len(s) + 1] = e
                  /\ \A i \in 1 .. Len(s) : Append(s, e)[i] = s[i]
  OBVIOUS

LEMMA Sequences2 ==
  ASSUME NEW S, NEW s \in Seq(S), NEW t \in Seq(S)
  PROVE  /\ DOMAIN (s \o t) = 1 .. Len(s) + Len(t)
         /\ \A i \in 1 .. Len(s) : (s \o t)[i] = s[i]
         /\ \A i \in Len(s) + 1 .. Len(s) + Len(t) : (s \o t)[i] = t[i - Len(s)]
  OBVIOUS

LEMMA DequeuePlaces ==
  ASSUME HeldType, Places, NEW ring \in Ring, NEW array \in Array, held[array] = << >>,
         Dequeue(ring, array), pool' = pool
  PROVE  Places'
<1>1. /\ HeldType' /\ held[ring] \in Seq(Mbuf) /\ held[ring] # << >>
      /\ held'[ring] = Tail(held[ring]) /\ held'[array] = <<Head(held[ring])>>
      /\ \A c \in Holder \ {ring, array} : held'[c] = held[c]
  BY DequeueHeld
<1>2. ring \in Holder /\ array \in Holder /\ ring # array
  BY Holders
<1>3. DOMAIN held = Holder /\ DOMAIN held' = Holder
  BY <1>1 DEF HeldType
<1>4. /\ Len(held[ring]) \in Nat \ {0} /\ DOMAIN held[ring] = 1 .. Len(held[ring])
      /\ Head(held[ring]) = held[ring][1]
      /\ DOMAIN Tail(held[ring]) = 1 .. Len(held[ring]) - 1
      /\ \A i \in 1 .. Len(held[ring]) - 1 : Tail(held[ring])[i] = held[ring][i + 1]
  BY <1>1, Sequences1
<1>5. DOMAIN held'[array] = {1} /\ held'[array][1] = held[ring][1]
  BY <1>1, <1>4
<1>6. DOMAIN held[array] = {}
  OBVIOUS
<1> DEFINE n == Len(held[ring])
<1>9. /\ n \in Nat \ {0} /\ DOMAIN held[ring] = 1 .. n /\ DOMAIN held'[ring] = 1 .. n - 1
      /\ \A i \in 1 .. n - 1 : held'[ring][i] = held[ring][i + 1]
      /\ \A c \in Holder \ {ring, array} : held'[c] = held[c]
  BY <1>1, <1>4
<1>10. Distinct(held, pool) /\ Kept(held, pool, Mbuf)
  BY DEF Places
<1> HIDE DEF n
<1>7. Distinct(held', pool)
  BY <1>2, <1>3, <1>5, <1>9, <1>10, TakenDistinct
<1>8. Kept(held', pool, Mbuf)
  BY <1>2, <1>3, <1>5, <1>6, <1>9, <1>10, TakenKept
<1> QED
  BY <1>7, <1>8 DEF Places, Distinct, Kept

LEMMA EnqueuePlaces ==
  ASSUME HeldType, Places, PoolFits, NEW ring \in Ring, NEW array \in Array, Len(held[array]) <= 1,
         Enqueue(array, ring), pool' = pool
  PROVE  Places' /\ held'[ring] = Append(held[ring], Head(held[array]))
<1>1. /\ HeldType' /\ held[array] \in Seq(Mbuf) /\ held[array] # << >>
      /\ held'[array] = << >>
      /\ held'[ring] = IF Len(held[ring]) < RingCap THEN Append(held[ring], Head(held[array])) ELSE held[ring]
      /\ \A c \in Holder \ {ring, array} : held'[c] = held[c]
  BY EnqueueHeld
<1>2. ring \in Holder /\ array \in Holder /\ ring # array /\ held[ring] \in Seq(Mbuf)
  BY Holders DEF HeldType
<1>3. DOMAIN held = Holder /\ DOMAIN held' = Holder
  BY <1>1 DEF HeldType
<1>4. /\ Len(held[array]) \in Nat \ {0} /\ DOMAIN held[array] = 1 .. Len(held[array])
      /\ Head(held[array]) = held[array][1] /\ \A i \in 1 .. Len(held[array]) : held[array][i] \in Mbuf
  BY <1>1, Sequences1
<1>5. Len(held[array]) = 1
  <2>1. \A k \in Nat \ {0} : k <= 1 => k = 1
    OBVIOUS
  <2> QED
    BY <1>4, <2>1
<1>6. /\ Len(held[ring]) \in Nat /\ DOMAIN held[ring] = 1 .. Len(held[ring])
      /\ \A i \in 1 .. Len(held[ring]) : held[ring][i] \in Mbuf
      /\ \A e : /\ DOMAIN Append(held[ring], e) = 1 .. Len(held[ring]) + 1
                /\ Append(held[ring], e)[Len(held[ring]) + 1] = e
                /\ \A i \in 1 .. Len(held[ring]) : Append(held[ring], e)[i] = held[ring][i]
  BY <1>2, Sequences1
<1>7. Len(held[ring]) + Len(held[array]) <= Cardinality(Mbuf)
  <2> DEFINE n == Len(held[ring])
             k == Len(held[array])
  <2>1. /\ n \in Nat /\ k \in Nat /\ DOMAIN held[ring] = 1 .. n /\ DOMAIN held[array] = 1 .. k
        /\ \A i \in 1 .. n : held[ring][i] \in Mbuf
        /\ \A i \in 1 .. k : held[array][i] \in Mbuf
        /\ Distinct(held, pool)
    BY <1>4, <1>6 DEF Places
  <2> HIDE DEF n, k
  <2>2. n + k <= Cardinality(Mbuf)
    BY <1>2, <1>3, <2>1, PoolAssumption, Room
  <2> QED
    BY <2>2 DEF n, k
<1>8. Cardinality(Mbuf) \in Nat
  BY PoolAssumption, FS_CardinalityType
<1>9. Len(held[ring]) < RingCap
  BY <1>5, <1>6, <1>7, <1>8, SizeAssumption DEF PoolFits
<1>10. held'[ring] = Append(held[ring], Head(held[array]))
  BY <1>1, <1>9
<1>11. /\ DOMAIN held'[ring] = 1 .. Len(held[ring]) + 1
       /\ \A i \in 1 .. Len(held[ring]) : held'[ring][i] = held[ring][i]
       /\ \A i \in Len(held[ring]) + 1 .. Len(held[ring]) + 1 : held'[ring][i] = held[array][i - Len(held[ring])]
  <2>1. held'[ring][Len(held[ring]) + 1] = held[array][1]
    BY <1>4, <1>6, <1>10
  <2>2. \A i \in Len(held[ring]) + 1 .. Len(held[ring]) + 1 : i = Len(held[ring]) + 1 /\ i - Len(held[ring]) = 1
    BY <1>6
  <2> QED
    BY <1>6, <1>10, <2>1, <2>2
<1>12. DOMAIN held'[array] = {} /\ DOMAIN held[array] = 1 .. 1
  BY <1>1, <1>4, <1>5
<1> DEFINE n == Len(held[ring])
<1>13. /\ n \in Nat /\ 1 \in Nat /\ DOMAIN held[ring] = 1 .. n /\ DOMAIN held'[ring] = 1 .. n + 1
       /\ \A i \in 1 .. n : held'[ring][i] = held[ring][i]
       /\ \A i \in n + 1 .. n + 1 : held'[ring][i] = held[array][i - n]
       /\ \A c \in Holder \ {array, ring} : held'[c] = held[c]
  BY <1>1, <1>6, <1>11
<1>14. Distinct(held, pool) /\ Kept(held, pool, Mbuf)
  BY DEF Places
<1> HIDE DEF n
<1>15. Poured(Holder, held, held', array, ring, n, 1)
  BY <1>2, <1>3, <1>12, <1>13 DEF Poured
<1>16. Distinct(held', pool)
  BY <1>14, <1>15, PouredDistinct
<1>17. Kept(held', pool, Mbuf)
  BY <1>14, <1>15, PouredKept
<1> QED
  BY <1>10, <1>16, <1>17 DEF Places, Distinct, Kept

LEMMA SameHeld ==
  ASSUME Places, UNCHANGED <<held, pool>>
  PROVE  Places'
  BY DEF Places, Distinct, Kept

\* The burst goes behind what its ring holds.
LEMMA RxPoured ==
  ASSUME TInv, RxEnqueue
  PROVE  Poured(Holder, held, held', rxArray, <<"rx", rx_port>>,
                Len(held[<<"rx", rx_port>>]), Len(held[rxArray]))
<1> USE DEF TInv
<1>0. rxArray \in Holder /\ DOMAIN held = Holder
  BY Holders DEF HeldType
<1> DEFINE ring == <<"rx", rx_port>>
<1>1. ring \in Holder /\ ring # rxArray
  BY Holders DEF RestType
<1>2. held[ring] \in Seq(Mbuf) /\ held[rxArray] \in Seq(Mbuf)
  BY <1>0, <1>1 DEF HeldType
<1>3. /\ held'[ring] = held[ring] \o held[rxArray] /\ held'[rxArray] = << >>
      /\ \A c \in Holder \ {rxArray, ring} : held'[c] = held[c]
      /\ DOMAIN held' = Holder /\ pool' = pool
  BY <1>0, <1>1 DEF RxEnqueue
<1> HIDE DEF ring
<1>4. /\ Len(held[ring]) \in Nat /\ Len(held[rxArray]) \in Nat
      /\ DOMAIN held[ring] = 1 .. Len(held[ring]) /\ DOMAIN held[rxArray] = 1 .. Len(held[rxArray])
  BY <1>2, Sequences1
<1>5. /\ DOMAIN held'[ring] = 1 .. Len(held[ring]) + Len(held[rxArray])
      /\ \A i \in 1 .. Len(held[ring]) : held'[ring][i] = held[ring][i]
      /\ \A i \in Len(held[ring]) + 1 .. Len(held[ring]) + Len(held[rxArray]) :
           held'[ring][i] = held[rxArray][i - Len(held[ring])]
  <2>1. \A s, t \in Seq(Mbuf) :
          /\ DOMAIN (s \o t) = 1 .. Len(s) + Len(t)
          /\ \A i \in 1 .. Len(s) : (s \o t)[i] = s[i]
          /\ \A i \in Len(s) + 1 .. Len(s) + Len(t) : (s \o t)[i] = t[i - Len(s)]
    BY Sequences2
  <2> DEFINE t == held[ring] \o held[rxArray]
  <2>2. /\ DOMAIN t = 1 .. Len(held[ring]) + Len(held[rxArray])
        /\ \A i \in 1 .. Len(held[ring]) : t[i] = held[ring][i]
        /\ \A i \in Len(held[ring]) + 1 .. Len(held[ring]) + Len(held[rxArray]) :
             t[i] = held[rxArray][i - Len(held[ring])]
    BY <1>2, <2>1
  <2>3. held'[ring] = t
    BY <1>3
  <2> HIDE DEF t
  <2> QED
    BY <2>2, <2>3
<1>6. DOMAIN held'[rxArray] = {}
  BY <1>3
<1> DEFINE n == Len(held[ring])
           k == Len(held[rxArray])
<1>9. /\ n \in Nat /\ k \in Nat /\ DOMAIN held[ring] = 1 .. n /\ DOMAIN held[rxArray] = 1 .. k
      /\ DOMAIN held'[ring] = 1 .. n + k
      /\ \A i \in 1 .. n : held'[ring][i] = held[ring][i]
      /\ \A i \in n + 1 .. n + k : held'[ring][i] = held[rxArray][i - n]
  BY <1>4, <1>5
<1>11. \A c \in Holder \ {rxArray, ring} : held'[c] = held[c]
  BY <1>3
<1>12. DOMAIN held' = Holder
  BY <1>3
<1> HIDE DEF n, k
<1>13. Poured(Holder, held, held', rxArray, ring, n, k)
  BY <1>0, <1>1, <1>6, <1>9, <1>11, <1>12 DEF Poured
<1>. QED
  BY <1>13 DEF ring, n, k

LEMMA RxPlaces ==
  ASSUME TInv, Places, PoolFits, RxStep
  PROVE  Places'
<1> USE DEF TInv
<1>0. rxArray \in Holder /\ DOMAIN held = Holder
  BY Holders DEF HeldType
<1>1. CASE ReceiveBurst
  <2>1. PICK n \in 1 .. BURST : \E s \in [1 .. n -> pool] :
       /\ \A i, j \in 1 .. n : i # j => s[i] # s[j]
       /\ held' = [held EXCEPT ![rxArray] = s]
       /\ pool' = pool \ {s[i] : i \in 1 .. n}
    BY <1>1 DEF ReceiveBurst
  <2>2. PICK s \in [1 .. n -> pool] :
       /\ \A i, j \in 1 .. n : i # j => s[i] # s[j]
       /\ held' = [held EXCEPT ![rxArray] = s]
       /\ pool' = pool \ {s[i] : i \in 1 .. n}
    BY <2>1
  <2>3. n \in Nat
    BY SizeAssumption
  <2>4. held[rxArray] = << >>
    BY <1>1 DEF ReceiveBurst, Loops
  <2>5. /\ DOMAIN held' = Holder /\ held'[rxArray] = s /\ DOMAIN held[rxArray] = {}
        /\ \A c \in Holder \ {rxArray} : held'[c] = held[c]
    BY <1>0, <2>2, <2>4
  <2>6. pool' = pool \ {held'[rxArray][i] : i \in 1 .. n}
    BY <2>2, <2>5
  <2>7. /\ \A i \in 1 .. n : held'[rxArray][i] \in pool
        /\ \A i, j \in 1 .. n : i # j => held'[rxArray][i] # held'[rxArray][j]
        /\ DOMAIN held'[rxArray] = 1 .. n
    BY <2>2, <2>5
  <2>9. Filling(Holder, held, held', pool, pool', rxArray, n)
    BY <1>0, <2>3, <2>5, <2>6, <2>7 DEF Filling
  <2>8. Distinct(held', pool') /\ Kept(held', pool', Mbuf)
    BY <2>9, Filled DEF Places
  <2> QED
    BY <2>8 DEF Places, Distinct, Kept
<1>2. CASE ReceiveNothing
  BY <1>2, SameHeld DEF ReceiveNothing
<1>3. CASE RxEnqueue
  <2>1. PICK ring, n, k : Poured(Holder, held, held', rxArray, ring, n, k)
    BY <1>3, RxPoured
  <2>3. pool' = pool
    BY <1>3 DEF RxEnqueue
  <2>10. Distinct(held, pool) /\ Kept(held, pool, Mbuf)
    BY DEF Places
  <2>7. Distinct(held', pool)
    BY <2>1, <2>10, PouredDistinct
  <2>8. Kept(held', pool, Mbuf)
    BY <2>1, <2>10, PouredKept
  <2> QED
    BY <2>3, <2>7, <2>8 DEF Places, Distinct, Kept
<1> QED
  BY <1>1, <1>2, <1>3 DEF RxStep

LEMMA R2fPlaces ==
  ASSUME TInv, Places, PoolFits, R2fStep
  PROVE  Places'
<1> USE DEF TInv
<1>0. r2fArray \in Array /\ Len(held[r2fArray]) <= 1
  BY Holders, ArraysDiffer DEF ArraysOK
<1>2. ASSUME NEW ring \in Ring, Enqueue(r2fArray, ring), pool' = pool
      PROVE  Places'
  BY <1>0, <1>2, EnqueuePlaces
<1>1. CASE Rx2FlowsPoll
  <2>1. <<"rx", r2f_port>> \in Ring
    BY Holders DEF RestType
  <2>2. held[r2fArray] = << >> /\ pool' = pool
    BY <1>1 DEF Rx2FlowsPoll, Loops
  <2>3. ASSUME NEW ring \in Ring, Dequeue(ring, r2fArray)
        PROVE  Places'
    BY <1>0, <2>2, <2>3, DequeuePlaces
  <2>4. CASE Dequeue(<<"rx", r2f_port>>, r2fArray)
    BY <2>1, <2>3, <2>4, Zenon
  <2>5. CASE UNCHANGED held
    BY <2>2, <2>5, SameHeld
  <2> QED
    BY <1>1, <2>4, <2>5 DEF Rx2FlowsPoll
<1>3. CASE Rx2FlowsFlow
  <2> DEFINE m == Head(held[r2fArray])
  <2>1. m \in Mbuf
    <3>1. held[r2fArray] \in Seq(Mbuf) /\ held[r2fArray] # << >>
      BY <1>0, <1>3, Holders DEF HeldType, Rx2FlowsFlow
    <3> QED
      BY <3>1
  <2>2. <<"flow", pkt[m].flow>> \in Ring
    BY <1>3, <2>1, Holders DEF Rx2FlowsFlow, Scheduled, RestType, Record
  <2>3. Enqueue(r2fArray, <<"flow", pkt[m].flow>>) /\ pool' = pool
    BY <1>3 DEF Rx2FlowsFlow
  <2> QED
    BY <1>2, <2>2, <2>3, Zenon
<1>4. CASE Rx2FlowsTx
  <2>1. <<"tx", Bypass>> \in Ring
    BY Holders, PortAssumption DEF Bypass
  <2>2. Enqueue(r2fArray, <<"tx", Bypass>>) /\ pool' = pool
    BY <1>4 DEF Rx2FlowsTx
  <2> QED
    BY <1>2, <2>1, <2>2, Zenon
<1>5. CASE Rx2FlowsCount
  BY <1>5, SameHeld DEF Rx2FlowsCount
<1> QED
  BY <1>1, <1>3, <1>4, <1>5 DEF R2fStep

LEMMA NodePlaces ==
  ASSUME TInv, Places, PoolFits, NEW n \in Node, NodeStep(n)
  PROVE  Places'
<1> USE DEF TInv
<1> DEFINE array == <<"node array", n>>
<1>0. array \in Array /\ Len(held[array]) <= 1
  BY Holders, ArraysDiffer DEF ArraysOK
<1> HIDE DEF array
<1>1. CASE NodeCall(n)
  BY <1>1, SameHeld DEF NodeCall
<1>2. CASE NodeTry(n)
  <2> DEFINE ring == Head(plan[n]).ring
  <2>1. ring \in Ring
    BY <1>2, PlanHead DEF NodeTry
  <2>2. held[array] = << >> /\ pool' = pool
    BY <1>2 DEF NodeTry, array
  <2>3. CASE UNCHANGED held
    BY <2>2, <2>3, SameHeld
  <2>4. CASE Dequeue(ring, array)
    <3> HIDE DEF ring
    <3> QED
      BY <1>0, <2>1, <2>2, <2>4, DequeuePlaces
  <2> QED
    BY <1>2, <2>3, <2>4 DEF NodeTry, array
<1>3. CASE NodePut(n)
  <2>1. <<"node", n>> \in Ring
    BY Holders
  <2>2. Enqueue(array, <<"node", n>>) /\ pool' = pool
    BY <1>3 DEF NodePut, array
  <2>3. ASSUME NEW ring \in Ring, Enqueue(array, ring)
        PROVE  Places'
    BY <1>0, <2>2, <2>3, EnqueuePlaces
  <2> QED
    BY <2>1, <2>2, <2>3, Zenon
<1> QED
  BY <1>1, <1>2, <1>3 DEF NodeStep

LEMMA FwdPlaces ==
  ASSUME TInv, Places, PoolFits, FwdStep
  PROVE  Places'
<1> USE DEF TInv
<1>0. fwdArray \in Array /\ Len(held[fwdArray]) <= 1
  BY Holders, ArraysDiffer DEF ArraysOK
<1>1. CASE ForwardCall
  BY <1>1, SameHeld DEF ForwardCall
<1>2. CASE ForwardTry
  <2> DEFINE ring == Head(plan[Forwarding]).ring
  <2>1. ring \in Ring
    BY <1>2, PlanHead DEF ForwardTry
  <2>2. held[fwdArray] = << >> /\ pool' = pool
    BY <1>2 DEF ForwardTry
  <2>3. CASE UNCHANGED held
    BY <2>2, <2>3, SameHeld
  <2>4. CASE Dequeue(ring, fwdArray)
    <3> HIDE DEF ring
    <3> QED
      BY <1>0, <2>1, <2>2, <2>4, DequeuePlaces
  <2> QED
    BY <1>2, <2>3, <2>4 DEF ForwardTry
<1>3. CASE ForwardTx
  <2>1. <<"tx", DefaultPort>> \in Ring
    BY Holders, PortAssumption
  <2>2. Enqueue(fwdArray, <<"tx", DefaultPort>>) /\ pool' = pool
    BY <1>3 DEF ForwardTx
  <2>3. ASSUME NEW ring \in Ring, Enqueue(fwdArray, ring)
        PROVE  Places'
    BY <1>0, <2>2, <2>3, EnqueuePlaces
  <2> QED
    BY <2>1, <2>2, <2>3, Zenon
<1>4. CASE ForwardCount
  BY <1>4, SameHeld DEF ForwardCount
<1> QED
  BY <1>1, <1>2, <1>3, <1>4 DEF FwdStep

LEMMA TxPlaces ==
  ASSUME TInv, Places, PoolFits, NEW p \in Port, TxStep(p)
  PROVE  Places'
<1> USE DEF TInv
<1> DEFINE array == txArray(p)
<1>0. array \in Array /\ array \in Holder /\ Len(held[array]) <= 1 /\ DOMAIN held = Holder
  BY Holders, ArraysDiffer DEF ArraysOK, HeldType
<1> HIDE DEF array
<1>1. CASE TxDequeue(p)
  <2>1. <<"tx", p>> \in Ring
    BY Holders
  <2>2. Dequeue(<<"tx", p>>, array) /\ held[array] = << >> /\ pool' = pool
    BY <1>1 DEF TxDequeue, Loops, array
  <2>3. ASSUME NEW ring \in Ring, Dequeue(ring, array)
        PROVE  Places'
    BY <1>0, <2>2, <2>3, DequeuePlaces
  <2> QED
    BY <2>1, <2>2, <2>3, Zenon
<1>2. CASE TxCount(p)
  BY <1>2, SameHeld DEF TxCount
<1>3. CASE TxSend(p)
  <2>1. held[array] \in Seq(Mbuf) /\ held[array] # << >>
    BY <1>0, <1>3 DEF TxSend, HeldType, ArraysOK, array
  <2>2. Len(held[array]) \in Nat \ {0} /\ DOMAIN held[array] = 1 .. Len(held[array]) /\ Head(held[array]) = held[array][1]
    BY <2>1, Sequences1
  <2>3. DOMAIN held[array] = {1}
    <3>1. \A k \in Nat \ {0} : k <= 1 => 1 .. k = {1}
      OBVIOUS
    <3> QED
      BY <1>0, <2>2, <3>1
  <2>4. /\ held'[array] = << >> /\ \A c \in Holder \ {array} : held'[c] = held[c]
        /\ DOMAIN held' = Holder /\ pool' = pool \cup {held[array][1]}
    BY <1>0, <1>3, <2>2 DEF TxSend, array
  <2>5. DOMAIN held'[array] = {}
    BY <2>4
  <2>6. Distinct(held, pool) /\ Kept(held, pool, Mbuf)
    BY DEF Places
  <2>7. Distinct(held', pool') /\ Kept(held', pool', Mbuf)
    BY <1>0, <2>3, <2>4, <2>5, <2>6, Freed
  <2> QED
    BY <2>7 DEF Places, Distinct, Kept
<1> QED
  BY <1>1, <1>2, <1>3 DEF TxStep

LEMMA NextPlaces ==
  ASSUME TInv, Places, PoolFits, [Next]_vars
  PROVE  Places'
<1>1. CASE RxStep
  BY <1>1, RxPlaces
<1>2. CASE R2fStep
  BY <1>2, R2fPlaces
<1>3. CASE FwdStep
  BY <1>3, FwdPlaces
<1>4. CASE \E n \in Node : NodeStep(n)
  BY <1>4, NodePlaces
<1>5. CASE \E p \in Port : TxStep(p)
  BY <1>5, TxPlaces
<1>6. CASE signal_handler
  BY <1>6, SameHeld DEF signal_handler
<1>7. CASE UNCHANGED vars
  BY <1>7, SameHeld DEF vars
<1> QED
  BY <1>1, <1>2, <1>3, <1>4, <1>5, <1>6, <1>7 DEF Next

LEMMA InitPlaces == Init => Places
<1> SUFFICES ASSUME Init PROVE Places
  OBVIOUS
<1>1. DOMAIN held = Holder /\ \A h \in Holder : DOMAIN held[h] = {}
  BY DEF Init
<1>2. pool = Mbuf
  BY DEF Init
<1> QED
  BY <1>1, <1>2 DEF Places, Distinct, Kept

\* BuffersAccounted: when the pool has no more buffers than a ring has slots,
\* no packet is dropped by an enqueue whose result nobody looks at, and no
\* buffer is ever freed or queued twice, whatever the policies, the traffic and
\* the interleaving of the cores.
THEOREM BuffersNeverLost ==
  ASSUME PoolFits
  PROVE  Spec => []BuffersAccounted
<1>1. Init => TInv /\ Places
  BY InitTInv, InitPlaces
<1>2. TInv /\ Places /\ [Next]_vars => (TInv /\ Places)'
  BY NextTInv, NextPlaces
<1>3. TInv /\ Places => BuffersAccounted
  BY PlacesAccounted DEF TInv
<1> QED
  BY <1>1, <1>2, <1>3, PTL DEF Spec

-----------------------------------------------------------------------------
(* The counters of the output queues.  They wrap, so what is kept is that  *)
(* they are right but for a multiple of WORD.                              *)

\* f[n] is the number of bytes of the first n packets of q.
Sums(k, q, f) == f[0] = 0 /\ \A n \in 1 .. Len(q) : f[n] = f[n - 1] + k[q[n]].len

Measured(k, q) == q \in Seq(Mbuf) /\ \A n \in 1 .. Len(q) : k[q[n]].len \in Int

LEMMA BytesAre ==
  ASSUME NEW k, NEW q, Measured(k, q), NEW f \in [0 .. Len(q) -> Int], Sums(k, q, f)
  PROVE  Bytes(k, q) = f[Len(q)]
<1> DEFINE L == Len(q)
           Steps(t) == t = [n \in 0 .. L |-> IF n = 0 THEN 0 ELSE t[n - 1] + k[q[n]].len]
           h == CHOOSE t : Steps(t)
<1>0. L \in Nat
  BY DEF Measured
<1>1. Steps(f)
  <2>1. ASSUME NEW n \in 0 .. L PROVE f[n] = IF n = 0 THEN 0 ELSE f[n - 1] + k[q[n]].len
    BY <1>0 DEF Sums
  <2> QED
    BY <2>1
<1>2. Steps(h)
  BY <1>1
<1>3. Bytes(k, q) = h[L]
  BY DEF Bytes
<1> HIDE DEF h
<1> DEFINE S == {n \in Nat : n <= L => h[n] = f[n]}
<1>4. 0 \in S
  BY <1>0, <1>2 DEF Sums
<1>5. ASSUME NEW n \in Nat, n \in S PROVE n + 1 \in S
  <2> SUFFICES ASSUME n + 1 <= L PROVE h[n + 1] = f[n + 1]
    OBVIOUS
  <2>1. h[n] = f[n] /\ n + 1 \in 1 .. L /\ n + 1 \in 0 .. L /\ n + 1 # 0 /\ (n + 1) - 1 = n
    BY <1>0, <1>5
  <2>2. h[n + 1] = h[n] + k[q[n + 1]].len
    BY <1>2, <2>1
  <2>3. f[n + 1] = f[n] + k[q[n + 1]].len
    BY <2>1 DEF Sums
  <2> QED
    BY <2>1, <2>2, <2>3
<1> HIDE DEF S
<1>6. \A n \in Nat : n \in S
  BY <1>4, <1>5, SetInduction
<1> QED
  BY <1>0, <1>3, <1>6 DEF S

LEMMA SumsExist ==
  ASSUME NEW k, NEW q, Measured(k, q)
  PROVE  \E f \in [0 .. Len(q) -> Int] : Sums(k, q, f)
<1> DEFINE L == Len(q)
           G == [n \in Nat |-> [s \in Int |-> IF n < L THEN s + k[q[n + 1]].len ELSE s]]
<1>0. L \in Nat
  BY DEF Measured
<1>1. G \in [Nat -> [Int -> Int]]
  <2>1. ASSUME NEW n \in Nat, NEW s \in Int, n < L PROVE s + k[q[n + 1]].len \in Int
    <3>1. n + 1 \in 1 .. L
      BY <1>0, <2>1
    <3>2. k[q[n + 1]].len \in Int
      BY <3>1 DEF Measured
    <3> QED
      BY <3>2
  <2> QED
    BY <2>1
<1>2. \A n \in Nat, s \in Int : G[n][s] = IF n < L THEN s + k[q[n + 1]].len ELSE s
  OBVIOUS
<1> HIDE DEF G
<1>3. PICK f \in [Nat -> Int] : Follows(0, G, f)
  BY <1>1, 0 \in Int, RecursiveFunction
<1>4. ASSUME NEW n \in 1 .. L PROVE f[n] = f[n - 1] + k[q[n]].len
  <2>1. n - 1 \in Nat /\ n - 1 + 1 = n /\ n - 1 < L
    BY <1>0
  <2>2. f[n - 1] \in Int /\ f[n - 1 + 1] = G[n - 1][f[n - 1]]
    BY <1>3, <2>1 DEF Follows
  <2>3. G[n - 1][f[n - 1]] = f[n - 1] + k[q[n - 1 + 1]].len
    BY <1>2, <2>1, <2>2
  <2> QED
    BY <2>1, <2>2, <2>3
<1> DEFINE g == [n \in 0 .. L |-> f[n]]
<1>5. g \in [0 .. L -> Int] /\ g[0] = 0
  BY <1>0, <1>3 DEF Follows
<1>6. ASSUME NEW n \in 1 .. L PROVE g[n] = g[n - 1] + k[q[n]].len
  <2>1. n \in 0 .. L /\ n - 1 \in 0 .. L
    BY <1>0
  <2> QED
    BY <1>4, <2>1
<1> HIDE DEF g
<1>7. Sums(k, q, g)
  BY <1>5, <1>6 DEF Sums
<1> QED
  BY <1>5, <1>7

LEMMA BytesSum ==
  ASSUME NEW k, NEW q, Measured(k, q)
  PROVE  /\ Bytes(k, q) \in Int
         /\ \E f \in [0 .. Len(q) -> Int] : Sums(k, q, f) /\ Bytes(k, q) = f[Len(q)]
<1>1. PICK f \in [0 .. Len(q) -> Int] : Sums(k, q, f)
  BY SumsExist
<1>2. Bytes(k, q) = f[Len(q)]
  BY <1>1, BytesAre
<1>3. Len(q) \in 0 .. Len(q)
  BY DEF Measured
<1> QED
  BY <1>1, <1>2, <1>3

LEMMA BytesNone ==
  ASSUME NEW k
  PROVE  Bytes(k, << >>) = 0
<1>1. Measured(k, << >>)
  BY DEF Measured
<1>2. PICK f \in [0 .. Len(<< >>) -> Int] : Sums(k, << >>, f) /\ Bytes(k, << >>) = f[Len(<< >>)]
  BY <1>1, BytesSum
<1> QED
  BY <1>2 DEF Sums

LEMMA BytesAppend ==
  ASSUME NEW k, NEW q, Measured(k, q), NEW m \in Mbuf, k[m].len \in Int
  PROVE  Bytes(k, Append(q, m)) = Bytes(k, q) + k[m].len
<1> DEFINE L == Len(q)
           r == Append(q, m)
<1>1. PICK f \in [0 .. L -> Int] : Sums(k, q, f) /\ Bytes(k, q) = f[L]
  BY BytesSum
<1>2. /\ q \in Seq(Mbuf) /\ L \in Nat /\ r \in Seq(Mbuf) /\ Len(r) = L + 1 /\ r[L + 1] = m
      /\ \A i \in 1 .. L : r[i] = q[i]
  BY DEF Measured
<1> DEFINE g == [n \in 0 .. L + 1 |-> IF n = L + 1 THEN f[L] + k[m].len ELSE f[n]]
<1>3. f[L] \in Int
  BY <1>2
<1>4. g \in [0 .. L + 1 -> Int]
  BY <1>2, <1>3
<1>5. g[0] = 0 /\ g[L + 1] = f[L] + k[m].len
  BY <1>1, <1>2 DEF Sums
<1>6. ASSUME NEW n \in 1 .. L + 1 PROVE g[n] = g[n - 1] + k[r[n]].len
  <2>1. CASE n = L + 1
    <3>1. n - 1 = L /\ L # L + 1 /\ L \in 0 .. L + 1
      BY <1>2, <2>1
    <3>2. g[n - 1] = f[L]
      BY <3>1
    <3> QED
      BY <1>2, <1>5, <2>1, <3>2
  <2>2. CASE n # L + 1
    <3>1. n \in 1 .. L /\ n \in 0 .. L + 1 /\ n - 1 \in 0 .. L + 1 /\ n - 1 # L + 1
      BY <1>2, <2>2
    <3>2. g[n] = f[n] /\ g[n - 1] = f[n - 1]
      BY <2>2, <3>1
    <3>3. f[n] = f[n - 1] + k[q[n]].len
      BY <1>1, <3>1 DEF Sums
    <3> QED
      BY <1>2, <3>1, <3>2, <3>3
  <2> QED
    BY <2>1, <2>2
<1> HIDE DEF g, r
<1>7. Sums(k, r, g)
  BY <1>2, <1>5, <1>6 DEF Sums
<1>8. Measured(k, r)
  <2>1. ASSUME NEW n \in 1 .. L + 1 PROVE k[r[n]].len \in Int
    <3>1. CASE n = L + 1
      BY <1>2, <3>1
    <3>2. CASE n # L + 1
      <4>1. n \in 1 .. L
        BY <1>2, <3>2
      <4> QED
        BY <1>2, <4>1 DEF Measured
    <3> QED
      BY <3>1, <3>2
  <2> QED
    BY <1>2, <2>1 DEF Measured
<1>9. Bytes(k, r) = g[L + 1]
  BY <1>2, <1>4, <1>7, <1>8, BytesAre
<1> QED
  BY <1>1, <1>5, <1>9 DEF r

LEMMA BytesOne ==
  ASSUME NEW k, NEW m \in Mbuf, k[m].len \in Int
  PROVE  Bytes(k, <<m>>) = k[m].len
<1>1. Measured(k, << >>)
  BY DEF Measured
<1>2. Bytes(k, Append(<< >>, m)) = Bytes(k, << >>) + k[m].len
  BY <1>1, BytesAppend
<1>3. Append(<< >>, m) = <<m>>
  OBVIOUS
<1> QED
  BY <1>2, <1>3, BytesNone

LEMMA BytesTail ==
  ASSUME NEW k, NEW q, Measured(k, q), q # << >>
  PROVE  Bytes(k, Tail(q)) = Bytes(k, q) - k[Head(q)].len
<1> DEFINE L == Len(q)
           r == Tail(q)
<1>1. PICK f \in [0 .. L -> Int] : Sums(k, q, f) /\ Bytes(k, q) = f[L]
  BY BytesSum
<1>2. q \in Seq(Mbuf)
  BY DEF Measured
<1>3. /\ L \in Nat \ {0} /\ r \in Seq(Mbuf) /\ Len(r) = L - 1 /\ Head(q) = q[1]
      /\ \A i \in 1 .. L - 1 : r[i] = q[i + 1]
  BY <1>2
<1> DEFINE g == [n \in 0 .. L - 1 |-> f[n + 1] - f[1]]
<1>4. \A n \in 0 .. L - 1 : n + 1 \in 0 .. L /\ f[n + 1] \in Int /\ f[1] \in Int
  BY <1>3
<1>5. g \in [0 .. L - 1 -> Int]
  BY <1>4
<1>6. g[0] = 0 /\ g[L - 1] = f[L] - f[1] /\ f[1] = k[q[1]].len /\ f[L] \in Int
  <2>1. f[1] = f[0] + k[q[1]].len /\ f[0] = 0 /\ k[q[1]].len \in Int
    BY <1>1, <1>3 DEF Sums, Measured
  <2>2. 0 \in 0 .. L - 1 /\ L - 1 \in 0 .. L - 1 /\ (L - 1) + 1 = L /\ 0 + 1 = 1
    BY <1>3
  <2> QED
    BY <1>4, <2>1, <2>2
<1>7. ASSUME NEW n \in 1 .. L - 1 PROVE g[n] = g[n - 1] + k[r[n]].len
  <2>1. /\ n \in 0 .. L - 1 /\ n - 1 \in 0 .. L - 1 /\ n + 1 \in 1 .. L /\ (n + 1) - 1 = n
        /\ (n - 1) + 1 = n
    BY <1>3
  <2>2. f[n + 1] = f[n] + k[q[n + 1]].len /\ k[q[n + 1]].len \in Int
    BY <1>1, <2>1 DEF Sums, Measured
  <2>3. g[n] = f[n + 1] - f[1] /\ g[n - 1] = f[n] - f[1] /\ f[n] \in Int /\ f[1] \in Int
    BY <1>4, <2>1
  <2> HIDE DEF g, r
  <2> QED
    BY <1>3, <2>2, <2>3
<1> HIDE DEF g, r
<1>8. Sums(k, r, g)
  BY <1>3, <1>6, <1>7 DEF Sums
<1>9. Measured(k, r)
  <2>1. ASSUME NEW n \in 1 .. L - 1 PROVE k[r[n]].len \in Int
    <3>1. n + 1 \in 1 .. L
      BY <1>3
    <3> QED
      BY <1>3, <3>1 DEF Measured
  <2> QED
    BY <1>3, <2>1 DEF Measured
<1>10. Bytes(k, r) = g[L - 1]
  BY <1>3, <1>5, <1>8, <1>9, BytesAre
<1> QED
  BY <1>1, <1>3, <1>6, <1>10 DEF r

\* Only the lengths of the packets matter.
LEMMA BytesSame ==
  ASSUME NEW k, NEW j, NEW q, Measured(k, q), \A n \in 1 .. Len(q) : j[q[n]].len = k[q[n]].len
  PROVE  Bytes(j, q) = Bytes(k, q)
<1>1. PICK f \in [0 .. Len(q) -> Int] : Sums(k, q, f) /\ Bytes(k, q) = f[Len(q)]
  BY BytesSum
<1>2. Sums(j, q, f) /\ Measured(j, q)
  BY <1>1 DEF Sums, Measured
<1> QED
  BY <1>1, <1>2, BytesAre

Multiple(x) == \E k \in Int : x = k * WORD

\* What the counters say is too much, by what the rings say.
Balance(p) ==
  (qlen_in[p] - qlen_out[p])
    - (Bytes(pkt, held[<<"tx", p>>]) + Unsent(p) - Uncounted(p) + misread[p])

\* A core that has a packet yet to count has put it into the ring.
Counting == r2f_count # NoCount => held[r2fArray] = << >>

Balanced == Counting /\ \A p \in Port : Multiple(Balance(p))

LEMMA MultipleOn ==
  ASSUME NEW x \in Int, Multiple(x), NEW k \in Int
  PROVE  Multiple(x + k * WORD) /\ Multiple(x - k * WORD)
<1>1. PICK j \in Int : x = j * WORD
  BY DEF Multiple
<1>2. WORD \in Int
  BY SizeAssumption
<1>3. x + k * WORD = (j + k) * WORD /\ x - k * WORD = (j - k) * WORD
  BY <1>1, <1>2
<1>. QED
  BY <1>3 DEF Multiple

LEMMA SameRemainder ==
  ASSUME NEW a \in Int, NEW b \in Int, Multiple(a - b)
  PROVE  a % WORD = b % WORD
<1> DEFINE q == a \div WORD
           r == a % WORD
           t == b \div WORD
           u == b % WORD
<1>1. WORD \in Nat \ {0}
  BY SizeAssumption
<1>2. a = WORD * q + r /\ b = WORD * t + u
  BY <1>1
<1>3. q \in Int /\ t \in Int /\ r \in 0 .. WORD - 1 /\ u \in 0 .. WORD - 1
  BY <1>1
<1>4. PICK k \in Int : a - b = k * WORD
  BY DEF Multiple
<1> HIDE DEF q, r, t, u
<1> DEFINE d == q - t - k
<1>5. d \in Int /\ u - r = WORD * d
  BY <1>1, <1>2, <1>3, <1>4
<1> HIDE DEF d
<1>6. \A e \in Int : (e >= 1 => WORD * e >= WORD) /\ (e <= -1 => WORD * e <= -WORD)
  BY <1>1
<1>7. d = 0
  BY <1>1, <1>3, <1>5, <1>6
<1>8. u = r
  BY <1>1, <1>3, <1>5, <1>7
<1>. QED
  BY <1>8 DEF r, u

\* A counter counts on, but for a multiple of WORD.
LEMMA CountOn ==
  ASSUME NEW v \in 0 .. WORD - 1, NEW l \in Nat
  PROVE  \E k \in Int : (v + l) % WORD = v + l - k * WORD
<1>1. WORD \in Nat \ {0} /\ v + l \in Nat
  BY SizeAssumption
<1> DEFINE y == v + l
           k == y \div WORD
           x == y % WORD
<1>2. y \in Nat
  BY <1>1
<1> HIDE DEF y
<1>3. y = WORD * k + x /\ k \in Nat /\ x \in 0 .. WORD - 1
  BY <1>1, <1>2, DivMod
<1> HIDE DEF k, x
<1>4. x = y - k * WORD /\ k \in Int
  BY <1>1, <1>2, <1>3
<1>5. (v + l) % WORD = v + l - k * WORD
  BY <1>1, <1>4 DEF x, y
<1>. QED
  BY <1>4, <1>5

LEMMA HeldMeasured ==
  ASSUME TInv, NEW c \in Holder
  PROVE  Measured(pkt, held[c]) /\ Bytes(pkt, held[c]) \in Int
<1>1. held[c] \in Seq(Mbuf) /\ \A m \in Mbuf : pkt[m].len \in Int
  BY DEF TInv, HeldType, RestType, Record
<1>2. Measured(pkt, held[c])
  BY <1>1 DEF Measured
<1>. QED
  BY <1>2, BytesSum

LEMMA CountLens ==
  ASSUME RestType
  PROVE  r2f_count.len \in Int /\ fwd_count.len \in Int
<1>1. \A c \in Count : c.len \in Int
  BY DEF Count
<1>2. NoCount.len = 0
  BY DEF NoCount
<1>. QED
  BY <1>1, <1>2 DEF RestType

LEMMA BalanceType ==
  ASSUME TInv, NEW p \in Port
  PROVE  /\ Balance(p) \in Int /\ Unsent(p) \in Int /\ Uncounted(p) \in Int /\ misread[p] \in Int
         /\ Bytes(pkt, held[<<"tx", p>>]) \in Int
         /\ qlen_in[p] \in 0 .. WORD - 1 /\ qlen_out[p] \in 0 .. WORD - 1 /\ WORD \in Nat \ {0}
<1>1. <<"tx", p>> \in Holder /\ txArray(p) \in Holder
  BY Holders
<1>2. Bytes(pkt, held[<<"tx", p>>]) \in Int /\ Bytes(pkt, held[txArray(p)]) \in Int
  BY <1>1, HeldMeasured
<1>3. /\ qlen_in[p] \in 0 .. WORD - 1 /\ qlen_out[p] \in 0 .. WORD - 1 /\ WORD \in Nat \ {0}
      /\ misread[p] \in Int
  BY SizeAssumption DEF TInv, RestType
<1>4. Unsent(p) \in Int
  BY <1>2 DEF Unsent
<1>5. Uncounted(p) \in Int
  <2>1. r2f_count.len \in Int /\ fwd_count.len \in Int
    BY CountLens DEF TInv
  <2>. QED
    BY <2>1 DEF Uncounted
<1>6. Balance(p) \in Int
  BY <1>2, <1>3, <1>4, <1>5 DEF Balance
<1>. QED
  BY <1>2, <1>3, <1>4, <1>5, <1>6

\* A step that changes no length of a packet on its way.
LensKept == \A c \in Holder : \A i \in DOMAIN held[c] : pkt'[held[c][i]].len = pkt[held[c][i]].len

LEMMA BytesKept ==
  ASSUME TInv, LensKept, NEW c \in Holder, held'[c] = held[c]
  PROVE  Bytes(pkt', held'[c]) = Bytes(pkt, held[c])
<1>1. held[c] \in Seq(Mbuf)
  BY DEF TInv, HeldType
<1>2. \A n \in 1 .. Len(held[c]) : pkt'[held[c][n]].len = pkt[held[c][n]].len
  BY <1>1 DEF LensKept
<1>3. Measured(pkt, held[c])
  BY HeldMeasured
<1>. QED
  BY <1>2, <1>3, BytesSame

\* A step that leaves the output queue of p and its counters alone.
LEMMA BalanceKept ==
  ASSUME TInv, LensKept, NEW p \in Port,
         held'[<<"tx", p>>] = held[<<"tx", p>>], held'[txArray(p)] = held[txArray(p)],
         tx_counted'[p] = tx_counted[p], misread'[p] = misread[p],
         qlen_in'[p] = qlen_in[p], qlen_out'[p] = qlen_out[p],
         Uncounted(p)' = Uncounted(p)
  PROVE  Balance(p)' = Balance(p) /\ Unsent(p)' = Unsent(p)
<1>1. <<"tx", p>> \in Holder /\ txArray(p) \in Holder
  BY Holders
<1>2. /\ Bytes(pkt', held'[<<"tx", p>>]) = Bytes(pkt, held[<<"tx", p>>])
      /\ Bytes(pkt', held'[txArray(p)]) = Bytes(pkt, held[txArray(p)])
  BY <1>1, BytesKept
<1>3. Unsent(p)' = Unsent(p)
  BY <1>2 DEF Unsent, txArray
<1>. QED
  BY <1>2, <1>3 DEF Balance

\* One that moves packets between other rings and arrays.
LEMMA ElsewhereBalanced ==
  ASSUME TInv, LensKept, Balanced, NEW a \in Holder, NEW b \in Holder,
         \A p \in Port : <<"tx", p>> \notin {a, b} /\ txArray(p) \notin {a, b},
         \A c \in Holder \ {a, b} : held'[c] = held[c], Counting',
         UNCHANGED <<tx_counted, qlen_in, qlen_out, misread, r2f_count, fwd_count>>
  PROVE  Balanced'
<1>1. \A p \in Port : held'[<<"tx", p>>] = held[<<"tx", p>>] /\ held'[txArray(p)] = held[txArray(p)]
  BY Holders
<1>2. \A p \in Port : Balance(p)' = Balance(p)
  <2>1. \A p \in Port : Uncounted(p)' = Uncounted(p)
    BY DEF Uncounted
  <2>. QED
    BY <1>1, <2>1, BalanceKept
<1>. QED
  BY <1>2 DEF Balanced, Multiple

\* packet_enqueue: the ring has a packet more, and so has what is yet to count.
LEMMA PutBalanced ==
  ASSUME TInv, Places, PoolFits, Balanced, NEW p \in Port, NEW array \in Array,
         Enqueue(array, <<"tx", p>>), Len(held[array]) <= 1, pool' = pool, pkt' = pkt,
         \A q \in Port : txArray(q) # array,
         UNCHANGED <<tx_counted, qlen_in, qlen_out, misread>>,
         \/ /\ r2f_count = NoCount /\ r2f_count' = Handed(Head(held[array]), p)
            /\ fwd_count' = fwd_count /\ array = r2fArray
         \/ /\ fwd_count = NoCount /\ fwd_count' = Handed(Head(held[array]), p)
            /\ r2f_count' = r2f_count /\ array # r2fArray
  PROVE  Balanced'
<1> DEFINE ring == <<"tx", p>>
           m == Head(held[array])
<1>1. ring \in Ring /\ ring \in Holder /\ array \in Holder
  BY Holders
<1>2. Enqueue(array, ring)
  OBVIOUS
<1>3. \A q \in Port : q # p => <<"tx", q>> # ring
  OBVIOUS
<1> HIDE DEF ring
<1>4. /\ held'[array] = << >> /\ \A c \in Holder \ {ring, array} : held'[c] = held[c]
      /\ \A c \in Array \ {array} : held'[c] = held[c]
      /\ held[array] \in Seq(Mbuf) /\ held[array] # << >>
  BY <1>1, <1>2, EnqueueHeld DEF TInv
<1>5. held'[ring] = Append(held[ring], m)
  BY <1>1, <1>2, EnqueuePlaces DEF TInv
<1>6. m \in Mbuf /\ pkt[m].len \in Int
  <2>1. m \in Mbuf
    BY <1>4
  <2>. QED
    BY <2>1 DEF TInv, RestType, Record
<1>7. /\ Handed(m, p).port = p /\ Handed(m, p).len = pkt[m].len
      /\ NoCount.port = NoPort /\ NoCount.len = 0
      /\ \A q \in Port : q # NoPort
  BY DEF Handed, NoCount, NoPort, Port
<1> HIDE DEF m
<1>8. Bytes(pkt', held'[ring]) = Bytes(pkt, held[ring]) + pkt[m].len
  BY <1>1, <1>5, <1>6, HeldMeasured, BytesAppend
<1>9. \A q \in Port : held'[txArray(q)] = held[txArray(q)]
  BY <1>4, Holders
<1>10. LensKept
  BY DEF LensKept
<1>11. ASSUME NEW q \in Port, q # p PROVE Balance(q)' = Balance(q)
  <2>1. held'[<<"tx", q>>] = held[<<"tx", q>>]
    BY <1>3, <1>4, <1>11, Holders
  <2>2. Uncounted(q)' = Uncounted(q)
    BY <1>7, <1>11 DEF Uncounted, m
  <2>. QED
    BY <1>9, <1>10, <2>1, <2>2, BalanceKept
<1>12. Balance(p)' = Balance(p)
  <2>1. Uncounted(p)' = Uncounted(p) + pkt[m].len
    <3>1. r2f_count.len \in Int /\ fwd_count.len \in Int
      BY CountLens DEF TInv
    <3>. QED
      BY <1>6, <1>7, <3>1 DEF Uncounted, m
  <2>2. Unsent(p)' = Unsent(p)
    <3>1. txArray(p) \in Holder
      BY Holders
    <3>2. Bytes(pkt', held'[txArray(p)]) = Bytes(pkt, held[txArray(p)])
      BY <1>9
    <3>. QED
      BY <3>2 DEF Unsent, txArray
  <2> DEFINE y == Bytes(pkt, held[ring])
             x == Unsent(p)
             u == Uncounted(p)
             l == pkt[m].len
             d == qlen_in[p] - qlen_out[p]
             r == misread[p]
  <2>3. y \in Int /\ x \in Int /\ u \in Int /\ d \in Int /\ r \in Int /\ l \in Int
    BY <1>6, BalanceType DEF ring
  <2>4. Balance(p) = d - (y + x - u + r) /\ Balance(p)' = d - ((y + l) + x - (u + l) + r)
    BY <1>8, <2>1, <2>2 DEF Balance, ring
  <2> HIDE DEF y, x, u, l, d, r
  <2>. QED
    BY <2>3, <2>4
<1>13. Counting'
  <2>1. CASE array = r2fArray
    BY <1>4, <2>1 DEF Counting
  <2>2. CASE array # r2fArray
    BY <1>4, <2>2, Holders DEF Balanced, Counting
  <2>. QED
    BY <2>1, <2>2
<1>. QED
  BY <1>11, <1>12, <1>13 DEF Balanced, Multiple

\* Counting a packet in: what was yet to count is less by its bytes, and the
\* counter is more by what the buffer says now.
LEMMA CountedIn ==
  ASSUME TInv, Balanced, NEW c \in Count, CountIn(c), UNCHANGED <<held, pkt, tx_counted, qlen_out>>,
         \/ r2f_count = c /\ r2f_count' = NoCount /\ fwd_count' = fwd_count
         \/ fwd_count = c /\ fwd_count' = NoCount /\ r2f_count' = r2f_count
  PROVE  Balanced'
<1> DEFINE p == c.port
           b == pkt[c.mbuf].len
<1>1. /\ p \in Port /\ c.len \in Int /\ b \in Nat
      /\ NoCount.port = NoPort /\ \A q \in Port : q # NoPort
  BY DEF TInv, RestType, Count, Record, NoCount, NoPort, Port
<1>2. /\ qlen_in'[p] = (qlen_in[p] + b) % WORD /\ misread'[p] = misread[p] + (b - c.len)
      /\ \A q \in Port \ {p} : qlen_in'[q] = qlen_in[q] /\ misread'[q] = misread[q]
  BY <1>1 DEF CountIn, TInv, RestType
<1>3. LensKept
  BY DEF LensKept
<1>4. ASSUME NEW q \in Port, q # p PROVE Balance(q)' = Balance(q)
  <2>1. Uncounted(q)' = Uncounted(q)
    BY <1>1, <1>4 DEF Uncounted
  <2>. QED
    BY <1>2, <1>3, <1>4, <2>1, BalanceKept
<1>5. Uncounted(p)' = Uncounted(p) - c.len
  <2>1. r2f_count.len \in Int /\ fwd_count.len \in Int
    BY CountLens DEF TInv
  <2>. QED
    BY <1>1, <2>1 DEF Uncounted
<1>6. /\ Balance(p) \in Int /\ Unsent(p) \in Int /\ Uncounted(p) \in Int /\ misread[p] \in Int
      /\ Bytes(pkt, held[<<"tx", p>>]) \in Int
      /\ qlen_in[p] \in 0 .. WORD - 1 /\ qlen_out[p] \in 0 .. WORD - 1 /\ WORD \in Nat \ {0}
  BY <1>1, BalanceType
<1>7. PICK k \in Int : qlen_in'[p] = qlen_in[p] + b - k * WORD
  <2> DEFINE v == qlen_in[p]
  <2>1. v \in 0 .. WORD - 1 /\ b \in Nat /\ qlen_in'[p] = (v + b) % WORD
    BY <1>1, <1>2, <1>6
  <2> HIDE DEF v, b, p
  <2>2. \E k \in Int : (v + b) % WORD = v + b - k * WORD
    BY <2>1, CountOn
  <2>. QED
    BY <2>1, <2>2 DEF v
<1>8. Balance(p)' = Balance(p) - k * WORD
  <2>1. Unsent(p)' = Unsent(p)
    BY DEF Unsent, txArray
  <2> DEFINE l == Bytes(pkt, held[<<"tx", p>>]) + Unsent(p)
             o == qlen_out[p]
             i == qlen_in[p]
             u == Uncounted(p)
             r == misread[p]
             x == c.len
             w == k * WORD
  <2>2. Bytes(pkt', held'[<<"tx", p>>]) = Bytes(pkt, held[<<"tx", p>>])
    OBVIOUS
  <2>3. /\ Balance(p) = (i - o) - (l - u + r)
        /\ Balance(p)' = (i + b - w - o) - (l - (u - x) + (r + (b - x)))
    <3>1. Balance(p) = (i - o) - (l - u + r)
      BY <1>6 DEF Balance
    <3>2. Balance(p)' = (qlen_in'[p] - qlen_out'[p])
                          - (Bytes(pkt', held'[<<"tx", p>>]) + Unsent(p)' - Uncounted(p)' + misread'[p])
      BY DEF Balance
    <3>3. qlen_in'[p] = i + b - w /\ misread'[p] = r + (b - x) /\ qlen_out'[p] = o /\ Uncounted(p)' = u - x
      BY <1>2, <1>5, <1>7
    <3> DEFINE y == Bytes(pkt, held[<<"tx", p>>])
               z == Unsent(p)
    <3>4. Balance(p)' = ((i + b - w) - o) - (y + z - (u - x) + (r + (b - x)))
      BY <2>1, <2>2, <3>2, <3>3
    <3>5. /\ y \in Int /\ z \in Int /\ l = y + z /\ i \in Int /\ o \in Int /\ u \in Int /\ r \in Int
          /\ x \in Int /\ b \in Int /\ w \in Int
      BY <1>1, <1>6
    <3> HIDE DEF y, z, l, o, i, u, r, x, w, b
    <3>. QED
      BY <3>1, <3>4, <3>5
  <2>4. i \in Int /\ o \in Int /\ l \in Int /\ u \in Int /\ r \in Int /\ x \in Int /\ b \in Int /\ w \in Int
    BY <1>1, <1>6
  <2> HIDE DEF l, o, i, u, r, x, w, b
  <2>. QED
    BY <2>3, <2>4 DEF w
<1>9. Multiple(Balance(p)')
  BY <1>1, <1>6, <1>8, MultipleOn DEF Balanced
<1>10. Counting'
  <2>1. c # NoCount
    BY <1>1
  <2>. QED
    BY <2>1 DEF Balanced, Counting
<1> HIDE DEF p
<1>. QED
  BY <1>4, <1>9, <1>10 DEF Balanced, Multiple

\* A packet goes into a buffer of the pool, which holds none on its way.
LEMMA RxLens ==
  ASSUME TInv, Places, RxStep
  PROVE  LensKept
<1>1. CASE ReceiveBurst
  <2>1. PICK n \in 1 .. BURST : \E s \in [1 .. n -> pool], a \in [1 .. n -> Arrivals] :
          pkt' = [m \in Mbuf |->
            IF \E i \in 1 .. n : s[i] = m
            THEN LET i == CHOOSE i \in 1 .. n : s[i] = m
                 IN  [port |-> rx_port, flow |-> a[i].flow, no |-> arrived + i, len |-> a[i].len]
            ELSE pkt[m]]
    BY <1>1 DEF ReceiveBurst
  <2>2. ASSUME NEW c \in Holder, NEW i \in DOMAIN held[c]
        PROVE  pkt'[held[c][i]] = pkt[held[c][i]]
    <3>1. held[c] \in Seq(Mbuf) /\ DOMAIN held = Holder
      BY DEF TInv, HeldType
    <3>2. held[c][i] \in Mbuf
      BY <2>2, <3>1
    <3>3. held[c][i] \notin pool
      BY <2>2, <3>1 DEF Places, Distinct
    <3>. QED
      BY <2>1, <3>2, <3>3
  <2>. QED
    BY <2>2 DEF LensKept
<1>2. CASE ReceiveNothing \/ RxEnqueue
  BY <1>2 DEF ReceiveNothing, RxEnqueue, LensKept
<1>. QED
  BY <1>1, <1>2 DEF RxStep

LEMMA RxBalanced ==
  ASSUME TInv, Places, Balanced, RxStep
  PROVE  Balanced'
<1>1. \A p \in Port : txArray(p) # rxArray /\ <<"tx", p>> # rxArray /\ <<"tx", p>> # <<"rx", rx_port>>
                       /\ txArray(p) # <<"rx", rx_port>>
  BY DEF txArray, rxArray
<1>2. /\ rxArray \in Holder /\ <<"rx", rx_port>> \in Holder /\ r2fArray \in Holder
      /\ r2fArray \notin {rxArray, <<"rx", rx_port>>}
  <2>1. rxArray \in Holder /\ <<"rx", rx_port>> \in Holder /\ r2fArray \in Holder
    BY Holders DEF TInv, RestType
  <2>2. r2fArray # rxArray /\ r2fArray # <<"rx", rx_port>>
    BY DEF r2fArray, rxArray
  <2>. QED
    BY <2>1, <2>2
<1>3. /\ UNCHANGED <<tx_counted, qlen_in, qlen_out, misread, r2f_count, fwd_count>>
      /\ \A c \in Holder \ {rxArray, <<"rx", rx_port>>} : held'[c] = held[c]
  <2>1. CASE ReceiveBurst
    BY <1>2, <2>1 DEF ReceiveBurst, loopVars, TInv, HeldType
  <2>2. CASE ReceiveNothing
    BY <2>2 DEF ReceiveNothing
  <2>3. CASE RxEnqueue
    BY <1>2, <2>3 DEF RxEnqueue, TInv, HeldType
  <2>. QED
    BY <2>1, <2>2, <2>3 DEF RxStep
<1>4. Counting'
  BY <1>2, <1>3 DEF Balanced, Counting
<1>. QED
  BY <1>1, <1>2, <1>3, <1>4, RxLens, ElsewhereBalanced

LEMMA R2fBalanced ==
  ASSUME TInv, Places, PoolFits, Balanced, R2fStep
  PROVE  Balanced'
<1> USE DEF TInv
<1>0. /\ r2fArray \in Array /\ r2fArray \in Holder /\ Len(held[r2fArray]) <= 1
      /\ \A q \in Port : txArray(q) # r2fArray /\ <<"tx", q>> # r2fArray
  BY Holders, ArraysDiffer DEF ArraysOK
<1>1. CASE Rx2FlowsPoll
  <2> DEFINE ring == <<"rx", r2f_port>>
  <2>1. /\ ring \in Ring /\ ring \in Holder
        /\ \A q \in Port : <<"tx", q>> # ring /\ txArray(q) # ring
    BY Holders DEF RestType, txArray
  <2>2. /\ UNCHANGED <<tx_counted, qlen_in, qlen_out, misread, r2f_count, fwd_count>>
        /\ r2f_count = NoCount /\ (Dequeue(ring, r2fArray) \/ UNCHANGED held)
    BY <1>1 DEF Rx2FlowsPoll
  <2> HIDE DEF ring
  <2>3. \A c \in Holder \ {ring, r2fArray} : held'[c] = held[c]
    BY <1>0, <2>1, <2>2, DequeueHeld
  <2>4. Counting'
    BY <2>2 DEF Counting
  <2>5. LensKept
    BY <1>1 DEF Rx2FlowsPoll, LensKept
  <2>. QED
    BY <1>0, <2>1, <2>2, <2>3, <2>4, <2>5, ElsewhereBalanced
<1>2. CASE Rx2FlowsFlow
  <2> DEFINE m == Head(held[r2fArray])
             ring == <<"flow", pkt[m].flow>>
  <2>1. m \in Mbuf
    <3>1. held[r2fArray] \in Seq(Mbuf) /\ held[r2fArray] # << >>
      BY <1>0, <1>2 DEF HeldType, Rx2FlowsFlow
    <3> QED
      BY <3>1
  <2>2. /\ ring \in Ring /\ ring \in Holder
        /\ \A q \in Port : <<"tx", q>> # ring /\ txArray(q) # ring
    BY <1>2, <2>1, Holders DEF Rx2FlowsFlow, Scheduled, RestType, Record, txArray
  <2>3. /\ UNCHANGED <<tx_counted, qlen_in, qlen_out, misread, r2f_count, fwd_count>>
        /\ Enqueue(r2fArray, ring)
    BY <1>2 DEF Rx2FlowsFlow
  <2> HIDE DEF ring
  <2>4. held'[r2fArray] = << >> /\ \A c \in Holder \ {ring, r2fArray} : held'[c] = held[c]
    BY <1>0, <2>2, <2>3, EnqueueHeld
  <2>5. Counting' /\ LensKept
    BY <1>2, <2>4 DEF Counting, LensKept, Rx2FlowsFlow
  <2>. QED
    BY <1>0, <2>2, <2>3, <2>4, <2>5, ElsewhereBalanced
<1>3. CASE Rx2FlowsTx
  <2>1. Bypass \in Port
    BY PortAssumption DEF Bypass
  <2>2. /\ UNCHANGED <<pkt, tx_counted, qlen_in, qlen_out, misread, fwd_count>> /\ pool' = pool
        /\ Enqueue(r2fArray, <<"tx", Bypass>>) /\ r2f_count' = Handed(Head(held[r2fArray]), Bypass)
    BY <1>3 DEF Rx2FlowsTx
  <2>3. r2f_count = NoCount
    BY <1>3 DEF Rx2FlowsTx, Balanced, Counting
  <2>. QED
    BY <1>0, <2>1, <2>2, <2>3, PutBalanced
<1>4. CASE Rx2FlowsCount
  <2>1. r2f_count \in Count
    BY <1>4 DEF Rx2FlowsCount, RestType
  <2>2. /\ UNCHANGED <<held, pkt, tx_counted, qlen_out, fwd_count>> /\ r2f_count' = NoCount
        /\ CountIn(r2f_count)
    BY <1>4 DEF Rx2FlowsCount
  <2>. QED
    BY <2>1, <2>2, CountedIn
<1>. QED
  BY <1>1, <1>2, <1>3, <1>4 DEF R2fStep

LEMMA NodeBalanced ==
  ASSUME TInv, Balanced, NEW n \in Node, NodeStep(n)
  PROVE  Balanced'
<1> USE DEF TInv
<1> DEFINE array == <<"node array", n>>
<1>0. /\ array \in Array /\ array \in Holder /\ array # r2fArray /\ r2fArray \in Holder
      /\ \A q \in Port : txArray(q) # array /\ <<"tx", q>> # array
  BY Holders, ArraysDiffer
<1>1. UNCHANGED <<tx_counted, qlen_in, qlen_out, misread, r2f_count, fwd_count>> /\ LensKept
  BY DEF NodeStep, NodeCall, NodeTry, NodePut, LensKept
<1>2. ASSUME NEW ring \in Ring, ring[1] # "tx", \A c \in Holder \ {ring, array} : held'[c] = held[c]
      PROVE  Balanced'
  <2>1. ring \in Holder /\ ring # r2fArray /\ \A q \in Port : <<"tx", q>> # ring /\ txArray(q) # ring
    <3>1. \A q \in Port : <<"tx", q>>[1] = "tx"
      OBVIOUS
    <3>. QED
      BY <1>2, <3>1, Holders
  <2>2. Counting'
    BY <1>0, <1>1, <1>2, <2>1 DEF Balanced, Counting
  <2>. QED
    BY <1>0, <1>1, <1>2, <2>1, <2>2, ElsewhereBalanced
<1>3. <<"node", n>> \in Ring /\ <<"node", n>>[1] # "tx"
  BY Holders
<1> HIDE DEF array
<1>4. CASE NodeCall(n)
  BY <1>2, <1>3, <1>4, Zenon DEF NodeCall
<1>5. CASE NodeTry(n)
  <2> DEFINE ring == Head(plan[n]).ring
  <2>1. ring \in {"flow"} \X FlowsOf(n) /\ ring \in Ring
    BY <1>5, PlanHead DEF NodeTry
  <2>2. ring[1] # "tx"
    BY <2>1
  <2>3. UNCHANGED held \/ Dequeue(ring, array)
    BY <1>5 DEF NodeTry, array
  <2> HIDE DEF ring
  <2>4. \A c \in Holder \ {ring, array} : held'[c] = held[c]
    BY <1>0, <2>1, <2>3, DequeueHeld
  <2>. QED
    BY <1>2, <2>1, <2>2, <2>4
<1>6. CASE NodePut(n)
  <2> DEFINE ring == <<"node", n>>
  <2>1. Enqueue(array, ring) /\ ring \in Ring /\ ring[1] # "tx"
    BY <1>3, <1>6 DEF NodePut, array
  <2> HIDE DEF ring
  <2>2. \A c \in Holder \ {ring, array} : held'[c] = held[c]
    BY <1>0, <2>1, EnqueueHeld
  <2>. QED
    BY <1>2, <2>1, <2>2
<1>. QED
  BY <1>4, <1>5, <1>6 DEF NodeStep

LEMMA FwdBalanced ==
  ASSUME TInv, Places, PoolFits, Balanced, FwdStep
  PROVE  Balanced'
<1> USE DEF TInv
<1>0. /\ fwdArray \in Array /\ fwdArray \in Holder /\ fwdArray # r2fArray /\ r2fArray \in Holder
      /\ Len(held[fwdArray]) <= 1
      /\ \A q \in Port : txArray(q) # fwdArray /\ <<"tx", q>> # fwdArray
  BY Holders, ArraysDiffer DEF ArraysOK
<1>1. CASE ForwardCall
  <2>1. UNCHANGED <<held, pkt, tx_counted, qlen_in, qlen_out, misread, r2f_count, fwd_count>>
    BY <1>1 DEF ForwardCall
  <2>2. Counting' /\ LensKept
    BY <2>1 DEF Balanced, Counting, LensKept
  <2>. QED
    BY <1>0, <2>1, <2>2, ElsewhereBalanced
<1>2. CASE ForwardTry
  <2> DEFINE ring == Head(plan[Forwarding]).ring
  <2>1. ring \in {"node"} \X Node /\ ring \in Ring
    BY <1>2, PlanHead DEF ForwardTry
  <2>2. ring \in Holder /\ ring # r2fArray /\ \A q \in Port : <<"tx", q>> # ring /\ txArray(q) # ring
    <3>1. ring[1] = "node" /\ \A q \in Port : <<"tx", q>>[1] = "tx"
      BY <2>1
    <3>. QED
      BY <2>1, <3>1, Holders
  <2>3. /\ UNCHANGED held \/ Dequeue(ring, fwdArray)
        /\ UNCHANGED <<tx_counted, qlen_in, qlen_out, misread, r2f_count, fwd_count>>
    BY <1>2 DEF ForwardTry
  <2> HIDE DEF ring
  <2>4. \A c \in Holder \ {ring, fwdArray} : held'[c] = held[c]
    BY <1>0, <2>1, <2>3, DequeueHeld
  <2>5. Counting' /\ LensKept
    BY <1>0, <1>2, <2>2, <2>3, <2>4 DEF Balanced, Counting, LensKept, ForwardTry
  <2>. QED
    BY <1>0, <2>2, <2>3, <2>4, <2>5, ElsewhereBalanced
<1>3. CASE ForwardTx
  <2>1. /\ UNCHANGED <<pkt, tx_counted, qlen_in, qlen_out, misread, r2f_count>> /\ pool' = pool
        /\ Enqueue(fwdArray, <<"tx", DefaultPort>>) /\ fwd_count' = Handed(Head(held[fwdArray]), DefaultPort)
    BY <1>3 DEF ForwardTx
  <2>2. fwd_count = NoCount
    BY <1>3 DEF ForwardTx, Enqueue, ArraysOK
  <2>. QED
    BY <1>0, <2>1, <2>2, PortAssumption, PutBalanced
<1>4. CASE ForwardCount
  <2>1. fwd_count \in Count
    BY <1>4 DEF ForwardCount, RestType
  <2>2. /\ UNCHANGED <<held, pkt, tx_counted, qlen_out, r2f_count>> /\ fwd_count' = NoCount
        /\ CountIn(fwd_count)
    BY <1>4 DEF ForwardCount
  <2>. QED
    BY <2>1, <2>2, CountedIn
<1>. QED
  BY <1>1, <1>2, <1>3, <1>4 DEF FwdStep

\* A transmitting core: what leaves the ring is in its array, and once it is
\* counted out it no longer counts there.
LEMMA TxBalanced ==
  ASSUME TInv, Balanced, NEW p \in Port, TxStep(p)
  PROVE  Balanced'
<1> USE DEF TInv
<1> DEFINE array == txArray(p)
           ring == <<"tx", p>>
           m == Head(held[array])
<1>0. /\ array \in Array /\ array \in Holder /\ Len(held[array]) <= 1 /\ r2fArray \in Holder
      /\ ring \in Ring /\ ring \in Holder /\ ring # array
      /\ r2fArray \notin {ring, array}
  BY Holders, ArraysDiffer DEF ArraysOK
<1>1. /\ UNCHANGED <<qlen_in, r2f_count, fwd_count, misread>>
      /\ \A q \in Port \ {p} : tx_counted'[q] = tx_counted[q] /\ qlen_out'[q] = qlen_out[q]
      /\ \A c \in Holder \ {ring, array} : held'[c] = held[c]
  <2>1. CASE TxDequeue(p)
    BY <1>0, <2>1, DequeueHeld DEF TxDequeue, loopVars
  <2>2. CASE TxCount(p)
    BY <2>2 DEF TxCount, RestType
  <2>3. CASE TxSend(p)
    BY <1>0, <2>3 DEF TxSend, RestType, HeldType
  <2>. QED
    BY <2>1, <2>2, <2>3 DEF TxStep
<1>2. /\ LensKept
      /\ held[array] # << >> =>
           m \in Mbuf /\ pkt[m].len \in Nat /\ held[array] = <<m>> /\ Bytes(pkt, held[array]) = pkt[m].len
  <2>1. ASSUME held[array] # << >>
        PROVE  m \in Mbuf /\ pkt[m].len \in Nat /\ held[array] = <<m>> /\ Bytes(pkt, held[array]) = pkt[m].len
    <3>1. held[array] \in Seq(Mbuf)
      BY <1>0 DEF HeldType
    <3>2. m \in Mbuf
      BY <2>1, <3>1
    <3>3. held[array] = <<m>>
      BY <1>0, <2>1, <3>1
    <3>4. pkt[m].len \in Nat
      BY <3>2 DEF RestType, Record
    <3>. QED
      BY <3>2, <3>3, <3>4, BytesOne
  <2>2. LensKept
    <3>1. CASE TxDequeue(p) \/ TxCount(p)
      BY <3>1 DEF TxDequeue, TxCount, LensKept
    <3>2. CASE TxSend(p)
      <4>1. pkt' = [pkt EXCEPT ![m] = [Blank EXCEPT !.len = pkt[m].len]]
        BY <3>2 DEF TxSend
      <4>2. \A x \in Mbuf : pkt'[x].len = pkt[x].len
        BY <4>1 DEF RestType, Blank
      <4>3. \A c \in Holder : \A i \in DOMAIN held[c] : held[c][i] \in Mbuf
        BY DEF HeldType
      <4>. QED
        BY <4>2, <4>3 DEF LensKept
    <3>. QED
      BY <3>1, <3>2 DEF TxStep
  <2>. QED
    BY <2>1, <2>2
<1>3. ASSUME NEW q \in Port, q # p PROVE Balance(q)' = Balance(q)
  <2>1. <<"tx", q>> \in Holder \ {ring, array} /\ txArray(q) \in Holder \ {ring, array}
    BY <1>3, Holders, ArraysDiffer
  <2>2. Uncounted(q)' = Uncounted(q)
    BY <1>1 DEF Uncounted
  <2>. QED
    BY <1>1, <1>2, <1>3, <2>1, <2>2, BalanceKept
<1>4. Counting'
  BY <1>0, <1>1 DEF Balanced, Counting
<1> DEFINE o == qlen_out[p]
           u == Uncounted(p)
           i == qlen_in[p]
           r == misread[p]
           y == Bytes(pkt, held[ring])
           x == Unsent(p)
<1>5. Balance(p) = (i - o) - (y + x - u + r) /\ Balance(p) \in Int
  BY BalanceType DEF Balance
<1>6. Balance(p)' = (i - qlen_out'[p]) - (Bytes(pkt', held'[ring]) + Unsent(p)' - u + r)
  <2>1. Uncounted(p)' = u
    BY <1>1 DEF Uncounted
  <2>. QED
    BY <1>1, <2>1 DEF Balance
<1>7. /\ i \in Int /\ o \in 0 .. WORD - 1 /\ u \in Int /\ r \in Int /\ y \in Int /\ x \in Int
      /\ WORD \in Nat \ {0}
  BY BalanceType
<1>8. CASE TxDequeue(p)
  <2> DEFINE e == Head(held[ring])
  <2>1. /\ held[ring] \in Seq(Mbuf) /\ held[ring] # << >> /\ held'[ring] = Tail(held[ring])
        /\ held'[array] = <<e>>
    BY <1>0, <1>8, DequeueHeld DEF TxDequeue
  <2>2. e \in Mbuf
    BY <2>1
  <2>3. pkt[e].len \in Int
    BY <2>2 DEF RestType, Record
  <2>4. held[array] = << >> /\ qlen_out'[p] = o /\ tx_counted' = tx_counted /\ pkt' = pkt
    BY <1>8 DEF TxDequeue, Loops, loopVars
  <2>5. ~tx_counted[p]
    BY <1>0, <2>4 DEF ArraysOK
  <2>6. x = 0
    BY <2>4, <2>5, BytesNone DEF Unsent
  <2>7. Unsent(p)' = pkt[e].len
    <3>1. Bytes(pkt', held'[array]) = pkt[e].len
      BY <2>1, <2>2, <2>3, <2>4, BytesOne
    <3>. QED
      BY <2>4, <2>5, <3>1 DEF Unsent, txArray
  <2>8. Bytes(pkt', held'[ring]) = y - pkt[e].len
    BY <1>0, <2>1, <2>4, HeldMeasured, BytesTail
  <2> DEFINE l == pkt[e].len
  <2>9. Balance(p)' = (i - o) - ((y - l) + l - u + r) /\ l \in Int
    BY <1>6, <2>3, <2>4, <2>7, <2>8
  <2> HIDE DEF i, o, u, r, y, x, l
  <2>10. Balance(p)' = Balance(p)
    BY <1>5, <1>7, <2>6, <2>9
  <2>. QED
    BY <1>3, <1>4, <2>10 DEF Balanced, Multiple
<1>9. CASE TxCount(p)
  <2>1. held' = held /\ pkt' = pkt /\ ~tx_counted[p] /\ tx_counted'[p] /\ held[array] # << >>
    BY <1>9 DEF TxCount, RestType
  <2> DEFINE l == pkt[m].len
  <2>2. qlen_out'[p] = (o + l) % WORD /\ l \in Nat
    BY <1>2, <1>9, <2>1 DEF TxCount, RestType
  <2>3. x = l
    BY <1>2, <2>1 DEF Unsent
  <2>4. Unsent(p)' = 0
    BY <2>1 DEF Unsent
  <2>5. Bytes(pkt', held'[ring]) = y
    BY <2>1
  <2> HIDE DEF i, o, u, r, y, x, l
  <2>6. PICK k \in Int : qlen_out'[p] = o + l - k * WORD
    BY <1>7, <2>2, CountOn
  <2> DEFINE w == k * WORD
  <2>7. w \in Int
    BY <1>7
  <2>8. Balance(p)' = (i - (o + l - w)) - (y + 0 - u + r)
    BY <1>6, <2>4, <2>5, <2>6
  <2>9. Balance(p)' = Balance(p) + w
    <3> HIDE DEF w
    <3>. QED
      BY <1>5, <1>7, <2>2, <2>3, <2>7, <2>8
  <2>10. Multiple(Balance(p)')
    BY <1>5, <2>9, MultipleOn DEF Balanced
  <2>. QED
    BY <1>3, <1>4, <2>10 DEF Balanced, Multiple
<1>10. CASE TxSend(p)
  <2>1. /\ held'[ring] = held[ring] /\ held'[array] = << >> /\ tx_counted[p] /\ ~tx_counted'[p]
        /\ qlen_out' = qlen_out
    BY <1>0, <1>10 DEF TxSend, HeldType, RestType
  <2>2. Bytes(pkt', held'[ring]) = y
    BY <1>0, <1>2, <2>1, BytesKept
  <2>3. x = 0
    BY <2>1 DEF Unsent
  <2>4. Unsent(p)' = 0
    BY <2>1, BytesNone DEF Unsent, txArray
  <2>5. Balance(p)' = Balance(p)
    BY <1>5, <1>6, <2>1, <2>2, <2>3, <2>4
  <2>. QED
    BY <1>3, <1>4, <2>5 DEF Balanced, Multiple
<1>. QED
  BY <1>8, <1>9, <1>10 DEF TxStep

LEMMA NextBalanced ==
  ASSUME TInv, Places, PoolFits, Balanced, [Next]_vars
  PROVE  Balanced'
<1>1. CASE RxStep \/ R2fStep \/ FwdStep
  BY <1>1, RxBalanced, R2fBalanced, FwdBalanced
<1>2. CASE \E n \in Node : NodeStep(n)
  BY <1>2, NodeBalanced
<1>3. CASE \E p \in Port : TxStep(p)
  BY <1>3, TxBalanced
<1>4. CASE signal_handler \/ UNCHANGED vars
  <2>1. UNCHANGED <<held, pkt, tx_counted, qlen_in, qlen_out, misread, r2f_count, fwd_count>>
    BY <1>4 DEF signal_handler, vars, loopVars
  <2>2. \A p \in Port : Balance(p)' = Balance(p)
    BY <2>1 DEF Balance, Unsent, Uncounted, txArray
  <2>. QED
    BY <2>1, <2>2 DEF Balanced, Counting, Multiple
<1>. QED
  BY <1>1, <1>2, <1>3, <1>4 DEF Next

LEMMA InitBalanced == Init => Balanced
<1> SUFFICES ASSUME Init PROVE Balanced
  OBVIOUS
<1>1. ASSUME NEW p \in Port PROVE Balance(p) = 0
  <2>1. <<"tx", p>> \in Holder /\ txArray(p) \in Holder
    BY Holders
  <2>2. /\ held[<<"tx", p>>] = << >> /\ held[txArray(p)] = << >>
        /\ ~tx_counted[p] /\ qlen_in[p] = 0 /\ qlen_out[p] = 0 /\ misread[p] = 0
    BY <2>1 DEF Init
  <2>3. Uncounted(p) = 0
    BY DEF Init, Uncounted, NoCount, NoPort, Port
  <2>4. Unsent(p) = 0 /\ Bytes(pkt, held[<<"tx", p>>]) = 0
    BY <2>2, BytesNone DEF Unsent
  <2>. QED
    BY <2>2, <2>3, <2>4 DEF Balance
<1>2. Multiple(0)
  <2>1. 0 = 0 * WORD /\ 0 \in Int
    BY SizeAssumption
  <2>. QED
    BY <2>1 DEF Multiple
<1>. QED
  BY <1>1, <1>2 DEF Init, Balanced, Counting

\* Every buffer in use holds a packet that has arrived; a packet that is handed
\* over and not counted has been sent, or is still in its buffer.
Occupied == \A m \in Mbuf : m \in pool \/ pkt[m].no \in 1 .. arrived

Known(c) ==
  c # NoCount => /\ c.no \in 1 .. arrived
                 /\ pkt[c.mbuf].no = c.no => pkt[c.mbuf].len = c.len
                 /\ \/ c.no \in SentNumbers
                    \/ c.mbuf \notin pool /\ pkt[c.mbuf].no = c.no

HandedOver == Occupied /\ Known(r2f_count) /\ Known(fwd_count)

\* A step that fills and frees no buffer.
LEMMA HandedStays ==
  ASSUME TInv, HandedOver, UNCHANGED <<pool, pkt, arrived, sent>>,
         r2f_count' \in {r2f_count, NoCount}, fwd_count' \in {fwd_count, NoCount}
  PROVE  HandedOver'
  BY DEF HandedOver, Occupied, Known, SentNumbers

\* The packet that is handed over is in a buffer in use.
LEMMA HandedKnown ==
  ASSUME TInv, Places, HandedOver, UNCHANGED <<pool, pkt, arrived, sent>>,
         NEW array \in Array, held[array] # << >>, NEW p \in Port
  PROVE  Occupied' /\ \A c : (c = Handed(Head(held[array]), p) \/ Known(c)) => Known(c)'
<1> DEFINE m == Head(held[array])
<1>1. held[array] \in Seq(Mbuf) /\ array \in DOMAIN held
  BY Holders DEF TInv, HeldType
<1>2. m \in Mbuf /\ m = held[array][1] /\ 1 \in DOMAIN held[array]
  BY <1>1
<1>3. m \notin pool
  BY <1>1, <1>2 DEF Places, Distinct
<1>4. pkt[m].no \in 1 .. arrived
  BY <1>2, <1>3 DEF HandedOver, Occupied
<1>5. Handed(m, p).mbuf = m /\ Handed(m, p).no = pkt[m].no /\ Handed(m, p).len = pkt[m].len
  BY DEF Handed
<1> HIDE DEF m
<1>6. ASSUME NEW c, c = Handed(m, p) PROVE Known(c)'
  <2>1. c.mbuf = m /\ c.no = pkt[m].no /\ c.len = pkt[m].len
    BY <1>5, <1>6
  <2>. QED
    BY <1>3, <1>4, <2>1 DEF Known
<1>7. ASSUME NEW c, Known(c) PROVE Known(c)'
  BY <1>7 DEF Known, SentNumbers
<1>8. Occupied'
  BY DEF HandedOver, Occupied
<1>. QED
  BY <1>6, <1>7, <1>8 DEF m

\* A buffer that is filled again holds a packet with a greater number.
LEMMA BurstHanded ==
  ASSUME TInv, Places, HandedOver, ReceiveBurst
  PROVE  HandedOver'
<1>1. PICK n \in 1 .. BURST : \E s \in [1 .. n -> pool], a \in [1 .. n -> Arrivals] :
        /\ pool' = pool \ {s[i] : i \in 1 .. n}
        /\ pkt' = [m \in Mbuf |->
             IF \E i \in 1 .. n : s[i] = m
             THEN LET i == CHOOSE i \in 1 .. n : s[i] = m
                  IN  [port |-> rx_port, flow |-> a[i].flow, no |-> arrived + i, len |-> a[i].len]
             ELSE pkt[m]]
        /\ arrived' = arrived + n
  BY DEF ReceiveBurst
<1>2. PICK s \in [1 .. n -> pool], a \in [1 .. n -> Arrivals] :
        /\ pool' = pool \ {s[i] : i \in 1 .. n}
        /\ pkt' = [m \in Mbuf |->
             IF \E i \in 1 .. n : s[i] = m
             THEN LET i == CHOOSE i \in 1 .. n : s[i] = m
                  IN  [port |-> rx_port, flow |-> a[i].flow, no |-> arrived + i, len |-> a[i].len]
             ELSE pkt[m]]
        /\ arrived' = arrived + n
  BY <1>1
<1>3. n \in Nat /\ arrived \in Nat /\ pool \subseteq Mbuf
  BY SizeAssumption DEF TInv, RestType
<1>4. UNCHANGED <<r2f_count, fwd_count, sent>>
  BY DEF ReceiveBurst, loopVars
<1>5. ASSUME NEW m \in Mbuf
      PROVE  \/ m \in pool /\ \E i \in 1 .. n : pkt'[m].no = arrived + i
             \/ (m \in pool => m \in pool') /\ pkt'[m] = pkt[m]
  <2>1. CASE \E i \in 1 .. n : s[i] = m
    <3> DEFINE i == CHOOSE i \in 1 .. n : s[i] = m
    <3>1. i \in 1 .. n /\ s[i] = m
      BY <2>1
    <3>2. pkt'[m] = [port |-> rx_port, flow |-> a[i].flow, no |-> arrived + i, len |-> a[i].len]
      BY <1>2, <2>1
    <3> HIDE DEF i
    <3>. QED
      BY <3>1, <3>2
  <2>2. CASE ~\E i \in 1 .. n : s[i] = m
    BY <1>2, <2>2
  <2>. QED
    BY <2>1, <2>2
<1>6. pool' \subseteq pool
  BY <1>2
<1>7. Occupied'
  <2>1. ASSUME NEW m \in Mbuf PROVE m \in pool' \/ pkt'[m].no \in 1 .. arrived'
    <3>1. CASE m \in pool /\ \E i \in 1 .. n : pkt'[m].no = arrived + i
      BY <1>2, <1>3, <3>1
    <3>2. CASE (m \in pool => m \in pool') /\ pkt'[m] = pkt[m]
      BY <1>2, <1>3, <3>2 DEF HandedOver, Occupied
    <3>. QED
      BY <1>5, <3>1, <3>2
  <2>. QED
    BY <2>1 DEF Occupied
<1>8. ASSUME NEW c \in Count, Known(c), c # NoCount PROVE Known(c)'
  <2>1. c.mbuf \in Mbuf
    BY DEF Count
  <2>2. c.no \in 1 .. arrived /\ c.no \in 1 .. arrived'
    BY <1>2, <1>3, <1>8 DEF Known
  <2>3. CASE c.mbuf \in pool /\ \E i \in 1 .. n : pkt'[c.mbuf].no = arrived + i
    <3>1. pkt'[c.mbuf].no # c.no
      BY <1>3, <2>2, <2>3
    <3>2. c.no \in SentNumbers
      BY <1>8, <2>3 DEF Known
    <3>. QED
      BY <1>4, <2>2, <3>1, <3>2 DEF Known, SentNumbers
  <2>4. CASE pkt'[c.mbuf] = pkt[c.mbuf]
    BY <1>4, <1>6, <1>8, <2>2, <2>4 DEF Known, SentNumbers
  <2>. QED
    BY <1>5, <2>1, <2>3, <2>4
<1>9. Known(NoCount)'
  BY DEF Known
<1>10. r2f_count \in Count \cup {NoCount} /\ fwd_count \in Count \cup {NoCount}
  BY DEF TInv, RestType
<1>11. \A c \in Count \cup {NoCount} : Known(c) => Known(c)'
  BY <1>8, <1>9
<1>12. Known(r2f_count)' /\ Known(fwd_count)'
  BY <1>4, <1>10, <1>11 DEF HandedOver, Known, SentNumbers
<1>. QED
  BY <1>7, <1>12 DEF HandedOver

\* A packet that leaves its buffer has been sent.
LEMMA SendHanded ==
  ASSUME TInv, HandedOver, NEW p \in Port, TxSend(p)
  PROVE  HandedOver'
<1> DEFINE m == Head(held[txArray(p)])
           S == [port : Port, flow : Flow \cup {NoFlow}, no : Nat, out : Port]
           e == [port |-> pkt[m].port, flow |-> pkt[m].flow, no |-> pkt[m].no, out |-> p]
<1>1. /\ pkt' = [pkt EXCEPT ![m] = [Blank EXCEPT !.len = pkt[m].len]] /\ pool' = pool \cup {m}
      /\ sent' = Append(sent, e) /\ UNCHANGED <<r2f_count, fwd_count, arrived>>
  BY DEF TxSend
<1>2. \A x \in Mbuf : x # m => pkt'[x] = pkt[x]
  BY <1>1 DEF TInv, RestType
<1>3. m \in Mbuf => pkt'[m].no = 0
  BY <1>1 DEF TInv, RestType, Blank
<1>4. SentNumbers' = SentNumbers \cup {pkt[m].no}
  <2>1. sent \in Seq(S)
    BY DEF TInv, RestType
  <2>2. /\ DOMAIN sent' = 1 .. Len(sent) + 1 /\ sent'[Len(sent) + 1] = e /\ Len(sent) \in Nat
        /\ DOMAIN sent = 1 .. Len(sent)
        /\ \A x \in 1 .. Len(sent) : sent'[x] = sent[x]
    BY <1>1, <2>1, Sequences1
  <2>3. e.no = pkt[m].no
    OBVIOUS
  <2> HIDE DEF e, m, S
  <2>4. DOMAIN sent' = DOMAIN sent \cup {Len(sent) + 1} /\ \A x \in DOMAIN sent : sent'[x].no = sent[x].no
    BY <2>2
  <2>. QED
    BY <2>2, <2>3, <2>4 DEF SentNumbers
<1> HIDE DEF m
<1>5. Occupied'
  BY <1>1, <1>2 DEF HandedOver, Occupied
<1>6. ASSUME NEW c \in Count, Known(c), c # NoCount PROVE Known(c)'
  <2>1. c.mbuf \in Mbuf /\ c.no \in 1 .. arrived
    BY <1>6 DEF Count, Known
  <2>2. CASE c.mbuf = m
    <3>1. pkt'[c.mbuf].no # c.no
      BY <1>3, <2>1, <2>2
    <3>2. c.no \in SentNumbers'
      BY <1>4, <1>6, <2>2 DEF Known
    <3>. QED
      BY <1>1, <2>1, <3>1, <3>2 DEF Known
  <2>3. CASE c.mbuf # m
    BY <1>1, <1>2, <1>4, <1>6, <2>1, <2>3 DEF Known
  <2>. QED
    BY <2>2, <2>3
<1>7. \A c \in Count \cup {NoCount} : Known(c) => Known(c)'
  BY <1>6 DEF Known
<1>8. Known(r2f_count)' /\ Known(fwd_count)'
  <2>1. r2f_count \in Count \cup {NoCount} /\ fwd_count \in Count \cup {NoCount}
    BY DEF TInv, RestType
  <2>. QED
    BY <1>1, <1>7, <2>1 DEF HandedOver, Known
<1>. QED
  BY <1>5, <1>8 DEF HandedOver

LEMMA NextHanded ==
  ASSUME TInv, Places, HandedOver, [Next]_vars
  PROVE  HandedOver'
<1>1. CASE RxStep
  BY <1>1, BurstHanded, HandedStays DEF RxStep, ReceiveNothing, RxEnqueue
<1>2. CASE R2fStep
  <2>1. CASE Rx2FlowsPoll \/ Rx2FlowsFlow \/ Rx2FlowsCount
    BY <2>1, HandedStays DEF Rx2FlowsPoll, Rx2FlowsFlow, Rx2FlowsCount
  <2>2. CASE Rx2FlowsTx
    <3>1. /\ UNCHANGED <<pool, pkt, arrived, sent, fwd_count>> /\ held[r2fArray] # << >>
          /\ r2f_count' = Handed(Head(held[r2fArray]), Bypass)
      BY <2>2 DEF Rx2FlowsTx
    <3>2. r2fArray \in Array /\ Bypass \in Port
      BY Holders, PortAssumption DEF Bypass
    <3>3. Occupied' /\ \A c : (c = r2f_count' \/ Known(c)) => Known(c)'
      BY <3>1, <3>2, HandedKnown
    <3>. QED
      BY <3>1, <3>3 DEF HandedOver, Known
  <2>. QED
    BY <1>2, <2>1, <2>2 DEF R2fStep
<1>3. CASE FwdStep
  <2>1. CASE ForwardCall \/ ForwardTry \/ ForwardCount
    BY <2>1, HandedStays DEF ForwardCall, ForwardTry, ForwardCount
  <2>2. CASE ForwardTx
    <3>1. /\ UNCHANGED <<pool, pkt, arrived, sent, r2f_count>> /\ held[fwdArray] # << >>
          /\ fwd_count' = Handed(Head(held[fwdArray]), DefaultPort)
      BY <2>2 DEF ForwardTx, Enqueue
    <3>2. fwdArray \in Array /\ DefaultPort \in Port
      BY Holders, PortAssumption
    <3>3. Occupied' /\ \A c : (c = fwd_count' \/ Known(c)) => Known(c)'
      BY <3>1, <3>2, HandedKnown
    <3>. QED
      BY <3>1, <3>3 DEF HandedOver, Known
  <2>. QED
    BY <1>3, <2>1, <2>2 DEF FwdStep
<1>4. CASE \E n \in Node : NodeStep(n)
  BY <1>4, HandedStays DEF NodeStep, NodeCall, NodeTry, NodePut
<1>5. CASE \E p \in Port : TxStep(p)
  <2>1. PICK p \in Port : TxStep(p)
    BY <1>5
  <2>2. CASE TxDequeue(p) \/ TxCount(p)
    BY <2>2, HandedStays DEF TxDequeue, TxCount, loopVars
  <2>. QED
    BY <2>1, <2>2, SendHanded DEF TxStep
<1>6. CASE signal_handler \/ UNCHANGED vars
  BY <1>6, HandedStays DEF signal_handler, vars, loopVars
<1>. QED
  BY <1>1, <1>2, <1>3, <1>4, <1>5, <1>6 DEF Next

LEMMA InitHanded == Init => HandedOver
  BY DEF Init, HandedOver, Occupied, Known

\* QlenTracksRing: when the pool has no more buffers than a ring has slots, the
\* counters of an output queue, which the cores that fill and empty it update
\* one after the other and only after the ring, differ from the bytes in the
\* ring by just the packets moved and not yet counted and what was misread,
\* also when the counters wrap; and packet_enqueue, which looks at the length
\* after it has handed the buffer over, misreads it only when the packet has
\* been sent in the meantime and its buffer used for another.
THEOREM QueueLengthRight ==
  ASSUME PoolFits
  PROVE  Spec => []QlenTracksRing
<1> DEFINE I == TInv /\ Places /\ Balanced /\ HandedOver
<1>1. Init => I
  BY InitTInv, InitPlaces, InitBalanced, InitHanded
<1>2. I /\ [Next]_vars => I'
  BY NextTInv, NextPlaces, NextBalanced, NextHanded
<1>3. ASSUME TInv, Balanced, NEW p \in Port
      PROVE  get_qlen_bytes(p) =
               (Bytes(pkt, held[<<"tx", p>>]) + Unsent(p) - Uncounted(p) + misread[p]) % WORD
  <2>1. qlen_in[p] - qlen_out[p] \in Int
    <3>1. qlen_in[p] \in 0 .. WORD - 1 /\ qlen_out[p] \in 0 .. WORD - 1
      BY <1>3 DEF TInv, RestType
    <3>. QED
      BY <3>1
  <2>2. Bytes(pkt, held[<<"tx", p>>]) + Unsent(p) - Uncounted(p) + misread[p] \in Int
    BY <1>3, BalanceType
  <2>. QED
    BY <1>3, <2>1, <2>2, SameRemainder DEF Balanced, Balance, get_qlen_bytes
<1>4. I => QlenTracksRing
  BY <1>3 DEF QlenTracksRing, HandedOver, Known
<1>. QED
  BY <1>1, <1>2, <1>4, PTL DEF Spec

-----------------------------------------------------------------------------
(* Order.  A packet goes from holder to holder along a route that its port *)
(* and flow determine; the packets of a flow that are further along it are *)
(* the older ones, also across holders.                                    *)

\* How far a holder is from the wire.
Stage(h) == CASE h[1] = "tx array" -> 0 [] h[1] = "tx" -> 1
              [] h[1] = "forwarding array" -> 2 [] h[1] = "node" -> 3
              [] h[1] = "node array" -> 4 [] h[1] = "flow" -> 5
              [] h[1] = "rx2flows array" -> 6 [] h[1] = "rx" -> 7 [] h[1] = "rx array" -> 8

\* Holder h is on the route of packet x; r and s are rx_port and r2f_port.
OnRoute(h, x, r, s) ==
  /\ Stage(h) \in {0, 1} => x.port # h[2]
  /\ Stage(h) \in {2, 3, 4, 5} => x.port = HostPort /\ x.flow # NoFlow
  /\ Stage(h) \in {3, 4} => x.flow \in FlowsOf(h[2])
  /\ Stage(h) = 5 => x.flow = h[2]
  /\ Stage(h) = 6 => x.port = s
  /\ Stage(h) = 7 => x.port = h[2]
  /\ Stage(h) = 8 => x.port = r

Same(x, y) == x.port = y.port /\ x.flow = y.flow

Before(c, i, d, j) == Stage(c) < Stage(d) \/ (c = d /\ i < j)

Ordered(h, k) ==
  \A c, d \in DOMAIN h : \A i \in DOMAIN h[c], j \in DOMAIN h[d] :
    Same(k[h[c][i]], k[h[d][j]]) /\ Before(c, i, d, j) => k[h[c][i]].no < k[h[d][j]].no

Routed(h, k, r, s) == \A c \in DOMAIN h : \A i \in DOMAIN h[c] : OnRoute(c, k[h[c][i]], r, s)

In(h, m) == \E c \in DOMAIN h : \E i \in DOMAIN h[c] : h[c][i] = m

\* Packets received later have greater numbers, packets sent had smaller ones.
Numbered(h, k, n, t) ==
  /\ \A m : In(h, m) => k[m].no <= n
  /\ \A x \in DOMAIN t : /\ t[x].no <= n
                         /\ \A m : In(h, m) /\ Same(t[x], k[m]) => t[x].no < k[m].no

FlowInv == /\ Ordered(held, pkt) /\ Routed(held, pkt, rx_port, r2f_port)
           /\ Numbered(held, pkt, arrived, sent) /\ FlowOrder

\* On the way from a to b a packet passes none of its flow.
Clear(h, k, a, b) ==
  /\ Stage(a) \in Nat /\ Stage(b) \in Nat /\ Stage(b) < Stage(a)
  /\ \A i \in DOMAIN h[a] : \A d \in DOMAIN h \ {a} : \A j \in DOMAIN h[d] :
       /\ Stage(d) \in Nat
       /\ Same(k[h[a][i]], k[h[d][j]]) /\ Stage(b) < Stage(d) => Stage(a) < Stage(d)

\* The first element of a goes to b, which is empty.
Taken(H, h, g, a, b, n) ==
  /\ a \in H /\ b \in H /\ a # b /\ n \in Nat \ {0}
  /\ DOMAIN h = H /\ DOMAIN g = H /\ DOMAIN h[a] = 1 .. n /\ DOMAIN h[b] = {}
  /\ DOMAIN g[b] = {1} /\ g[b][1] = h[a][1]
  /\ DOMAIN g[a] = 1 .. n - 1 /\ \A i \in 1 .. n - 1 : g[a][i] = h[a][i + 1]
  /\ \A c \in H \ {a, b} : g[c] = h[c]

LEMMA StageType == \A h \in Holder : Stage(h) \in 0 .. 8
<1>1. \A h \in Ring : h[1] \in {"rx", "tx", "flow", "node"}
  BY DEF Ring
<1>2. \A h \in Array : h[1] \in {"rx array", "rx2flows array", "forwarding array", "node array", "tx array"}
  <2>1. <<"rx array", 0>>[1] = "rx array" /\ <<"rx2flows array", 0>>[1] = "rx2flows array"
        /\ <<"forwarding array", 0>>[1] = "forwarding array"
    OBVIOUS
  <2>2. /\ \A h \in {"node array"} \X Node : h[1] = "node array"
        /\ \A h \in {"tx array"} \X Port : h[1] = "tx array"
    OBVIOUS
  <2>. QED
    BY <2>1, <2>2 DEF Array
<1>3. ASSUME NEW h
      PROVE  /\ h[1] = "tx array" => Stage(h) = 0
             /\ h[1] = "tx" => Stage(h) = 1
             /\ h[1] = "forwarding array" => Stage(h) = 2
             /\ h[1] = "node" => Stage(h) = 3
             /\ h[1] = "node array" => Stage(h) = 4
             /\ h[1] = "flow" => Stage(h) = 5
             /\ h[1] = "rx2flows array" => Stage(h) = 6
             /\ h[1] = "rx" => Stage(h) = 7
             /\ h[1] = "rx array" => Stage(h) = 8
  BY DEF Stage
<1>4. ASSUME NEW h \in Ring PROVE Stage(h) \in 0 .. 8
  <2>1. Stage(h) \in {1, 3, 5, 7}
    BY <1>1, <1>3, Zenon
  <2>. QED
    BY <2>1
<1>5. ASSUME NEW h \in Array PROVE Stage(h) \in 0 .. 8
  <2>1. Stage(h) \in {0, 2, 4, 6, 8}
    BY <1>2, <1>3, Zenon
  <2>. QED
    BY <2>1
<1>. QED
  BY <1>4, <1>5 DEF Holder

LEMMA Stages ==
  /\ Stage(rxArray) = 8 /\ Stage(r2fArray) = 6 /\ Stage(fwdArray) = 2
  /\ \A n : Stage(<<"node array", n>>) = 4 /\ Stage(<<"node", n>>) = 3
  /\ \A f : Stage(<<"flow", f>>) = 5
  /\ \A p : Stage(<<"rx", p>>) = 7 /\ Stage(<<"tx", p>>) = 1 /\ Stage(txArray(p)) = 0
<1>1. \A x : <<"node array", x>>[1] = "node array" /\ <<"node", x>>[1] = "node" /\ <<"flow", x>>[1] = "flow"
             /\ <<"rx", x>>[1] = "rx" /\ <<"tx", x>>[1] = "tx" /\ txArray(x)[1] = "tx array"
  BY DEF txArray
<1>2. rxArray[1] = "rx array" /\ r2fArray[1] = "rx2flows array" /\ fwdArray[1] = "forwarding array"
  BY DEF rxArray, r2fArray, fwdArray
<1>. QED
  BY <1>1, <1>2 DEF Stage

LEMMA TakenOrdered ==
  ASSUME NEW H, NEW h, NEW g, NEW a, NEW b, NEW n, NEW k, Taken(H, h, g, a, b, n),
         Ordered(h, k), Clear(h, k, a, b)
  PROVE  Ordered(g, k)
<1> DEFINE From(c) == IF c = b THEN a ELSE c
           At(c, i) == IF c = a THEN i + 1 ELSE i
<1>1. ASSUME NEW c \in H, NEW i \in DOMAIN g[c]
      PROVE  /\ From(c) \in H /\ At(c, i) \in DOMAIN h[From(c)]
             /\ g[c][i] = h[From(c)][At(c, i)]
  <2>1. CASE c = a
    BY <1>1, <2>1 DEF Taken
  <2>2. CASE c = b
    BY <1>1, <2>2 DEF Taken
  <2>3. CASE c # a /\ c # b
    BY <1>1, <2>3 DEF Taken
  <2>. QED
    BY <2>1, <2>2, <2>3
<1>2. ASSUME NEW c \in H, NEW i \in DOMAIN g[c], NEW d \in H, NEW j \in DOMAIN g[d],
             Same(k[g[c][i]], k[g[d][j]]), Before(c, i, d, j)
      PROVE  Before(From(c), At(c, i), From(d), At(d, j))
  <2>1. CASE c = b /\ d = b
    BY <1>2, <2>1 DEF Taken, Before, Clear
  <2>2. CASE c = b /\ d = a
    BY <1>2, <2>2 DEF Taken, Before
  <2>3. CASE c = b /\ d \notin {a, b}
    <3>1. g[c][i] = h[a][1] /\ 1 \in DOMAIN h[a] /\ g[d] = h[d] /\ Stage(b) < Stage(d)
      BY <1>2, <2>3 DEF Taken, Before
    <3>2. Stage(a) < Stage(d)
      BY <1>2, <2>3, <3>1 DEF Clear, Taken
    <3>. QED
      BY <2>3, <3>2 DEF Before
  <2>4. CASE c # b /\ d = b
    <3>1. Stage(c) < Stage(b)
      BY <1>2, <2>4 DEF Before
    <3>2. c # a
      BY <3>1 DEF Clear
    <3>3. Stage(c) \in Nat
      <4>1. c \in DOMAIN h \ {a} /\ i \in DOMAIN h[c] /\ 1 \in DOMAIN h[a]
        BY <1>2, <2>4, <3>2 DEF Taken
      <4>. QED
        BY <4>1 DEF Clear
    <3>4. Stage(c) < Stage(a)
      BY <3>1, <3>3 DEF Clear
    <3>. QED
      BY <2>4, <3>4 DEF Before
  <2>5. CASE c # b /\ d # b
    BY <1>2, <2>5 DEF Before, Taken
  <2>. QED
    BY <2>1, <2>2, <2>3, <2>4, <2>5
<1>3. DOMAIN g = H /\ DOMAIN h = H
  BY DEF Taken
<1> HIDE DEF From, At
<1>. QED
  BY <1>1, <1>2, <1>3 DEF Ordered

LEMMA PouredOrdered ==
  ASSUME NEW H, NEW h, NEW g, NEW a, NEW b, NEW n, NEW l, NEW k, Poured(H, h, g, a, b, n, l),
         Ordered(h, k), Clear(h, k, a, b)
  PROVE  Ordered(g, k)
<1> DEFINE From(c, i) == IF c = b /\ i > n THEN a ELSE c
           At(c, i)   == IF c = b /\ i > n THEN i - n ELSE i
<1>1. ASSUME NEW c \in H, NEW i \in DOMAIN g[c]
      PROVE  /\ From(c, i) \in H /\ At(c, i) \in DOMAIN h[From(c, i)]
             /\ g[c][i] = h[From(c, i)][At(c, i)]
  <2>1. CASE c = a
    BY <1>1, <2>1 DEF Poured
  <2>2. CASE c = b
    BY <1>1, <2>2 DEF Poured
  <2>3. CASE c # a /\ c # b
    BY <1>1, <2>3 DEF Poured
  <2>. QED
    BY <2>1, <2>2, <2>3
<1>2. ASSUME NEW c \in H, NEW i \in DOMAIN g[c], NEW d \in H, NEW j \in DOMAIN g[d],
             Same(k[g[c][i]], k[g[d][j]]), Before(c, i, d, j)
      PROVE  Before(From(c, i), At(c, i), From(d, j), At(d, j))
  <2>0. c # a /\ d # a
    BY <1>2 DEF Poured
  <2>1. CASE c = b /\ d = b
    <3>1. i < j /\ i \in Nat /\ j \in Nat /\ n \in Nat
      BY <1>2, <2>1 DEF Poured, Before, Clear
    <3>. QED
      BY <2>1, <3>1 DEF Before, Clear
  <2>2. CASE c = b /\ d # b
    <3>1. Stage(b) < Stage(d)
      BY <1>2, <2>2 DEF Before
    <3>2. CASE i > n
      <4>1. i - n \in DOMAIN h[a] /\ g[c][i] = h[a][i - n] /\ g[d] = h[d] /\ d \in DOMAIN h \ {a}
        BY <1>2, <2>0, <2>2, <3>2 DEF Poured
      <4>2. Stage(a) < Stage(d)
        BY <1>2, <3>1, <4>1 DEF Clear
      <4>. QED
        BY <2>2, <3>2, <4>2 DEF Before
    <3>3. CASE ~(i > n)
      BY <2>2, <3>1, <3>3 DEF Before
    <3>. QED
      BY <3>2, <3>3
  <2>3. CASE c # b /\ d = b
    <3>1. Stage(c) < Stage(b)
      BY <1>2, <2>3 DEF Before
    <3>2. CASE j > n
      <4>1. c \in DOMAIN h \ {a} /\ i \in DOMAIN h[c] /\ j - n \in DOMAIN h[a]
        BY <1>2, <2>0, <2>3, <3>2 DEF Poured
      <4>2. Stage(c) \in Nat
        BY <4>1 DEF Clear
      <4>3. Stage(c) < Stage(a)
        BY <3>1, <4>2 DEF Clear
      <4>. QED
        BY <2>3, <3>2, <4>3 DEF Before
    <3>3. CASE ~(j > n)
      BY <2>3, <3>1, <3>3 DEF Before
    <3>. QED
      BY <3>2, <3>3
  <2>4. CASE c # b /\ d # b
    BY <1>2, <2>4
  <2>. QED
    BY <2>1, <2>2, <2>3, <2>4
<1>3. DOMAIN g = H /\ DOMAIN h = H
  BY DEF Poured
<1> HIDE DEF From, At
<1>. QED
  BY <1>1, <1>2, <1>3 DEF Ordered

\* What a move leaves: the same packets, on their routes.
LEMMA TakenRouted ==
  ASSUME NEW H, NEW h, NEW g, NEW a, NEW b, NEW n, NEW k, NEW r, NEW s, Taken(H, h, g, a, b, n),
         Routed(h, k, r, s), OnRoute(b, k[h[a][1]], r, s)
  PROVE  Routed(g, k, r, s) /\ \A m : In(g, m) => In(h, m)
<1>1. ASSUME NEW c \in H, NEW i \in DOMAIN g[c]
      PROVE  OnRoute(c, k[g[c][i]], r, s) /\ In(h, g[c][i])
  <2>1. CASE c = a
    <3>1. i + 1 \in DOMAIN h[a] /\ g[c][i] = h[a][i + 1]
      BY <1>1, <2>1 DEF Taken
    <3>. QED
      BY <2>1, <3>1 DEF Routed, In, Taken
  <2>2. CASE c = b
    <3>1. 1 \in DOMAIN h[a] /\ g[c][i] = h[a][1]
      BY <1>1, <2>2 DEF Taken
    <3>. QED
      BY <2>2, <3>1 DEF In, Taken
  <2>3. CASE c # a /\ c # b
    BY <1>1, <2>3 DEF Routed, In, Taken
  <2>. QED
    BY <2>1, <2>2, <2>3
<1>2. DOMAIN g = H
  BY DEF Taken
<1>3. ASSUME NEW m, In(g, m) PROVE In(h, m)
  BY <1>1, <1>2, <1>3 DEF In
<1>4. Routed(g, k, r, s)
  BY <1>1, <1>2 DEF Routed
<1>. QED
  BY <1>3, <1>4

LEMMA PouredRouted ==
  ASSUME NEW H, NEW h, NEW g, NEW a, NEW b, NEW n, NEW l, NEW k, NEW r, NEW s,
         Poured(H, h, g, a, b, n, l),
         Routed(h, k, r, s), \A i \in DOMAIN h[a] : OnRoute(b, k[h[a][i]], r, s)
  PROVE  Routed(g, k, r, s) /\ \A m : In(g, m) => In(h, m)
<1>1. ASSUME NEW c \in H, NEW i \in DOMAIN g[c]
      PROVE  OnRoute(c, k[g[c][i]], r, s) /\ In(h, g[c][i])
  <2>1. c # a
    BY <1>1 DEF Poured
  <2>2. CASE c = b /\ i <= n
    <3>1. i \in DOMAIN h[b] /\ g[c][i] = h[b][i]
      BY <1>1, <2>2 DEF Poured
    <3>. QED
      BY <2>2, <3>1 DEF Routed, In, Poured
  <2>3. CASE c = b /\ i > n
    <3>1. i - n \in DOMAIN h[a] /\ g[c][i] = h[a][i - n]
      BY <1>1, <2>3 DEF Poured
    <3>. QED
      BY <2>3, <3>1 DEF In, Poured
  <2>4. CASE c # b
    BY <1>1, <2>1, <2>4 DEF Routed, In, Poured
  <2>5. c = b => i <= n \/ i > n
    BY <1>1 DEF Poured
  <2>. QED
    BY <2>2, <2>3, <2>4, <2>5
<1>2. DOMAIN g = H
  BY DEF Poured
<1>3. ASSUME NEW m, In(g, m) PROVE In(h, m)
  BY <1>1, <1>2, <1>3 DEF In
<1>4. Routed(g, k, r, s)
  BY <1>1, <1>2 DEF Routed
<1>. QED
  BY <1>3, <1>4

LEMMA Pairs == ASSUME NEW S, NEW T, NEW c \in S \X T
               PROVE  c = <<c[1], c[2]>> /\ c[1] \in S /\ c[2] \in T
  OBVIOUS

\* The holders of each stage.
LEMMA HolderAt ==
  ASSUME NEW c \in Holder
  PROVE  /\ Stage(c) = 0 => c[2] \in Port /\ c = txArray(c[2])
         /\ Stage(c) = 1 => c[2] \in Port /\ c = <<"tx", c[2]>>
         /\ Stage(c) = 2 => c = fwdArray
         /\ Stage(c) = 3 => c[2] \in Node /\ c = <<"node", c[2]>>
         /\ Stage(c) = 4 => c[2] \in Node /\ c = <<"node array", c[2]>>
         /\ Stage(c) = 5 => c = <<"flow", c[2]>>
         /\ Stage(c) = 6 => c = r2fArray
         /\ Stage(c) = 7 => c = <<"rx", c[2]>>
         /\ Stage(c) = 8 => c = rxArray
<1>1. CASE c \in {"tx array"} \X Port
  <2>1. c[2] \in Port /\ c = txArray(c[2])
    BY <1>1, Pairs, Zenon DEF txArray
  <2>2. Stage(c) = 0
    BY <2>1, Stages
  <2>. QED
    BY <2>1, <2>2
<1>2. CASE c \in {"rx", "tx"} \X Port
  <2>1. PICK p \in Port : c = <<"rx", p>> \/ c = <<"tx", p>>
    BY <1>2
  <2>2. c[2] = p
    BY <2>1
  <2>3. CASE c = <<"rx", p>>
    <3>1. Stage(c) = 7 /\ c = <<"rx", c[2]>>
      BY <2>2, <2>3, Stages
    <3>. QED
      BY <3>1
  <2>4. CASE c = <<"tx", p>>
    <3>1. Stage(c) = 1 /\ c = <<"tx", c[2]>>
      BY <2>2, <2>4, Stages
    <3>. QED
      BY <2>2, <3>1
  <2>. QED
    BY <2>1, <2>3, <2>4
<1>3. CASE c \in {"node"} \X Node
  <2>1. PICK n \in Node : c = <<"node", n>>
    BY <1>3
  <2>2. c[2] = n /\ Stage(c) = 3
    BY <2>1, Stages
  <2>. QED
    BY <2>1, <2>2
<1>4. CASE c \in {"node array"} \X Node
  <2>1. c[2] \in Node /\ c = <<"node array", c[2]>>
    BY <1>4, Pairs, Zenon
  <2>2. Stage(c) = 4
    BY <2>1, Stages
  <2>3. Stage(c) \notin {0, 1, 2, 3, 5, 6, 7, 8}
    BY <2>2
  <2>. QED
    BY <2>1, <2>3, Zenon
<1>5. CASE c \in {"flow"} \X Flow
  <2>1. PICK f \in Flow : c = <<"flow", f>>
    BY <1>5
  <2>2. c[2] = f /\ Stage(c) = 5
    BY <2>1, Stages
  <2>. QED
    BY <2>1, <2>2
<1>6. CASE c = rxArray
  <2>1. Stage(c) = 8
    BY <1>6, Stages
  <2>. QED
    BY <1>6, <2>1
<1>7. CASE c = r2fArray
  <2>1. Stage(c) = 6
    BY <1>7, Stages
  <2>. QED
    BY <1>7, <2>1
<1>8. CASE c = fwdArray
  <2>1. Stage(c) = 2
    BY <1>8, Stages
  <2>. QED
    BY <1>8, <2>1
<1>. QED
  BY <1>1, <1>2, <1>3, <1>4, <1>5, <1>6, <1>7, <1>8
     DEF Holder, Ring, Array, rxArray, r2fArray, fwdArray

\* No flow belongs to two nodes.
LEMMA FlowsApart ==
  ASSUME NEW n \in Node, NEW k \in Node, NEW f, f \in FlowsOf(n), f \in FlowsOf(k)
  PROVE  n = k
<1>1. FLOWS \in Nat \ {0} /\ n \in Nat /\ k \in Nat
  BY SizeAssumption DEF Node
<1>2. \A a, b \in Nat : a < b => FLOWS * a + FLOWS <= FLOWS * b /\ FLOWS * a \in Nat
  <2>1. ASSUME NEW a \in Nat, NEW b \in Nat, a < b
        PROVE  FLOWS * a + FLOWS <= FLOWS * b /\ FLOWS * a \in Nat
    <3>1. b - a >= 1 /\ FLOWS * b = FLOWS * a + FLOWS * (b - a)
      BY <1>1, <2>1
    <3>2. FLOWS * (b - a) >= FLOWS
      BY <1>1, <3>1
    <3>3. FLOWS * a \in Nat /\ FLOWS * b \in Nat /\ FLOWS * (b - a) \in Int
      BY <1>1
    <3>. QED
      BY <1>1, <3>1, <3>2, <3>3
  <2>. QED
    BY <2>1
<1>3. FLOWS * n \in Nat /\ FLOWS * k \in Nat
  BY FlowsOfNode
<1>4. FLOWS * n <= f /\ f < FLOWS * n + FLOWS /\ FLOWS * k <= f /\ f < FLOWS * k + FLOWS /\ f \in Int
  BY <1>1, <1>3 DEF FlowsOf
<1>5. ~(n < k) /\ ~(k < n)
  BY <1>1, <1>2, <1>3, <1>4
<1>. QED
  BY <1>1, <1>5

\* A route has one holder at each stage.
LEMMA OneHolder ==
  ASSUME NEW c \in Holder, NEW d \in Holder, NEW x, NEW y, NEW r, NEW s,
         x.port \in Port, Stage(c) = Stage(d), OnRoute(c, x, r, s), OnRoute(d, y, r, s), Same(x, y)
  PROVE  c = d
<1>1. \A p, q, o \in Port : o # p /\ o # q => p = q
  BY DEF Port
<1>2. Stage(c) \in 0 .. 8
  BY StageType
<1>3. x.port = y.port /\ x.flow = y.flow
  BY DEF Same
<1>4. CASE Stage(c) \in {0, 1}
  <2>1. c[2] \in Port /\ d[2] \in Port /\ x.port # c[2] /\ x.port # d[2]
    BY <1>3, <1>4, HolderAt DEF OnRoute
  <2>2. c[2] = d[2]
    BY <1>1, <2>1
  <2>. QED
    BY <1>4, <2>2, HolderAt
<1>5. CASE Stage(c) \in {3, 4}
  <2>1. c[2] \in Node /\ d[2] \in Node /\ x.flow \in FlowsOf(c[2]) /\ x.flow \in FlowsOf(d[2])
    BY <1>3, <1>5, HolderAt DEF OnRoute
  <2>2. c[2] = d[2]
    BY <2>1, FlowsApart
  <2>. QED
    BY <1>5, <2>2, HolderAt
<1>6. CASE Stage(c) \in {5, 7}
  <2>1. c[2] = d[2]
    BY <1>3, <1>6 DEF OnRoute
  <2>. QED
    BY <1>6, <2>1, HolderAt
<1>7. CASE Stage(c) \in {2, 6, 8}
  BY <1>7, HolderAt
<1>. QED
  BY <1>2, <1>4, <1>5, <1>6, <1>7

\* So a packet passes none of its flow on its way to the next stage.
LEMMA NextStageClear ==
  ASSUME TInv, FlowInv, NEW a \in Holder, NEW b \in Holder, Stage(a) = Stage(b) + 1
  PROVE  Clear(held, pkt, a, b)
<1>1. \A c \in Holder : Stage(c) \in Nat
  BY StageType
<1>2. Stage(b) < Stage(a)
  BY <1>1
<1>3. DOMAIN held = Holder
  BY DEF TInv, HeldType
<1>4. ASSUME NEW i \in DOMAIN held[a], NEW d \in Holder \ {a}, NEW j \in DOMAIN held[d],
             Same(pkt[held[a][i]], pkt[held[d][j]]), Stage(b) < Stage(d)
      PROVE  Stage(a) < Stage(d)
  <2>1. /\ OnRoute(a, pkt[held[a][i]], rx_port, r2f_port)
        /\ OnRoute(d, pkt[held[d][j]], rx_port, r2f_port)
    BY <1>3, <1>4 DEF FlowInv, Routed
  <2>2. held[a][i] \in Mbuf
    <3>1. held[a] \in Seq(Mbuf)
      BY DEF TInv, HeldType
    <3>. QED
      BY <3>1
  <2>3. pkt[held[a][i]].port \in Port
    BY <2>2 DEF TInv, RestType, Record
  <2>4. Stage(a) # Stage(d)
    BY <1>4, <2>1, <2>3, OneHolder
  <2>5. Stage(a) \in Nat /\ Stage(b) \in Nat /\ Stage(d) \in Nat
    BY <1>1
  <2>. QED
    BY <1>4, <2>4, <2>5
<1>. QED
  BY <1>1, <1>2, <1>3, <1>4 DEF Clear

\* Holding fewer packets keeps the numbers right.
LEMMA FewerNumbered ==
  ASSUME NEW h, NEW g, NEW k, NEW n, NEW t, Numbered(h, k, n, t), \A m : In(g, m) => In(h, m)
  PROVE  Numbered(g, k, n, t)
  BY DEF Numbered

LEMMA FlowPrimed ==
  ASSUME FlowInv, Ordered(held', pkt'), Routed(held', pkt', rx_port', r2f_port'),
         Numbered(held', pkt', arrived', sent'), sent' = sent
  PROVE  FlowInv'
<1>1. FlowOrder'
  BY DEF FlowInv, FlowOrder
<1>. QED
  BY <1>1 DEF FlowInv, Ordered, Routed, OnRoute, Numbered, In, Same, Before, Stage

\* A core takes a packet out of a ring.
LEMMA TakeFlow ==
  ASSUME TInv, FlowInv, NEW ring \in Ring, NEW array \in Array, held[array] = << >>,
         Dequeue(ring, array), Stage(ring) = Stage(array) + 1,
         OnRoute(array, pkt[Head(held[ring])], rx_port, r2f_port),
         UNCHANGED <<pkt, rx_port, r2f_port, arrived, sent>>
  PROVE  FlowInv'
<1>1. /\ HeldType' /\ held[ring] \in Seq(Mbuf) /\ held[ring] # << >>
      /\ held'[ring] = Tail(held[ring]) /\ held'[array] = <<Head(held[ring])>>
      /\ \A c \in Holder \ {ring, array} : held'[c] = held[c]
  BY DequeueHeld DEF TInv
<1>2. ring \in Holder /\ array \in Holder /\ ring # array
  BY Holders
<1>3. DOMAIN held = Holder /\ DOMAIN held' = Holder
  BY <1>1 DEF TInv, HeldType
<1> DEFINE n == Len(held[ring])
<1>4. /\ n \in Nat \ {0} /\ DOMAIN held[ring] = 1 .. n /\ Head(held[ring]) = held[ring][1]
      /\ DOMAIN Tail(held[ring]) = 1 .. n - 1
      /\ \A i \in 1 .. n - 1 : Tail(held[ring])[i] = held[ring][i + 1]
  BY <1>1, Sequences1
<1>5. DOMAIN held[array] = {} /\ DOMAIN held'[array] = {1} /\ held'[array][1] = held[ring][1]
  BY <1>1, <1>4
<1> HIDE DEF n
<1>6. Taken(Holder, held, held', ring, array, n)
  BY <1>1, <1>2, <1>3, <1>4, <1>5 DEF Taken
<1>7. Ordered(held', pkt)
  BY <1>2, <1>6, NextStageClear, TakenOrdered DEF FlowInv
<1>8. OnRoute(array, pkt[held[ring][1]], rx_port, r2f_port)
  BY <1>4
<1>9. Routed(held', pkt, rx_port, r2f_port) /\ \A m : In(held', m) => In(held, m)
  BY <1>6, <1>8, TakenRouted DEF FlowInv
<1>10. Numbered(held', pkt, arrived, sent)
  BY <1>9, FewerNumbered DEF FlowInv
<1>. QED
  BY <1>7, <1>9, <1>10, FlowPrimed

\* A core puts its packet into a ring.
LEMMA PutFlow ==
  ASSUME TInv, Places, PoolFits, FlowInv, NEW ring \in Ring, NEW array \in Array,
         Enqueue(array, ring), Len(held[array]) <= 1, Clear(held, pkt, array, ring),
         OnRoute(ring, pkt[Head(held[array])], rx_port, r2f_port),
         UNCHANGED <<pkt, pool, rx_port, arrived, sent>>,
         r2f_port' = r2f_port \/ array = r2fArray
  PROVE  FlowInv'
<1>1. /\ HeldType' /\ held[array] \in Seq(Mbuf) /\ held[array] # << >> /\ held'[array] = << >>
      /\ \A c \in Holder \ {ring, array} : held'[c] = held[c]
  BY EnqueueHeld DEF TInv
<1>2. ring \in Holder /\ array \in Holder /\ ring # array /\ held[ring] \in Seq(Mbuf)
  BY Holders DEF TInv, HeldType
<1>3. DOMAIN held = Holder /\ DOMAIN held' = Holder
  BY <1>1 DEF TInv, HeldType
<1>4. /\ Len(held[array]) \in Nat \ {0} /\ DOMAIN held[array] = 1 .. Len(held[array])
      /\ Head(held[array]) = held[array][1]
  BY <1>1, Sequences1
<1>5. DOMAIN held[array] = 1 .. 1
  <2>1. \A k \in Nat \ {0} : k <= 1 => k = 1
    OBVIOUS
  <2>. QED
    BY <1>4, <2>1
<1>6. held'[ring] = Append(held[ring], Head(held[array]))
  BY EnqueuePlaces DEF TInv
<1> DEFINE n == Len(held[ring])
<1>7. /\ n \in Nat /\ DOMAIN held[ring] = 1 .. n /\ DOMAIN held'[ring] = 1 .. n + 1
      /\ \A i \in 1 .. n : held'[ring][i] = held[ring][i]
      /\ held'[ring][n + 1] = held[array][1]
  BY <1>2, <1>4, <1>6, Sequences1
<1> HIDE DEF n
<1>8. \A i \in n + 1 .. n + 1 : held'[ring][i] = held[array][i - n]
  <2>1. \A i \in n + 1 .. n + 1 : i = n + 1 /\ i - n = 1
    BY <1>7
  <2>. QED
    BY <1>7, <2>1
<1>9. Poured(Holder, held, held', array, ring, n, 1)
  BY <1>1, <1>2, <1>3, <1>5, <1>7, <1>8 DEF Poured
<1>10. Ordered(held', pkt)
  BY <1>9, PouredOrdered DEF FlowInv
<1>11. \A i \in DOMAIN held[array] : OnRoute(ring, pkt[held[array][i]], rx_port, r2f_port)
  BY <1>4, <1>5
<1>12. Routed(held', pkt, rx_port, r2f_port) /\ \A m : In(held', m) => In(held, m)
  BY <1>9, <1>11, PouredRouted DEF FlowInv
<1>13. Numbered(held', pkt, arrived, sent)
  BY <1>12, FewerNumbered DEF FlowInv
<1>14. Routed(held', pkt, rx_port, r2f_port')
  <2>1. CASE r2f_port' = r2f_port
    BY <1>12, <2>1
  <2>2. CASE array = r2fArray
    <3>1. DOMAIN held'[r2fArray] = {}
      BY <1>1, <2>2
    <3>2. \A c \in Holder : Stage(c) = 6 => c = r2fArray
      BY HolderAt
    <3>. QED
      BY <1>3, <1>12, <3>1, <3>2 DEF Routed, OnRoute
  <2>. QED
    BY <2>1, <2>2
<1>. QED
  BY <1>10, <1>13, <1>14, FlowPrimed

\* An index of a loop moves on when the loop has nothing in hand.
LEMMA RoutedPorts ==
  ASSUME NEW h, NEW k, NEW r, NEW s, NEW q, NEW t, Routed(h, k, r, s), DOMAIN h = Holder,
         q = r \/ DOMAIN h[rxArray] = {}, t = s \/ DOMAIN h[r2fArray] = {}
  PROVE  Routed(h, k, q, t)
<1>1. \A c \in Holder : (Stage(c) = 8 => c = rxArray) /\ (Stage(c) = 6 => c = r2fArray)
  BY HolderAt
<1>2. ASSUME NEW c \in Holder, NEW i \in DOMAIN h[c] PROVE OnRoute(c, k[h[c][i]], q, t)
  <2>1. OnRoute(c, k[h[c][i]], r, s)
    BY <1>2 DEF Routed
  <2>2. (Stage(c) = 8 => q = r) /\ (Stage(c) = 6 => t = s)
    BY <1>1, <1>2
  <2>. QED
    BY <2>1, <2>2 DEF OnRoute
<1>. QED
  BY <1>2 DEF Routed

LEMMA StillFlow ==
  ASSUME TInv, FlowInv, UNCHANGED <<held, pkt, arrived, sent>>,
         rx_port' = rx_port \/ held[rxArray] = << >>,
         r2f_port' = r2f_port \/ held[r2fArray] = << >>
  PROVE  FlowInv'
<1>1. Routed(held, pkt, rx_port', r2f_port')
  <2>1. /\ rx_port' = rx_port \/ DOMAIN held[rxArray] = {}
        /\ r2f_port' = r2f_port \/ DOMAIN held[r2fArray] = {}
    OBVIOUS
  <2>. QED
    BY <2>1, RoutedPorts DEF FlowInv, TInv, HeldType
<1>2. Ordered(held', pkt') /\ Numbered(held', pkt', arrived', sent') /\ Routed(held', pkt', rx_port', r2f_port')
  BY <1>1 DEF FlowInv
<1>. QED
  BY <1>2, FlowPrimed

\* Packets received go behind all others.
LEMMA BurstFlow ==
  ASSUME TInv, Places, FlowInv, ReceiveBurst
  PROVE  FlowInv'
<1>1. PICK n \in 1 .. BURST : \E s \in [1 .. n -> pool], a \in [1 .. n -> Arrivals] :
        /\ arrived + n <= MaxArrivals
        /\ \A i, j \in 1 .. n : i # j => s[i] # s[j]
        /\ \A i \in 1 .. n : a[i].port = rx_port
        /\ held' = [held EXCEPT ![rxArray] = s]
        /\ pool' = pool \ {s[i] : i \in 1 .. n}
        /\ pkt' = [m \in Mbuf |->
             IF \E i \in 1 .. n : s[i] = m
             THEN LET i == CHOOSE i \in 1 .. n : s[i] = m
                  IN  [port |-> rx_port, flow |-> a[i].flow, no |-> arrived + i, len |-> a[i].len]
             ELSE pkt[m]]
        /\ arrived' = arrived + n
  BY DEF ReceiveBurst
<1>2. PICK s \in [1 .. n -> pool], a \in [1 .. n -> Arrivals] :
        /\ \A i, j \in 1 .. n : i # j => s[i] # s[j]
        /\ held' = [held EXCEPT ![rxArray] = s]
        /\ pkt' = [m \in Mbuf |->
             IF \E i \in 1 .. n : s[i] = m
             THEN LET i == CHOOSE i \in 1 .. n : s[i] = m
                  IN  [port |-> rx_port, flow |-> a[i].flow, no |-> arrived + i, len |-> a[i].len]
             ELSE pkt[m]]
        /\ arrived' = arrived + n
  BY <1>1
<1>3. n \in Nat /\ arrived \in Nat /\ pool \subseteq Mbuf /\ DOMAIN held = Holder
  BY SizeAssumption DEF TInv, RestType, HeldType
<1>4. UNCHANGED <<rx_port, r2f_port, sent>> /\ held[rxArray] = << >>
  BY DEF ReceiveBurst, Loops, loopVars
<1>5. /\ DOMAIN held' = Holder /\ rxArray \in Holder /\ held'[rxArray] = s /\ DOMAIN s = 1 .. n
      /\ \A c \in Holder \ {rxArray} : held'[c] = held[c]
  BY <1>2, <1>3, Holders
<1>6. ASSUME NEW i \in 1 .. n
      PROVE  pkt'[s[i]].port = rx_port /\ pkt'[s[i]].no = arrived + i
  <2>1. s[i] \in Mbuf
    BY <1>3
  <2> DEFINE j == CHOOSE j \in 1 .. n : s[j] = s[i]
  <2>2. j \in 1 .. n /\ s[j] = s[i]
    OBVIOUS
  <2>3. j = i
    BY <1>2, <2>2
  <2>4. pkt'[s[i]] = [port |-> rx_port, flow |-> a[j].flow, no |-> arrived + j, len |-> a[j].len]
    BY <1>2, <2>1, <2>2
  <2> HIDE DEF j
  <2>. QED
    BY <2>3, <2>4
<1>7. ASSUME NEW c \in Holder, NEW i \in DOMAIN held[c]
      PROVE  held[c][i] \in Mbuf /\ held[c][i] \notin pool /\ pkt'[held[c][i]] = pkt[held[c][i]]
  <2>1. held[c] \in Seq(Mbuf)
    BY DEF TInv, HeldType
  <2>2. held[c][i] \in Mbuf
    BY <1>7, <2>1
  <2>3. held[c][i] \notin pool
    BY <1>3, <1>7 DEF Places, Distinct
  <2>4. ~\E j \in 1 .. n : s[j] = held[c][i]
    BY <2>3
  <2>. QED
    BY <1>2, <2>2, <2>3, <2>4
<1>8. ASSUME NEW c \in Holder, NEW i \in DOMAIN held'[c]
      PROVE  \/ /\ c # rxArray /\ i \in DOMAIN held[c] /\ held'[c] = held[c]
                /\ pkt'[held'[c][i]] = pkt[held[c][i]] /\ pkt[held[c][i]].no <= arrived
                /\ pkt[held[c][i]].no \in Nat
             \/ /\ c = rxArray /\ i \in 1 .. n
                /\ pkt'[held'[c][i]].port = rx_port /\ pkt'[held'[c][i]].no = arrived + i
  <2>1. CASE c = rxArray
    BY <1>5, <1>6, <1>8, <2>1
  <2>2. CASE c # rxArray
    <3>1. held'[c] = held[c] /\ i \in DOMAIN held[c]
      BY <1>5, <1>8, <2>2
    <3>2. In(held, held[c][i])
      BY <1>3, <3>1 DEF In
    <3>3. pkt[held[c][i]].no <= arrived
      BY <3>2 DEF FlowInv, Numbered
    <3>4. pkt[held[c][i]].no \in Nat
      BY <1>7, <3>1 DEF TInv, RestType, Record
    <3>. QED
      BY <1>7, <2>2, <3>1, <3>3, <3>4
  <2>. QED
    BY <2>1, <2>2
<1>9. \A c \in Holder : Stage(c) \in Nat /\ ~(Stage(rxArray) < Stage(c))
  <2>1. ASSUME NEW c \in Holder PROVE Stage(c) \in Nat /\ ~(8 < Stage(c))
    BY StageType
  <2>. QED
    BY <2>1, Stages
<1>10. Ordered(held', pkt')
  <2> SUFFICES ASSUME NEW c \in Holder, NEW d \in Holder,
                      NEW i \in DOMAIN held'[c], NEW j \in DOMAIN held'[d],
                      Same(pkt'[held'[c][i]], pkt'[held'[d][j]]), Before(c, i, d, j)
               PROVE  pkt'[held'[c][i]].no < pkt'[held'[d][j]].no
    BY <1>5 DEF Ordered
  <2>1. CASE c # rxArray /\ d # rxArray
    BY <1>3, <1>8, <2>1 DEF FlowInv, Ordered
  <2>2. CASE c # rxArray /\ d = rxArray
    BY <1>3, <1>8, <2>2
  <2>3. CASE c = rxArray
    <3>1. d = rxArray /\ i < j
      BY <1>9, <2>3 DEF Before
    <3>. QED
      BY <1>3, <1>8, <2>3, <3>1
  <2>. QED
    BY <2>1, <2>2, <2>3
<1>11. Routed(held', pkt', rx_port', r2f_port')
  <2>1. ASSUME NEW c \in Holder, NEW i \in DOMAIN held'[c]
        PROVE  OnRoute(c, pkt'[held'[c][i]], rx_port, r2f_port)
    <3>1. CASE c = rxArray
      <4>1. pkt'[held'[c][i]].port = rx_port
        BY <1>8, <2>1, <3>1
      <4>2. Stage(c) = 8
        BY <3>1, Stages
      <4>. QED
        BY <4>1, <4>2 DEF OnRoute
    <3>2. CASE c # rxArray
      BY <1>3, <1>8, <2>1, <3>2 DEF FlowInv, Routed
    <3>. QED
      BY <3>1, <3>2
  <2>. QED
    BY <1>4, <1>5, <2>1 DEF Routed
<1>12. Numbered(held', pkt', arrived', sent')
  <2>1. ASSUME NEW m, In(held', m)
        PROVE  \/ In(held, m) /\ pkt'[m] = pkt[m] /\ pkt[m].no <= arrived /\ pkt[m].no \in Nat
               \/ \E i \in 1 .. n : pkt'[m].no = arrived + i
    <3>1. PICK c \in Holder : \E i \in DOMAIN held'[c] : held'[c][i] = m
      BY <1>5, <2>1 DEF In
    <3>2. PICK i \in DOMAIN held'[c] : held'[c][i] = m
      BY <3>1
    <3>3. CASE c = rxArray
      BY <1>8, <3>2, <3>3
    <3>4. CASE c # rxArray
      <4>1. i \in DOMAIN held[c] /\ held[c][i] = m
        BY <1>8, <3>2, <3>4
      <4>2. In(held, m)
        BY <1>3, <4>1 DEF In
      <4>. QED
        BY <1>8, <3>2, <3>4, <4>1, <4>2
    <3>. QED
      BY <3>3, <3>4
  <2>2. ASSUME NEW m, In(held', m) PROVE pkt'[m].no <= arrived'
    <3>1. CASE pkt'[m] = pkt[m] /\ pkt[m].no <= arrived /\ pkt[m].no \in Nat
      BY <1>2, <1>3, <3>1
    <3>2. CASE \E i \in 1 .. n : pkt'[m].no = arrived + i
      BY <1>2, <1>3, <3>2
    <3>. QED
      BY <2>1, <2>2, <3>1, <3>2
  <2>3. ASSUME NEW x \in DOMAIN sent' PROVE sent'[x].no <= arrived' /\ sent'[x].no \in Nat /\ sent'[x].no <= arrived
    <3>1. sent[x].no \in Nat
      <4> DEFINE S == [port : Port, flow : Flow \cup {NoFlow}, no : Nat, out : Port]
      <4>1. sent \in Seq(S) /\ x \in DOMAIN sent
        BY <1>4, <2>3 DEF TInv, RestType
      <4>2. \A y \in S : y.no \in Nat
        OBVIOUS
      <4> HIDE DEF S
      <4>3. sent[x] \in S
        BY <4>1
      <4>. QED
        BY <4>2, <4>3
    <3>2. sent[x].no <= arrived
      BY <1>4, <2>3 DEF FlowInv, Numbered
    <3>. QED
      BY <1>2, <1>3, <1>4, <3>1, <3>2
  <2>4. ASSUME NEW x \in DOMAIN sent', NEW m, In(held', m), Same(sent'[x], pkt'[m])
        PROVE  sent'[x].no < pkt'[m].no
    <3>1. CASE In(held, m) /\ pkt'[m] = pkt[m]
      BY <1>4, <2>4, <3>1 DEF FlowInv, Numbered
    <3>2. CASE \E i \in 1 .. n : pkt'[m].no = arrived + i
      BY <1>3, <2>3, <2>4, <3>2
    <3>. QED
      BY <2>1, <2>4, <3>1, <3>2
  <2>. QED
    BY <2>2, <2>3, <2>4 DEF Numbered
<1>. QED
  BY <1>4, <1>10, <1>11, <1>12, FlowPrimed

LEMMA RxFlow ==
  ASSUME TInv, Places, FlowInv, RxStep
  PROVE  FlowInv'
<1>1. CASE ReceiveBurst
  BY <1>1, BurstFlow
<1>2. CASE ReceiveNothing
  BY <1>2, StillFlow DEF ReceiveNothing, Loops
<1>3. CASE RxEnqueue
  <2> DEFINE ring == <<"rx", rx_port>>
             n == Len(held[ring])
             l == Len(held[rxArray])
  <2>1. Poured(Holder, held, held', rxArray, ring, n, l)
    BY <1>3, RxPoured
  <2>2. /\ UNCHANGED <<pkt, r2f_port, arrived, sent>> /\ held'[rxArray] = << >>
        /\ rxArray \in Holder /\ ring \in Holder /\ DOMAIN held' = Holder
        /\ Stage(rxArray) = Stage(ring) + 1
    <3>1. Stage(rxArray) = 8 /\ Stage(ring) = 7
      BY Stages
    <3>2. rxArray \in Holder /\ ring \in Holder /\ ring # rxArray
      BY Holders DEF TInv, RestType
    <3>. QED
      BY <1>3, <3>1, <3>2 DEF RxEnqueue, TInv, HeldType
  <2>3. \A i \in DOMAIN held[rxArray] : OnRoute(ring, pkt[held[rxArray][i]], rx_port, r2f_port)
    <3>1. \A i \in DOMAIN held[rxArray] : OnRoute(rxArray, pkt[held[rxArray][i]], rx_port, r2f_port)
      BY <2>2 DEF FlowInv, Routed, TInv, HeldType
    <3>2. Stage(rxArray) = 8 /\ Stage(ring) = 7 /\ ring[2] = rx_port
      BY Stages
    <3>. QED
      BY <3>1, <3>2 DEF OnRoute
  <2> HIDE DEF ring, n, l
  <2>4. Ordered(held', pkt)
    BY <2>1, <2>2, NextStageClear, PouredOrdered DEF FlowInv
  <2>5. Routed(held', pkt, rx_port, r2f_port) /\ \A m : In(held', m) => In(held, m)
    BY <2>1, <2>3, PouredRouted DEF FlowInv
  <2>6. DOMAIN held'[rxArray] = {}
    BY <2>2
  <2>7. Routed(held', pkt, rx_port', r2f_port)
    BY <2>2, <2>5, <2>6, RoutedPorts
  <2>8. Numbered(held', pkt, arrived, sent)
    BY <2>5, FewerNumbered DEF FlowInv
  <2>. QED
    BY <2>2, <2>4, <2>7, <2>8, FlowPrimed
<1>. QED
  BY <1>1, <1>2, <1>3 DEF RxStep

\* What the head of a ring or array has to do with its route.
LEMMA HeadRouted ==
  ASSUME TInv, FlowInv, NEW c \in Holder, held[c] # << >>
  PROVE  /\ Head(held[c]) \in Mbuf /\ pkt[Head(held[c])] \in Record
         /\ OnRoute(c, pkt[Head(held[c])], rx_port, r2f_port)
<1>1. held[c] \in Seq(Mbuf) /\ DOMAIN held = Holder
  BY DEF TInv, HeldType
<1>2. Head(held[c]) = held[c][1] /\ 1 \in DOMAIN held[c] /\ Head(held[c]) \in Mbuf
  BY <1>1
<1>. QED
  BY <1>1, <1>2 DEF FlowInv, Routed, TInv, RestType

LEMMA R2fFlow ==
  ASSUME TInv, Places, PoolFits, Counting, FlowInv, R2fStep
  PROVE  FlowInv'
<1>0. /\ r2fArray \in Array /\ r2fArray \in Holder /\ Len(held[r2fArray]) <= 1 /\ Stage(r2fArray) = 6
      /\ DOMAIN held = Holder
  BY Holders, ArraysDiffer, Stages DEF TInv, ArraysOK, HeldType
<1>1. CASE Rx2FlowsPoll
  <2> DEFINE ring == <<"rx", r2f_port>>
  <2>1. ring \in Ring /\ ring \in Holder /\ Stage(ring) = 7 /\ ring[2] = r2f_port
    BY Holders, Stages DEF TInv, RestType
  <2>2. held[r2fArray] = << >> /\ UNCHANGED <<pkt, rx_port, arrived, sent>>
    BY <1>1 DEF Rx2FlowsPoll, Loops
  <2>3. CASE Dequeue(ring, r2fArray) /\ UNCHANGED r2f_port
    <3> HIDE DEF ring
    <3>1. held[ring] # << >>
      BY <2>3 DEF Dequeue
    <3>2. OnRoute(r2fArray, pkt[Head(held[ring])], rx_port, r2f_port)
      <4>1. pkt[Head(held[ring])].port = r2f_port
        BY <2>1, <3>1, HeadRouted DEF OnRoute
      <4>. QED
        BY <1>0, <4>1 DEF OnRoute
    <3>. QED
      BY <1>0, <2>1, <2>2, <2>3, <3>2, TakeFlow
  <2>4. CASE UNCHANGED held
    BY <2>2, <2>4, StillFlow
  <2>. QED
    BY <1>1, <2>3, <2>4 DEF Rx2FlowsPoll
<1> DEFINE m == Head(held[r2fArray])
<1>2. held[r2fArray] # << >> => pkt[m] \in Record /\ pkt[m].port = r2f_port
  BY <1>0, HeadRouted DEF OnRoute
<1>3. CASE Rx2FlowsFlow
  <2> DEFINE ring == <<"flow", pkt[m].flow>>
  <2>1. /\ held[r2fArray] # << >> /\ r2f_port = HostPort /\ pkt[m].flow # NoFlow
        /\ Enqueue(r2fArray, ring) /\ UNCHANGED <<pkt, pool, rx_port, arrived, sent>>
    BY <1>3 DEF Rx2FlowsFlow, Scheduled
  <2>2. pkt[m].flow \in Flow /\ pkt[m].port = HostPort
    BY <1>2, <2>1 DEF Record
  <2>3. ring \in Ring /\ ring \in Holder /\ Stage(ring) = 5 /\ ring[2] = pkt[m].flow
    BY <2>2, Holders, Stages
  <2> HIDE DEF ring
  <2>4. OnRoute(ring, pkt[m], rx_port, r2f_port)
    BY <2>1, <2>2, <2>3 DEF OnRoute
  <2>5. Clear(held, pkt, r2fArray, ring)
    BY <1>0, <2>3, NextStageClear
  <2>. QED
    BY <1>0, <2>1, <2>3, <2>4, <2>5, PutFlow
<1>4. CASE Rx2FlowsTx
  <2> DEFINE ring == <<"tx", Bypass>>
  <2>1. /\ held[r2fArray] # << >> /\ (r2f_port # HostPort \/ pkt[m].flow = NoFlow)
        /\ Enqueue(r2fArray, ring) /\ UNCHANGED <<pkt, pool, rx_port, r2f_port, arrived, sent>>
    BY <1>4 DEF Rx2FlowsTx, Scheduled
  <2>2. Bypass \in Port /\ Bypass # r2f_port
    BY PortAssumption, SingleProducerAssumption DEF Bypass
  <2>3. ring \in Ring /\ ring \in Holder /\ Stage(ring) = 1 /\ ring[2] = Bypass
    BY <2>2, Holders, Stages
  <2> HIDE DEF ring
  <2>4. OnRoute(ring, pkt[m], rx_port, r2f_port)
    BY <1>2, <2>1, <2>2, <2>3 DEF OnRoute
  <2>5. Clear(held, pkt, r2fArray, ring)
    <3>1. \A d \in Holder : Stage(d) \in 0 .. 8
      BY StageType
    <3>2. ASSUME NEW i \in DOMAIN held[r2fArray], NEW d \in Holder \ {r2fArray}, NEW j \in DOMAIN held[d],
                 Same(pkt[held[r2fArray][i]], pkt[held[d][j]]), Stage(ring) < Stage(d)
          PROVE  Stage(r2fArray) < Stage(d)
      <4>1. held[r2fArray][i] = m
        <5>1. held[r2fArray] \in Seq(Mbuf)
          BY <1>0 DEF TInv, HeldType
        <5>2. Len(held[r2fArray]) \in Nat /\ i \in 1 .. Len(held[r2fArray]) /\ m = held[r2fArray][1]
          BY <2>1, <3>2, <5>1, Sequences1
        <5>3. i = 1
          BY <1>0, <5>2
        <5>. QED
          BY <5>2, <5>3
      <4>2. OnRoute(d, pkt[held[d][j]], rx_port, r2f_port)
        BY <1>0, <3>2 DEF FlowInv, Routed
      <4>3. pkt[held[d][j]].port = r2f_port /\ pkt[held[d][j]].flow = pkt[m].flow
        BY <1>2, <2>1, <3>2, <4>1 DEF Same
      <4>4. Stage(d) \notin {2, 3, 4, 5}
        BY <2>1, <4>2, <4>3 DEF OnRoute
      <4>5. Stage(d) # 6
        BY <3>2, HolderAt
      <4>6. Stage(d) \in 0 .. 8 /\ Stage(d) > 1
        BY <2>3, <3>1, <3>2
      <4>. QED
        BY <1>0, <4>4, <4>5, <4>6
    <3>3. \A d \in Holder : Stage(d) \in Nat
      BY <3>1
    <3>. QED
      BY <1>0, <2>3, <3>2, <3>3 DEF Clear
  <2>. QED
    BY <1>0, <2>1, <2>3, <2>4, <2>5, PutFlow
<1>5. CASE Rx2FlowsCount
  <2>1. UNCHANGED <<held, pkt, rx_port, arrived, sent>> /\ held[r2fArray] = << >>
    BY <1>5 DEF Rx2FlowsCount, Counting
  <2>. QED
    BY <2>1, StillFlow
<1>. QED
  BY <1>1, <1>3, <1>4, <1>5 DEF R2fStep

LEMMA NodeFlow ==
  ASSUME TInv, Places, PoolFits, FlowInv, NEW n \in Node, NodeStep(n)
  PROVE  FlowInv'
<1> DEFINE array == <<"node array", n>>
<1>0. /\ array \in Array /\ array \in Holder /\ Len(held[array]) <= 1 /\ Stage(array) = 4
  BY Holders, ArraysDiffer, Stages DEF TInv, ArraysOK
<1>1. array[2] = n
  BY Zenon
<1>2. CASE NodeCall(n)
  BY <1>2, StillFlow DEF NodeCall
<1>3. CASE NodeTry(n)
  <2> DEFINE ring == Head(plan[n]).ring
  <2>1. ring \in {"flow"} \X FlowsOf(n) /\ ring \in Ring /\ ring \in Holder
    BY <1>3, PlanHead, Holders DEF NodeTry
  <2>2. held[array] = << >> /\ UNCHANGED <<pkt, rx_port, r2f_port, arrived, sent>>
    BY <1>3 DEF NodeTry
  <2>3. UNCHANGED held \/ Dequeue(ring, array)
    BY <1>3 DEF NodeTry
  <2> HIDE DEF ring, array
  <2>4. ring = <<"flow", ring[2]>> /\ ring[2] \in FlowsOf(n)
    BY <2>1
  <2>5. Stage(ring) = 5
    BY <2>4, Stages
  <2>6. CASE Dequeue(ring, array)
    <3>1. held[ring] # << >>
      BY <2>6 DEF Dequeue
    <3>2. OnRoute(ring, pkt[Head(held[ring])], rx_port, r2f_port)
      BY <2>1, <3>1, HeadRouted
    <3>3. OnRoute(array, pkt[Head(held[ring])], rx_port, r2f_port)
      BY <1>0, <1>1, <2>4, <2>5, <3>2 DEF OnRoute
    <3>. QED
      BY <1>0, <2>1, <2>2, <2>5, <2>6, <3>3, TakeFlow
  <2>7. CASE UNCHANGED held
    BY <2>2, <2>7, StillFlow
  <2>. QED
    BY <2>3, <2>6, <2>7
<1>4. CASE NodePut(n)
  <2> DEFINE ring == <<"node", n>>
  <2>1. ring \in Ring /\ ring \in Holder /\ Stage(ring) = 3 /\ ring[2] = n
    BY Holders, Stages
  <2>2. Enqueue(array, ring) /\ UNCHANGED <<pkt, pool, rx_port, r2f_port, arrived, sent>>
    BY <1>4 DEF NodePut
  <2> HIDE DEF ring, array
  <2>3. OnRoute(array, pkt[Head(held[array])], rx_port, r2f_port)
    BY <1>0, <2>2, HeadRouted DEF Enqueue
  <2>4. OnRoute(ring, pkt[Head(held[array])], rx_port, r2f_port)
    BY <1>0, <1>1, <2>1, <2>3 DEF OnRoute
  <2>5. Clear(held, pkt, array, ring)
    BY <1>0, <2>1, NextStageClear
  <2>. QED
    BY <1>0, <2>1, <2>2, <2>4, <2>5, PutFlow
<1>. QED
  BY <1>2, <1>3, <1>4 DEF NodeStep

LEMMA FwdFlow ==
  ASSUME TInv, Places, PoolFits, FlowInv, FwdStep
  PROVE  FlowInv'
<1>0. /\ fwdArray \in Array /\ fwdArray \in Holder /\ Len(held[fwdArray]) <= 1 /\ Stage(fwdArray) = 2
  BY Holders, ArraysDiffer, Stages DEF TInv, ArraysOK
<1>1. CASE ForwardCall \/ ForwardCount
  BY <1>1, StillFlow DEF ForwardCall, ForwardCount
<1>2. CASE ForwardTry
  <2> DEFINE ring == Head(plan[Forwarding]).ring
  <2>1. ring \in {"node"} \X Node /\ ring \in Ring /\ ring \in Holder
    BY <1>2, PlanHead, Holders DEF ForwardTry
  <2>2. held[fwdArray] = << >> /\ UNCHANGED <<pkt, rx_port, r2f_port, arrived, sent>>
    BY <1>2 DEF ForwardTry
  <2>3. UNCHANGED held \/ Dequeue(ring, fwdArray)
    BY <1>2 DEF ForwardTry
  <2> HIDE DEF ring
  <2>4. ring = <<"node", ring[2]>>
    BY <2>1
  <2>5. Stage(ring) = 3
    BY <2>4, Stages
  <2>6. CASE Dequeue(ring, fwdArray)
    <3>1. held[ring] # << >>
      BY <2>6 DEF Dequeue
    <3>2. OnRoute(ring, pkt[Head(held[ring])], rx_port, r2f_port)
      BY <2>1, <3>1, HeadRouted
    <3>3. OnRoute(fwdArray, pkt[Head(held[ring])], rx_port, r2f_port)
      BY <1>0, <2>5, <3>2 DEF OnRoute
    <3>. QED
      BY <1>0, <2>1, <2>2, <2>5, <2>6, <3>3, TakeFlow
  <2>7. CASE UNCHANGED held
    BY <2>2, <2>7, StillFlow
  <2>. QED
    BY <2>3, <2>6, <2>7
<1>3. CASE ForwardTx
  <2> DEFINE ring == <<"tx", DefaultPort>>
  <2>1. ring \in Ring /\ ring \in Holder /\ Stage(ring) = 1 /\ ring[2] = DefaultPort
    BY Holders, Stages, PortAssumption
  <2>2. Enqueue(fwdArray, ring) /\ UNCHANGED <<pkt, pool, rx_port, r2f_port, arrived, sent>>
    BY <1>3 DEF ForwardTx
  <2> HIDE DEF ring
  <2>3. OnRoute(fwdArray, pkt[Head(held[fwdArray])], rx_port, r2f_port)
    BY <1>0, <2>2, HeadRouted DEF Enqueue
  <2>4. OnRoute(ring, pkt[Head(held[fwdArray])], rx_port, r2f_port)
    BY <1>0, <2>1, <2>3, SingleProducerAssumption DEF OnRoute
  <2>5. Clear(held, pkt, fwdArray, ring)
    BY <1>0, <2>1, NextStageClear
  <2>. QED
    BY <1>0, <2>1, <2>2, <2>4, <2>5, PutFlow
<1>. QED
  BY <1>1, <1>2, <1>3 DEF FwdStep

\* The packet at the end of the route is older than all others of its flow.
LEMMA SendFlow ==
  ASSUME TInv, Places, FlowInv, NEW p \in Port, TxSend(p)
  PROVE  FlowInv'
<1> DEFINE array == txArray(p)
           m == Head(held[array])
           e == [port |-> pkt[m].port, flow |-> pkt[m].flow, no |-> pkt[m].no, out |-> p]
           S == [port : Port, flow : Flow \cup {NoFlow}, no : Nat, out : Port]
<1>0. /\ array \in Array /\ array \in Holder /\ Len(held[array]) <= 1 /\ Stage(array) = 0
      /\ DOMAIN held = Holder /\ array[2] = p
  BY Holders, ArraysDiffer, Stages DEF TInv, ArraysOK, HeldType, txArray
<1>1. /\ sent' = Append(sent, e) 
      /\ pkt' = [pkt EXCEPT ![m] = [Blank EXCEPT !.len = pkt[m].len]] /\ held' = [held EXCEPT ![array] = << >>]
      /\ UNCHANGED <<rx_port, r2f_port, arrived>> /\ held[array] # << >>
  BY DEF TxSend, TInv, ArraysOK
<1>2. m \in Mbuf /\ pkt[m] \in Record /\ OnRoute(array, pkt[m], rx_port, r2f_port)
  BY <1>0, <1>1, HeadRouted
<1>3. m = held[array][1] /\ DOMAIN held[array] = {1}
  <2>1. held[array] \in Seq(Mbuf)
    BY <1>0 DEF TInv, HeldType
  <2>2. Len(held[array]) \in Nat \ {0} /\ DOMAIN held[array] = 1 .. Len(held[array]) /\ m = held[array][1]
    BY <1>1, <2>1, Sequences1
  <2>3. \A k \in Nat \ {0} : k <= 1 => 1 .. k = {1}
    OBVIOUS
  <2>. QED
    BY <1>0, <2>2, <2>3
<1>4. e.port = pkt[m].port /\ e.flow = pkt[m].flow /\ e.no = pkt[m].no /\ e.out = p /\ e \in S
  BY <1>2 DEF Record
<1>5. sent \in Seq(S)
  BY DEF TInv, RestType
<1> HIDE DEF array, m, e, S
<1>6. /\ DOMAIN held' = Holder /\ DOMAIN held'[array] = {}
      /\ \A c \in Holder \ {array} : held'[c] = held[c]
  BY <1>0, <1>1
<1>7. In(held, m)
  BY <1>0, <1>3 DEF In
<1>8. ASSUME NEW c \in Holder, NEW i \in DOMAIN held'[c]
      PROVE  /\ c # array /\ held'[c] = held[c] /\ i \in DOMAIN held[c]
             /\ held[c][i] # m /\ pkt'[held'[c][i]] = pkt[held[c][i]]
             /\ Same(e, pkt[held[c][i]]) => e.no < pkt[held[c][i]].no
  <2>1. c # array /\ held'[c] = held[c] /\ i \in DOMAIN held[c]
    BY <1>6, <1>8
  <2>2. held[c][i] # m
    BY <1>0, <1>3, <2>1 DEF Places, Distinct
  <2>3. held[c][i] \in Mbuf
    <3>1. held[c] \in Seq(Mbuf)
      BY DEF TInv, HeldType
    <3>. QED
      BY <2>1, <3>1
  <2>4. pkt'[held[c][i]] = pkt[held[c][i]]
    BY <1>1, <2>2, <2>3 DEF TInv, RestType
  <2>5. ASSUME Same(e, pkt[held[c][i]]) PROVE e.no < pkt[held[c][i]].no
    <3>1. Same(pkt[m], pkt[held[c][i]])
      BY <1>4, <2>5 DEF Same
    <3>2. OnRoute(c, pkt[held[c][i]], rx_port, r2f_port)
      BY <1>0, <2>1 DEF FlowInv, Routed
    <3>3. pkt[m].port \in Port
      BY <1>2 DEF Record
    <3>4. Stage(c) # Stage(array)
      BY <1>0, <1>2, <2>1, <3>1, <3>2, <3>3, OneHolder
    <3>5. Stage(c) \in 0 .. 8
      BY StageType
    <3>6. Before(array, 1, c, i)
      BY <1>0, <3>4, <3>5 DEF Before
    <3>. QED
      BY <1>0, <1>3, <1>4, <2>1, <3>1, <3>6 DEF FlowInv, Ordered
  <2>. QED
    BY <2>1, <2>2, <2>4, <2>5
<1>9. Ordered(held', pkt')
  BY <1>0, <1>6, <1>8 DEF FlowInv, Ordered
<1>10. Routed(held', pkt', rx_port', r2f_port')
  BY <1>0, <1>1, <1>6, <1>8 DEF FlowInv, Routed
<1>11. /\ DOMAIN sent' = 1 .. Len(sent) + 1 /\ sent'[Len(sent) + 1] = e /\ Len(sent) \in Nat
       /\ DOMAIN sent = 1 .. Len(sent)
       /\ \A x \in 1 .. Len(sent) : sent'[x] = sent[x]
  BY <1>1, <1>5, Sequences1
<1>12. ASSUME NEW x, In(held', x)
       PROVE  In(held, x) /\ pkt'[x] = pkt[x] /\ (Same(e, pkt[x]) => e.no < pkt[x].no)
  <2>1. PICK c \in Holder : \E i \in DOMAIN held'[c] : held'[c][i] = x
    BY <1>6, <1>12 DEF In
  <2>2. PICK i \in DOMAIN held'[c] : held'[c][i] = x
    BY <2>1
  <2>. QED
    BY <1>0, <1>8, <2>2 DEF In
<1> DEFINE N == Len(sent)
<1>13. \A x \in DOMAIN sent' : x \in DOMAIN sent \/ (x = N + 1 /\ sent'[x] = e)
  BY <1>11
<1>14. Numbered(held', pkt', arrived', sent')
  <2>1. ASSUME NEW x, In(held', x) PROVE pkt'[x].no <= arrived'
    BY <1>1, <1>12, <2>1 DEF FlowInv, Numbered
  <2>2. e.no <= arrived
    BY <1>4, <1>7 DEF FlowInv, Numbered
  <2>3. ASSUME NEW x \in DOMAIN sent'
        PROVE  /\ sent'[x].no <= arrived'
               /\ \A y : In(held', y) /\ Same(sent'[x], pkt'[y]) => sent'[x].no < pkt'[y].no
    <3>1. CASE x \in DOMAIN sent
      BY <1>1, <1>11, <1>12, <3>1 DEF FlowInv, Numbered
    <3>2. CASE sent'[x] = e
      BY <1>1, <1>12, <2>2, <3>2
    <3>. QED
      BY <1>13, <2>3, <3>1, <3>2
  <2>. QED
    BY <2>1, <2>3 DEF Numbered
<1>15. FlowOrder'
  <2>1. ASSUME NEW x \in DOMAIN sent', NEW y \in DOMAIN sent', x < y,
               sent'[x].port = sent'[y].port, sent'[x].flow = sent'[y].flow
        PROVE  sent'[x].no < sent'[y].no
    <3>1. x \in DOMAIN sent /\ sent'[x] = sent[x]
      BY <1>11, <2>1
    <3>2. CASE y \in DOMAIN sent
      BY <1>11, <2>1, <3>1, <3>2 DEF FlowInv, FlowOrder
    <3>3. CASE sent'[y] = e
      BY <1>4, <1>7, <2>1, <3>1, <3>3 DEF FlowInv, Numbered, Same
    <3>. QED
      BY <1>13, <2>1, <3>2, <3>3
  <2>2. ASSUME NEW x \in DOMAIN sent' PROVE sent'[x].out # sent'[x].port
    <3>1. CASE x \in DOMAIN sent
      BY <1>11, <3>1 DEF FlowInv, FlowOrder
    <3>2. CASE sent'[x] = e
      BY <1>0, <1>2, <1>4, <3>2 DEF OnRoute
    <3>. QED
      BY <1>13, <2>2, <3>1, <3>2
  <2>. QED
    BY <2>1, <2>2 DEF FlowOrder
<1>. QED
  BY <1>9, <1>10, <1>14, <1>15 DEF FlowInv, Ordered, Routed, OnRoute, Numbered, In, Same, Before, Stage

LEMMA TxFlow ==
  ASSUME TInv, Places, FlowInv, NEW p \in Port, TxStep(p)
  PROVE  FlowInv'
<1>1. CASE TxDequeue(p)
  <2> DEFINE array == txArray(p)
             ring == <<"tx", p>>
  <2>1. /\ array \in Array /\ array \in Holder /\ Stage(array) = 0 /\ array[2] = p
        /\ ring \in Ring /\ ring \in Holder /\ Stage(ring) = 1 /\ ring[2] = p
    BY Holders, Stages DEF txArray
  <2>2. /\ Dequeue(ring, array) /\ held[array] = << >>
        /\ UNCHANGED <<pkt, rx_port, r2f_port, arrived, sent>>
    BY <1>1 DEF TxDequeue, Loops, loopVars
  <2> HIDE DEF array, ring
  <2>3. OnRoute(ring, pkt[Head(held[ring])], rx_port, r2f_port)
    BY <2>1, <2>2, HeadRouted DEF Dequeue
  <2>4. OnRoute(array, pkt[Head(held[ring])], rx_port, r2f_port)
    BY <2>1, <2>3 DEF OnRoute
  <2>. QED
    BY <2>1, <2>2, <2>4, TakeFlow
<1>2. CASE TxCount(p)
  BY <1>2, StillFlow DEF TxCount
<1>3. CASE TxSend(p)
  BY <1>3, SendFlow
<1>. QED
  BY <1>1, <1>2, <1>3 DEF TxStep

LEMMA NextFlow ==
  ASSUME TInv, Places, PoolFits, Balanced, FlowInv, [Next]_vars
  PROVE  FlowInv'
<1>1. CASE RxStep \/ R2fStep \/ FwdStep
  BY <1>1, RxFlow, R2fFlow, FwdFlow DEF Balanced
<1>2. CASE \E n \in Node : NodeStep(n)
  BY <1>2, NodeFlow
<1>3. CASE \E p \in Port : TxStep(p)
  BY <1>3, TxFlow
<1>4. CASE signal_handler \/ UNCHANGED vars
  BY <1>4, StillFlow DEF signal_handler, vars, loopVars
<1>. QED
  BY <1>1, <1>2, <1>3, <1>4 DEF Next

LEMMA InitFlow == Init => FlowInv
<1> SUFFICES ASSUME Init PROVE FlowInv
  OBVIOUS
<1>1. DOMAIN held = Holder /\ \A h \in Holder : DOMAIN held[h] = {}
  BY DEF Init
<1>2. DOMAIN sent = {}
  BY DEF Init
<1>3. Ordered(held, pkt) /\ Routed(held, pkt, rx_port, r2f_port)
  BY <1>1 DEF Ordered, Routed
<1>4. Numbered(held, pkt, arrived, sent)
  BY <1>1, <1>2 DEF Numbered, In
<1>5. FlowOrder
  BY <1>2 DEF FlowOrder
<1>. QED
  BY <1>3, <1>4, <1>5 DEF FlowInv

\* FlowOrder: when the pool has no more buffers than a ring has slots, the
\* packets of a flow leave in the order in which they came, and by the other
\* port, for every number of nodes and flows, every policy and every
\* interleaving of the cores that hand them from ring to ring.
THEOREM FlowsInOrder ==
  ASSUME PoolFits
  PROVE  Spec => []FlowOrder
<1> DEFINE I == TInv /\ Places /\ Balanced /\ FlowInv
<1>1. Init => I
  BY InitTInv, InitPlaces, InitBalanced, InitFlow
<1>2. I /\ [Next]_vars => I'
  BY NextTInv, NextPlaces, NextBalanced, NextFlow
<1>3. I => FlowOrder
  BY DEF FlowInv
<1>. QED
  BY <1>1, <1>2, <1>3, PTL DEF Spec

-----------------------------------------------------------------------------
(* Shares.  A merging core goes through the rings of its group in turn.    *)
(* How often others can still be served before it comes to a ring is a sum *)
(* of budgets, one for each of the others; a ring that was passed over n   *)
(* times has used up n of the sum of their weights.                        *)

\* n and the sum of u over Q do not exceed the sum of w.
Fits(Q, u, w, n) == \E f, g : SumDef(Q, u, f) /\ SumDef(Q, w, g) /\ n + f[Q] <= g[Q]

LEMMA FitsZero ==
  ASSUME NEW Q, IsFiniteSet(Q), NEW u, NEW w,
         \A x \in Q : u[x] \in Nat /\ w[x] \in Nat /\ u[x] <= w[x]
  PROVE  Fits(Q, u, w, 0)
<1>1. PICK f : SumDef(Q, u, f)
  BY SumExists
<1>2. PICK g : SumDef(Q, w, g)
  BY SumExists
<1>3. f[Q] \in Nat /\ g[Q] \in Nat /\ f[Q] <= g[Q]
  BY <1>1, <1>2, SumBelow
<1>4. 0 + f[Q] <= g[Q]
  BY <1>3
<1>. QED
  BY <1>1, <1>2, <1>4 DEF Fits

LEMMA FitsLess ==
  ASSUME NEW Q, IsFiniteSet(Q), NEW u, NEW v, NEW w, NEW n \in Nat, NEW m \in Nat, m <= n,
         Fits(Q, u, w, n),
         \A x \in Q : u[x] \in Nat /\ v[x] \in Nat /\ v[x] <= u[x],
         \A x \in Q : w[x] \in Nat
  PROVE  Fits(Q, v, w, m) /\ ((\E x \in Q : v[x] < u[x]) => Fits(Q, v, w, m + 1))
<1>1. PICK f, g : SumDef(Q, u, f) /\ SumDef(Q, w, g) /\ n + f[Q] <= g[Q]
  BY DEF Fits
<1>2. PICK h : SumDef(Q, v, h)
  BY SumExists
<1>3. h[Q] \in Nat /\ f[Q] \in Nat /\ h[Q] <= f[Q] /\ ((\E x \in Q : v[x] < u[x]) => h[Q] < f[Q])
  BY <1>1, <1>2, SumBelow
<1>4. g[Q] \in Nat
  BY <1>1, SumNat
<1>5. m + h[Q] <= g[Q]
  BY <1>1, <1>3, <1>4
<1>6. ASSUME \E x \in Q : v[x] < u[x] PROVE (m + 1) + h[Q] <= g[Q]
  BY <1>1, <1>3, <1>4, <1>6
<1>. QED
  BY <1>1, <1>2, <1>5, <1>6 DEF Fits

LEMMA FitsBound ==
  ASSUME NEW Q, IsFiniteSet(Q), NEW u, NEW w, NEW n \in Nat, Fits(Q, u, w, n),
         \A x \in Q : u[x] \in Nat, \A x \in Q : w[x] \in Nat
  PROVE  n <= (CHOOSE g : SumDef(Q, w, g))[Q]
<1>1. PICK f, g : SumDef(Q, u, f) /\ SumDef(Q, w, g) /\ n + f[Q] <= g[Q]
  BY DEF Fits
<1> DEFINE h == CHOOSE e : SumDef(Q, w, e)
<1>2. SumDef(Q, w, h)
  BY <1>1
<1> HIDE DEF h
<1>3. Q \in SUBSET Q /\ g[Q] = h[Q]
  BY <1>1, <1>2, SumAgree
<1>4. f[Q] \in Nat /\ g[Q] \in Nat
  <2>1. f[Q] \in Nat
    BY <1>1, SumNat
  <2>2. g[Q] \in Nat
    BY <1>1, SumNat
  <2>. QED
    BY <2>1, <2>2
<1>5. n <= h[Q]
  BY <1>1, <1>3, <1>4
<1>. QED
  BY <1>5 DEF h

-----------------------------------------------------------------------------
\* The core is at the ring of number q, which it may serve t times more: how
\* often a ring can be served in this round, ...
Rest(q, t, s) == IF s[2] < q THEN 0 ELSE IF s[2] = q THEN t ELSE WFQ_weight[s]

\* ... and how often before the ring of number k has its turn.
Budget(Q, q, t, k) ==
  [s \in Q |-> IF k >= q THEN IF s[2] < k THEN Rest(q, t, s) ELSE 0
               ELSE IF s[2] < k THEN WFQ_weight[s] ELSE Rest(q, t, s)]

Rings(K, lo, hi) == {K} \X (lo .. hi - 1)
Others(K, lo, hi, k) == Rings(K, lo, hi) \ {<<K, k>>}

\* A group of rings with positive weights, of which q is the next, or hi: none.
Round(K, lo, hi, q, t) ==
  /\ lo \in Nat /\ hi \in Nat /\ lo < hi /\ q \in lo .. hi /\ t \in Nat
  /\ \A s \in Rings(K, lo, hi) : WFQ_weight[s] \in Nat \ {0}
  /\ q < hi => t <= WFQ_weight[<<K, q>>]

LEMMA OthersAre ==
  ASSUME NEW K, NEW lo \in Nat, NEW hi \in Nat, NEW k \in lo .. hi - 1
  PROVE  /\ IsFiniteSet(Others(K, lo, hi, k))
         /\ \A s \in Others(K, lo, hi, k) :
              s = <<K, s[2]>> /\ s[2] \in lo .. hi - 1 /\ s[2] # k /\ s \in Rings(K, lo, hi)
         /\ \A j \in lo .. hi - 1 : j # k => <<K, j>> \in Others(K, lo, hi, k)
<1>1. IsFiniteSet(lo .. hi - 1) /\ IsFiniteSet({K})
  <2>1. lo \in Int /\ hi - 1 \in Int
    OBVIOUS
  <2>2. IsFiniteSet(lo .. hi - 1)
    BY <2>1, FS_Interval
  <2>. QED
    BY <2>2, FS_Singleton
<1>2. IsFiniteSet(Rings(K, lo, hi))
  BY <1>1, FS_Product DEF Rings
<1>3. IsFiniteSet(Others(K, lo, hi, k))
  BY <1>2, FS_Subset DEF Others
<1>4. \A s \in Others(K, lo, hi, k) :
         s = <<K, s[2]>> /\ s[2] \in lo .. hi - 1 /\ s[2] # k /\ s \in Rings(K, lo, hi)
  BY DEF Others, Rings
<1>5. \A j \in lo .. hi - 1 : j # k => <<K, j>> \in Others(K, lo, hi, k)
  BY DEF Others, Rings
<1>. QED
  BY <1>3, <1>4, <1>5

\* A budget is a number of packets, and never more than the weight.
LEMMA BudgetType ==
  ASSUME NEW K, NEW lo, NEW hi, NEW q, NEW t, Round(K, lo, hi, q, t), NEW k \in lo .. hi - 1,
         NEW s \in Others(K, lo, hi, k)
  PROVE  /\ Budget(Others(K, lo, hi, k), q, t, k)[s] \in Nat
         /\ WFQ_weight[s] \in Nat
         /\ Budget(Others(K, lo, hi, k), q, t, k)[s] <= WFQ_weight[s]
<1>1. /\ lo \in Nat /\ hi \in Nat /\ q \in Nat /\ k \in Nat /\ q <= hi /\ t \in Nat
      /\ q < hi => t <= WFQ_weight[<<K, q>>]
  BY DEF Round
<1>2. s = <<K, s[2]>> /\ s[2] \in Nat /\ s[2] < hi /\ s \in Rings(K, lo, hi)
  BY <1>1, OthersAre
<1>3. WFQ_weight[s] \in Nat
  BY <1>2 DEF Round
<1>4. Rest(q, t, s) \in Nat /\ Rest(q, t, s) <= WFQ_weight[s]
  <2>1. CASE s[2] < q
    BY <1>3, <2>1 DEF Rest
  <2>2. CASE s[2] = q
    BY <1>1, <1>2, <1>3, <2>2 DEF Rest
  <2>3. CASE s[2] > q
    BY <1>1, <1>2, <1>3, <2>3 DEF Rest
  <2>. QED
    BY <1>1, <1>2, <2>1, <2>2, <2>3
<1>. QED
  BY <1>3, <1>4 DEF Budget

\* The ring of number k was passed over n times.
Within(K, lo, hi, q, t, k, n) ==
  Fits(Others(K, lo, hi, k), Budget(Others(K, lo, hi, k), q, t, k), WFQ_weight, n)

LEMMA WithinZero ==
  ASSUME NEW K, NEW lo, NEW hi, NEW q, NEW t, Round(K, lo, hi, q, t), NEW k \in lo .. hi - 1
  PROVE  Within(K, lo, hi, q, t, k, 0)
<1> DEFINE Q == Others(K, lo, hi, k)
           u == Budget(Q, q, t, k)
<1>1. \A x \in Q : u[x] \in Nat /\ WFQ_weight[x] \in Nat /\ u[x] <= WFQ_weight[x]
  BY BudgetType
<1>2. IsFiniteSet(Q)
  BY OthersAre DEF Round
<1> HIDE DEF u, Q
<1>3. Fits(Q, u, WFQ_weight, 0)
  BY <1>1, <1>2, FitsZero
<1>. QED
  BY <1>3 DEF Within, u, Q

\* The core goes on, from (q, t) to (r, v), and no budget grows.
LEMMA WithinOn ==
  ASSUME NEW K, NEW lo, NEW hi, NEW q, NEW t, Round(K, lo, hi, q, t),
         NEW r, NEW v, Round(K, lo, hi, r, v), NEW k \in lo .. hi - 1, NEW n \in Nat,
         Within(K, lo, hi, q, t, k, n),
         \A s \in Others(K, lo, hi, k) :
           Budget(Others(K, lo, hi, k), r, v, k)[s] <= Budget(Others(K, lo, hi, k), q, t, k)[s]
  PROVE  /\ Within(K, lo, hi, r, v, k, n)
         /\ (\E s \in Others(K, lo, hi, k) :
               Budget(Others(K, lo, hi, k), r, v, k)[s] < Budget(Others(K, lo, hi, k), q, t, k)[s])
              => Within(K, lo, hi, r, v, k, n + 1)
<1> DEFINE Q == Others(K, lo, hi, k)
           u == Budget(Q, q, t, k)
           w == Budget(Q, r, v, k)
<1>1. \A x \in Q : u[x] \in Nat /\ w[x] \in Nat /\ w[x] <= u[x]
  BY BudgetType
<1>2. \A x \in Q : WFQ_weight[x] \in Nat
  BY BudgetType
<1>3. IsFiniteSet(Q)
  BY OthersAre DEF Round
<1>4. Fits(Q, u, WFQ_weight, n) /\ n <= n
  BY DEF Within
<1> HIDE DEF u, w, Q
<1>5. /\ Fits(Q, w, WFQ_weight, n)
      /\ (\E x \in Q : w[x] < u[x]) => Fits(Q, w, WFQ_weight, n + 1)
  BY <1>1, <1>2, <1>3, <1>4, FitsLess
<1>. QED
  BY <1>5 DEF Within, u, w, Q

\* What a budget is, case by case.
LEMMA BudgetValue ==
  ASSUME NEW Q, NEW q, NEW t, NEW k, NEW s \in Q
  PROVE  Budget(Q, q, t, k)[s] = IF k >= q THEN IF s[2] < k THEN Rest(q, t, s) ELSE 0
                                 ELSE IF s[2] < k THEN WFQ_weight[s] ELSE Rest(q, t, s)
  BY DEF Budget

\* A new round: the budgets are those of the end of the round before.
LEMMA RoundBegins ==
  ASSUME NEW K, NEW lo, NEW hi, NEW t, NEW v, Round(K, lo, hi, hi, t), Round(K, lo, hi, lo, v),
         v = WFQ_weight[<<K, lo>>],
         NEW k \in lo .. hi - 1, NEW n \in Nat, Within(K, lo, hi, hi, t, k, n)
  PROVE  Within(K, lo, hi, lo, v, k, n)
<1> DEFINE Q == Others(K, lo, hi, k)
<1>1. ASSUME NEW s \in Q PROVE Budget(Q, lo, v, k)[s] = Budget(Q, hi, t, k)[s]
  <2>1. /\ s = <<K, s[2]>> /\ s[2] \in lo .. hi - 1 /\ s[2] # k
        /\ lo \in Nat /\ hi \in Nat
    <3>1. lo \in Nat /\ hi \in Nat
      BY DEF Round
    <3>2. s = <<K, s[2]>> /\ s[2] \in lo .. hi - 1 /\ s[2] # k
      BY <1>1, <3>1, OthersAre
    <3>. QED
      BY <3>1, <3>2
  <2> HIDE DEF Q
  <2>2. Rest(hi, t, s) = 0 /\ Rest(lo, v, s) = WFQ_weight[s]
    BY <2>1 DEF Rest
  <2>3. k >= lo /\ ~(k >= hi)
    BY <2>1
  <2>. QED
    BY <1>1, <2>2, <2>3, BudgetValue
<1>2. \A s \in Q : Budget(Q, lo, v, k)[s] <= Budget(Q, hi, t, k)[s]
  <2>1. \A s \in Q : Budget(Q, lo, v, k)[s] \in Nat
    BY BudgetType
  <2>. QED
    BY <1>1, <2>1
<1>. QED
  BY <1>2, WithinOn

\* The core is done with the ring of number q.
LEMMA RingDone ==
  ASSUME NEW K, NEW lo, NEW hi, NEW q, NEW t, NEW v, Round(K, lo, hi, q, t), Round(K, lo, hi, q + 1, v),
         q + 1 < hi => v = WFQ_weight[<<K, q + 1>>],
         NEW k \in lo .. hi - 1, k # q, NEW n \in Nat, Within(K, lo, hi, q, t, k, n)
  PROVE  Within(K, lo, hi, q + 1, v, k, n)
<1> DEFINE Q == Others(K, lo, hi, k)
<1>1. ASSUME NEW s \in Q PROVE Budget(Q, q + 1, v, k)[s] <= Budget(Q, q, t, k)[s]
  <2>1. /\ s = <<K, s[2]>> /\ s[2] \in lo .. hi - 1 /\ s[2] # k
        /\ lo \in Nat /\ hi \in Nat /\ q \in Nat /\ t \in Nat /\ q + 1 <= hi
    <3>1. lo \in Nat /\ hi \in Nat /\ q \in lo .. hi /\ q + 1 \in lo .. hi /\ t \in Nat
      BY DEF Round
    <3>2. s = <<K, s[2]>> /\ s[2] \in lo .. hi - 1 /\ s[2] # k
      BY <1>1, <3>1, OthersAre
    <3>. QED
      BY <3>1, <3>2
  <2>2. WFQ_weight[s] \in Nat
    BY <1>1, BudgetType
  <2> HIDE DEF Q
  <2>3. Rest(q + 1, v, s) \in Nat /\ Rest(q, t, s) \in Nat /\ Rest(q + 1, v, s) <= Rest(q, t, s)
    <3>1. CASE s[2] <= q
      <4>1. Rest(q + 1, v, s) = 0 /\ Rest(q, t, s) \in Nat
        BY <2>1, <3>1 DEF Rest
      <4>. QED
        BY <4>1
    <3>2. CASE s[2] = q + 1
      <4>1. Rest(q + 1, v, s) = WFQ_weight[s] /\ Rest(q, t, s) = WFQ_weight[s]
        BY <2>1, <3>2 DEF Rest
      <4>. QED
        BY <2>2, <4>1
    <3>3. CASE s[2] > q + 1
      <4>1. Rest(q + 1, v, s) = WFQ_weight[s] /\ Rest(q, t, s) = WFQ_weight[s]
        BY <2>1, <3>3 DEF Rest
      <4>. QED
        BY <2>2, <4>1
    <3>. QED
      BY <2>1, <3>1, <3>2, <3>3
  <2>4. k >= q + 1 <=> k >= q
    BY <2>1
  <2> DEFINE a == Rest(q + 1, v, s)
             b == Rest(q, t, s)
  <2>5. /\ Budget(Q, q + 1, v, k)[s] = IF k >= q THEN IF s[2] < k THEN a ELSE 0
                                        ELSE IF s[2] < k THEN WFQ_weight[s] ELSE a
        /\ Budget(Q, q, t, k)[s] = IF k >= q THEN IF s[2] < k THEN b ELSE 0
                                    ELSE IF s[2] < k THEN WFQ_weight[s] ELSE b
    BY <1>1, <2>4, BudgetValue
  <2>6. a \in Nat /\ b \in Nat /\ a <= b
    BY <2>3
  <2> HIDE DEF a, b
  <2>. QED
    BY <2>2, <2>5, <2>6
<1>2. \A s \in Q : Budget(Q, q + 1, v, k)[s] <= Budget(Q, q, t, k)[s]
  BY <1>1
<1>. QED
  BY <1>2, WithinOn

\* The ring of number q is served: one more for all the others.
LEMMA RingServed ==
  ASSUME NEW K, NEW lo, NEW hi, NEW q, NEW t, q < hi, t # 0,
         Round(K, lo, hi, q, t), Round(K, lo, hi, q, t - 1),
         NEW k \in lo .. hi - 1, k # q, NEW n \in Nat, Within(K, lo, hi, q, t, k, n)
  PROVE  Within(K, lo, hi, q, t - 1, k, n) /\ Within(K, lo, hi, q, t - 1, k, n + 1)
<1> DEFINE Q == Others(K, lo, hi, k)
           x == <<K, q>>
<1>1. lo \in Nat /\ hi \in Nat /\ q \in lo .. hi - 1 /\ t \in Nat
  BY DEF Round
<1>2. x \in Q /\ x[2] = q
  BY <1>1, OthersAre
<1>3. ASSUME NEW s \in Q PROVE Budget(Q, q, t - 1, k)[s] <= Budget(Q, q, t, k)[s]
  <2>1. /\ Budget(Q, q, t, k)[s] \in Nat /\ Budget(Q, q, t - 1, k)[s] \in Nat /\ s[2] \in Nat
    BY <1>1, <1>3, BudgetType, OthersAre
  <2> HIDE DEF Q, x
  <2>2. CASE s[2] = q
    <3>1. Rest(q, t - 1, s) = t - 1 /\ Rest(q, t, s) = t
      BY <1>1, <2>2 DEF Rest
    <3>2. \A a : Budget(Q, q, a, k)[s] = IF k >= q THEN IF s[2] < k THEN Rest(q, a, s) ELSE 0
                                          ELSE IF s[2] < k THEN WFQ_weight[s] ELSE Rest(q, a, s)
      BY <1>3, BudgetValue
    <3>3. ~(k < q /\ s[2] < k)
      BY <1>1, <2>2
    <3>4. k >= q \/ k < q
      BY <1>1
    <3>. QED
      BY <1>1, <2>1, <3>1, <3>2, <3>3, <3>4
  <2>3. CASE s[2] # q
    <3>1. Rest(q, t - 1, s) = Rest(q, t, s)
      BY <1>1, <2>1, <2>3 DEF Rest
    <3>2. Budget(Q, q, t - 1, k)[s] = Budget(Q, q, t, k)[s]
      BY <1>3, <3>1, BudgetValue
    <3>. QED
      BY <2>1, <3>2
  <2>. QED
    BY <2>2, <2>3
<1>4. Budget(Q, q, t - 1, k)[x] < Budget(Q, q, t, k)[x]
  <2> HIDE DEF Q, x
  <2>1. Rest(q, t - 1, x) = t - 1 /\ Rest(q, t, x) = t
    BY <1>1, <1>2 DEF Rest
  <2>2. (k >= q /\ x[2] < k) \/ (~(k >= q) /\ ~(x[2] < k))
    BY <1>1, <1>2
  <2>3. Budget(Q, q, t - 1, k)[x] = t - 1 /\ Budget(Q, q, t, k)[x] = t
    BY <1>2, <2>1, <2>2, BudgetValue
  <2>. QED
    BY <1>1, <2>3
<1>5. (\A s \in Q : Budget(Q, q, t - 1, k)[s] <= Budget(Q, q, t, k)[s])
        /\ \E s \in Q : Budget(Q, q, t - 1, k)[s] < Budget(Q, q, t, k)[s]
  BY <1>2, <1>3, <1>4
<1>. QED
  BY <1>5, WithinOn

-----------------------------------------------------------------------------
(* A core that merges by WFQ: the plan is the rest of a round.             *)
Weighted(K, lo, hi) ==
  /\ lo \in Nat /\ hi \in Nat /\ lo < hi
  /\ \A s \in Rings(K, lo, hi) : WFQ_weight[s] \in Nat \ {0}

WfqPlan(K, lo, hi, pl) ==
  /\ \E S : pl \in Seq(S)
  /\ Len(pl) <= hi - lo
  /\ \A j \in 1 .. Len(pl) :
       /\ pl[j].ring = <<K, (hi - Len(pl)) + j - 1>>
       /\ pl[j].times \in 1 .. WFQ_weight[pl[j].ring]
       /\ j > 1 => pl[j].times = WFQ_weight[pl[j].ring]

Left(pl, b) == IF pl = << >> THEN 0 ELSE IF b THEN pl[1].times - 1 ELSE pl[1].times

\* What a ring was passed over and what is to come fit the weights; a ring that
\* was passed over is filled, and the one whose packet is in the array is served.
Owed(K, lo, hi, pl, b, pa, hd) ==
  \A k \in lo .. hi - 1 :
    /\ pa[<<K, k>>] \in Nat
    /\ pa[<<K, k>>] # 0 => hd[<<K, k>>] # << >>
    /\ Within(K, lo, hi, hi - Len(pl), Left(pl, b), k, pa[<<K, k>>])

WfqInv(K, lo, hi, pl, b, pa, hd) ==
  /\ WfqPlan(K, lo, hi, pl)
  /\ b => pl # << >> /\ pa[<<K, hi - Len(pl)>>] = 0
  /\ Owed(K, lo, hi, pl, b, pa, hd)

LEMMA WfqRound ==
  ASSUME NEW K, NEW lo, NEW hi, Weighted(K, lo, hi), NEW pl, WfqPlan(K, lo, hi, pl), NEW b
  PROVE  /\ Round(K, lo, hi, hi - Len(pl), Left(pl, b))
         /\ Len(pl) \in Nat /\ lo \in Nat /\ hi \in Nat /\ hi - Len(pl) \in lo .. hi
         /\ pl # << >> => /\ Len(pl) >= 1 /\ pl[1].ring = <<K, hi - Len(pl)>>
                          /\ hi - Len(pl) < hi /\ hi - Len(pl) \in lo .. hi - 1
                          /\ pl[1].times \in Nat \ {0}
                          /\ pl[1].times <= WFQ_weight[<<K, hi - Len(pl)>>]
<1>1. lo \in Nat /\ hi \in Nat /\ lo < hi
  BY DEF Weighted
<1>2. PICK S : pl \in Seq(S)
  BY DEF WfqPlan
<1>3. Len(pl) \in Nat /\ Len(pl) <= hi - lo /\ (pl # << >> => Len(pl) >= 1) /\ (pl = << >> => Len(pl) = 0)
  BY <1>2 DEF WfqPlan
<1>4. hi - Len(pl) \in lo .. hi
  BY <1>1, <1>3
<1>5. ASSUME pl # << >>
      PROVE  /\ Len(pl) >= 1 /\ pl[1].ring = <<K, hi - Len(pl)>>
             /\ hi - Len(pl) < hi /\ hi - Len(pl) \in lo .. hi - 1
             /\ pl[1].times \in Nat \ {0}
             /\ pl[1].times <= WFQ_weight[<<K, hi - Len(pl)>>]
  <2>1. 1 \in 1 .. Len(pl) /\ (hi - Len(pl)) + 1 - 1 = hi - Len(pl)
    BY <1>1, <1>3, <1>5
  <2>2. pl[1].ring = <<K, (hi - Len(pl)) + 1 - 1>> /\ pl[1].times \in 1 .. WFQ_weight[pl[1].ring]
    BY <2>1 DEF WfqPlan
  <2>3. pl[1].ring = <<K, hi - Len(pl)>>
    BY <2>1, <2>2
  <2>4. hi - Len(pl) \in lo .. hi - 1
    BY <1>1, <1>3, <1>5
  <2>5. pl[1].ring \in Rings(K, lo, hi)
    BY <2>3, <2>4 DEF Rings
  <2>6. WFQ_weight[pl[1].ring] \in Nat
    BY <2>5 DEF Weighted
  <2>7. pl[1].times \in Nat \ {0} /\ pl[1].times <= WFQ_weight[pl[1].ring]
    BY <2>2, <2>6
  <2>. QED
    BY <1>1, <1>3, <1>5, <2>3, <2>4, <2>7
<1>6. Left(pl, b) \in Nat /\ (hi - Len(pl) < hi => Left(pl, b) <= WFQ_weight[<<K, hi - Len(pl)>>])
  <2>1. CASE pl = << >>
    <3>1. Left(pl, b) = 0 /\ ~(hi - Len(pl) < hi)
      BY <1>1, <1>3, <2>1 DEF Left
    <3>. QED
      BY <3>1
  <2>2. CASE pl # << >>
    <3> DEFINE t == pl[1].times
               w == WFQ_weight[<<K, hi - Len(pl)>>]
    <3>1. t \in Nat \ {0} /\ t <= w
      BY <1>5, <2>2
    <3>2. w \in Nat
      BY <1>5, <2>2 DEF Weighted, Rings
    <3>3. Left(pl, b) = t \/ Left(pl, b) = t - 1
      BY <2>2 DEF Left
    <3> HIDE DEF t, w
    <3>4. Left(pl, b) \in Nat /\ Left(pl, b) <= w
      BY <3>1, <3>2, <3>3
    <3>. QED
      BY <3>4 DEF w
  <2>. QED
    BY <2>1, <2>2
<1>. QED
  BY <1>1, <1>3, <1>4, <1>5, <1>6 DEF Round, Weighted

\* One packet more or less in the rings of the group, or none.
LEMMA WfqStays ==
  ASSUME NEW K, NEW lo, NEW hi, Weighted(K, lo, hi), NEW pl, NEW b, NEW pa, NEW hd, NEW na, NEW ha,
         WfqInv(K, lo, hi, pl, b, pa, hd),
         \A k \in lo .. hi - 1 : na[<<K, k>>] = pa[<<K, k>>],
         \A k \in lo .. hi - 1 : hd[<<K, k>>] # << >> => ha[<<K, k>>] # << >>
  PROVE  WfqInv(K, lo, hi, pl, b, na, ha)
<1> DEFINE q == hi - Len(pl)
           t == Left(pl, b)
<1>1. pl # << >> => q \in lo .. hi - 1
  BY WfqRound DEF WfqInv
<1>2. ASSUME b PROVE pl # << >> /\ na[<<K, q>>] = 0
  <2>1. pl # << >> /\ pa[<<K, q>>] = 0
    BY <1>2 DEF WfqInv
  <2> HIDE DEF q
  <2>. QED
    BY <1>1, <2>1
<1>3. ASSUME NEW k \in lo .. hi - 1
      PROVE  na[<<K, k>>] \in Nat /\ (na[<<K, k>>] # 0 => ha[<<K, k>>] # << >>)
             /\ Within(K, lo, hi, q, t, k, na[<<K, k>>])
  <2>1. /\ pa[<<K, k>>] \in Nat /\ (pa[<<K, k>>] # 0 => hd[<<K, k>>] # << >>)
        /\ Within(K, lo, hi, q, t, k, pa[<<K, k>>])
    BY DEF WfqInv, Owed
  <2> HIDE DEF q, t
  <2>2. na[<<K, k>>] = pa[<<K, k>>]
    OBVIOUS
  <2>. QED
    BY <2>1, <2>2
<1>4. Owed(K, lo, hi, pl, b, na, ha)
  BY <1>3 DEF Owed
<1>. QED
  BY <1>2, <1>4 DEF WfqInv

LEMMA WfqCall ==
  ASSUME NEW K, NEW lo, NEW hi, Weighted(K, lo, hi), NEW pl, NEW pn, NEW pa, NEW hd,
         WfqInv(K, lo, hi, pl, FALSE, pa, hd), pl = << >>,
         pn = [i \in 1 .. hi - lo |-> Try(<<K, lo + i - 1>>, WFQ_weight[<<K, lo + i - 1>>])]
  PROVE  WfqInv(K, lo, hi, pn, FALSE, pa, hd)
<1>1. lo \in Nat /\ hi \in Nat /\ lo < hi /\ hi - lo \in Nat
  BY DEF Weighted
<1>2. /\ DOMAIN pn = 1 .. hi - lo
      /\ \A j \in 1 .. hi - lo : /\ pn[j].ring = <<K, lo + j - 1>>
                                 /\ pn[j].times = WFQ_weight[<<K, lo + j - 1>>]
  BY DEF Try
<1>3. \E S : pn \in Seq(S)
  <2> DEFINE S == {pn[i] : i \in 1 .. hi - lo}
  <2>1. pn \in [1 .. hi - lo -> S]
    BY <1>2
  <2>2. pn \in Seq(S)
    BY <1>1, <2>1, FunctionsAreSequences
  <2>. QED
    BY <2>2
<1>4. Len(pn) = hi - lo
  BY <1>1, <1>2, <1>3, LenProperties
<1>5. hi - (hi - lo) = lo
  BY <1>1
<1>6. WfqPlan(K, lo, hi, pn)
  <2>1. ASSUME NEW j \in 1 .. hi - lo PROVE pn[j].times \in 1 .. WFQ_weight[pn[j].ring]
    <3>1. lo + j - 1 \in lo .. hi - 1
      BY <1>1
    <3>2. pn[j].ring \in Rings(K, lo, hi)
      BY <1>2, <3>1 DEF Rings
    <3>3. WFQ_weight[pn[j].ring] \in Nat \ {0}
      BY <3>2 DEF Weighted
    <3>4. pn[j].times = WFQ_weight[pn[j].ring]
      BY <1>2
    <3>5. \A x \in Nat \ {0} : x \in 1 .. x
      OBVIOUS
    <3>. QED
      BY <3>3, <3>4, <3>5
  <2>2. Len(pn) <= hi - lo
    BY <1>1, <1>4
  <2>3. \A j \in 1 .. hi - lo : pn[j].ring = <<K, (hi - (hi - lo)) + j - 1>>
    BY <1>2, <1>5
  <2>. QED
    BY <1>2, <1>3, <1>4, <2>1, <2>2, <2>3 DEF WfqPlan
<1>7. hi - Len(pl) = hi /\ hi - Len(pn) = lo /\ Left(pl, FALSE) = 0
  BY <1>1, <1>4 DEF Left
<1>8. pn # << >> /\ Left(pn, FALSE) = WFQ_weight[<<K, lo>>]
  <2>1. 1 \in 1 .. hi - lo /\ lo + 1 - 1 = lo
    BY <1>1
  <2>2. pn # << >>
    BY <1>2, <2>1
  <2>. QED
    BY <1>2, <2>1, <2>2 DEF Left
<1>9. Round(K, lo, hi, hi, 0) /\ Round(K, lo, hi, lo, WFQ_weight[<<K, lo>>])
  <2>1. Round(K, lo, hi, hi - Len(pl), Left(pl, FALSE))
    BY WfqRound DEF WfqInv
  <2>2. Round(K, lo, hi, hi - Len(pn), Left(pn, FALSE))
    BY <1>6, WfqRound
  <2>. QED
    BY <1>7, <1>8, <2>1, <2>2
<1>10. Owed(K, lo, hi, pn, FALSE, pa, hd)
  <2> SUFFICES ASSUME NEW k \in lo .. hi - 1
               PROVE  /\ pa[<<K, k>>] \in Nat
                      /\ pa[<<K, k>>] # 0 => hd[<<K, k>>] # << >>
                      /\ Within(K, lo, hi, lo, WFQ_weight[<<K, lo>>], k, pa[<<K, k>>])
    BY <1>7, <1>8 DEF Owed
  <2> DEFINE n == pa[<<K, k>>]
             v == WFQ_weight[<<K, lo>>]
  <2>1. n \in Nat /\ (n # 0 => hd[<<K, k>>] # << >>) /\ Within(K, lo, hi, hi, 0, k, n)
    BY <1>7 DEF WfqInv, Owed
  <2>2. Round(K, lo, hi, lo, v) /\ v = WFQ_weight[<<K, lo>>]
    BY <1>9
  <2> HIDE DEF n, v
  <2>3. Within(K, lo, hi, lo, v, k, n)
    BY <1>9, <2>1, <2>2, RoundBegins
  <2>. QED
    BY <2>1, <2>3 DEF n, v
<1>. QED
  BY <1>6, <1>10 DEF WfqInv

\* What is left of a round after its first ring.
Onward(K, lo, hi, pn, q) ==
  /\ WfqPlan(K, lo, hi, pn)
  /\ hi - Len(pn) = q + 1
  /\ q + 1 < hi => Left(pn, FALSE) = WFQ_weight[<<K, q + 1>>]

LEMMA WfqTail ==
  ASSUME NEW K, NEW lo, NEW hi, Weighted(K, lo, hi), NEW pl, WfqPlan(K, lo, hi, pl), pl # << >>,
         NEW pn, pn = Tail(pl), NEW q, q = hi - Len(pl)
  PROVE  Onward(K, lo, hi, pn, q)
<1>1. PICK S : pl \in Seq(S)
  BY DEF WfqPlan
<1>2. lo \in Nat /\ hi \in Nat /\ Len(pl) \in Nat /\ Len(pl) >= 1 /\ q \in lo .. hi
  BY WfqRound
<1>3. pn \in Seq(S) /\ Len(pn) = Len(pl) - 1 /\ \A j \in 1 .. Len(pl) - 1 : pn[j] = pl[j + 1]
  BY <1>1, HeadTailProperties
<1>4. hi - Len(pn) = q + 1
  BY <1>2, <1>3
<1>5. ASSUME NEW j \in 1 .. Len(pl) - 1
      PROVE  /\ pn[j].ring = <<K, (q + 1) + j - 1>>
             /\ pn[j].times \in 1 .. WFQ_weight[pn[j].ring]
             /\ pn[j].times = WFQ_weight[pn[j].ring]
  <2>1. j + 1 \in 1 .. Len(pl) /\ j + 1 > 1 /\ q + (j + 1) - 1 = (q + 1) + j - 1
    BY <1>2
  <2>2. /\ pl[j + 1].ring = <<K, q + (j + 1) - 1>>
        /\ pl[j + 1].times \in 1 .. WFQ_weight[pl[j + 1].ring]
        /\ pl[j + 1].times = WFQ_weight[pl[j + 1].ring]
    BY <2>1 DEF WfqPlan
  <2>. QED
    BY <1>3, <2>1, <2>2
<1>6. WfqPlan(K, lo, hi, pn)
  <2>1. Len(pn) <= hi - lo
    BY <1>2, <1>3 DEF WfqPlan
  <2>. QED
    BY <1>3, <1>4, <1>5, <2>1 DEF WfqPlan
<1>7. ASSUME q + 1 < hi PROVE Left(pn, FALSE) = WFQ_weight[<<K, q + 1>>]
  <2>1. 1 \in 1 .. Len(pl) - 1 /\ (q + 1) + 1 - 1 = q + 1
    BY <1>2, <1>7
  <2>2. pn # << >>
    <3>1. Len(pn) # 0
      BY <1>2, <1>3, <2>1
    <3>2. Len(<< >>) = 0
      OBVIOUS
    <3>. QED
      BY <3>1, <3>2
  <2>3. pn[1].times = WFQ_weight[<<K, q + 1>>]
    BY <1>5, <2>1
  <2>. QED
    BY <2>2, <2>3 DEF Left
<1>. QED
  BY <1>4, <1>6, <1>7 DEF Onward

\* The core is done with the first ring, which was passed over no more.
LEMMA WfqNext ==
  ASSUME NEW K, NEW lo, NEW hi, Weighted(K, lo, hi), NEW pl, NEW b, NEW pa, NEW hd,
         WfqInv(K, lo, hi, pl, b, pa, hd), pl # << >>, pa[<<K, hi - Len(pl)>>] = 0,
         NEW pn, pn = Tail(pl)
  PROVE  WfqInv(K, lo, hi, pn, FALSE, pa, hd)
<1> DEFINE q == hi - Len(pl)
           t == Left(pl, b)
           v == Left(pn, FALSE)
<1>1. /\ WfqPlan(K, lo, hi, pn) /\ hi - Len(pn) = q + 1
      /\ q + 1 < hi => v = WFQ_weight[<<K, q + 1>>]
  <2>1. WfqPlan(K, lo, hi, pl)
    BY DEF WfqInv
  <2>2. q = hi - Len(pl)
    OBVIOUS
  <2> HIDE DEF q
  <2>3. Onward(K, lo, hi, pn, q)
    BY <2>1, <2>2, WfqTail
  <2>. QED
    BY <2>3 DEF Onward
<1>2. Round(K, lo, hi, q, t)
  BY WfqRound DEF WfqInv
<1>3. Round(K, lo, hi, q + 1, v)
  <2>1. Round(K, lo, hi, hi - Len(pn), v)
    BY <1>1, WfqRound
  <2>. QED
    BY <1>1, <2>1
<1>4. Owed(K, lo, hi, pn, FALSE, pa, hd)
  <2> SUFFICES ASSUME NEW k \in lo .. hi - 1
               PROVE  /\ pa[<<K, k>>] \in Nat
                      /\ pa[<<K, k>>] # 0 => hd[<<K, k>>] # << >>
                      /\ Within(K, lo, hi, q + 1, v, k, pa[<<K, k>>])
    BY <1>1 DEF Owed
  <2> DEFINE n == pa[<<K, k>>]
  <2>1. n \in Nat /\ (n # 0 => hd[<<K, k>>] # << >>) /\ Within(K, lo, hi, q, t, k, n)
    BY DEF WfqInv, Owed
  <2>2. k = q => n = 0
    OBVIOUS
  <2> HIDE DEF n, q, t, v
  <2>3. CASE k = q
    <3>1. Within(K, lo, hi, q + 1, v, k, 0)
      BY <1>3, WithinZero
    <3>. QED
      BY <2>1, <2>2, <2>3, <3>1 DEF n
  <2>4. CASE k # q
    <3>1. Within(K, lo, hi, q + 1, v, k, n)
      BY <1>1, <1>2, <1>3, <2>1, <2>4, RingDone
    <3>. QED
      BY <2>1, <3>1 DEF n
  <2>. QED
    BY <2>3, <2>4
<1>. QED
  BY <1>1, <1>4 DEF WfqInv

\* A packet of the first ring is taken.
WfqTaken(K, lo, hi, q, pa, hd, na, ha) ==
  /\ na[<<K, q>>] = 0
  /\ \A k \in lo .. hi - 1 : k # q =>
       /\ na[<<K, k>>] = pa[<<K, k>>] \/ (na[<<K, k>>] = pa[<<K, k>>] + 1 /\ hd[<<K, k>>] # << >>)
       /\ hd[<<K, k>>] # << >> => ha[<<K, k>>] # << >>

LEMMA WfqTake ==
  ASSUME NEW K, NEW lo, NEW hi, Weighted(K, lo, hi), NEW pl, NEW pa, NEW hd, NEW na, NEW ha,
         WfqInv(K, lo, hi, pl, FALSE, pa, hd), pl # << >>,
         WfqTaken(K, lo, hi, hi - Len(pl), pa, hd, na, ha)
  PROVE  WfqInv(K, lo, hi, pl, TRUE, na, ha)
<1> DEFINE q == hi - Len(pl)
           t == Left(pl, FALSE)
<1>1. WfqPlan(K, lo, hi, pl)
  BY DEF WfqInv
<1>2. q < hi /\ t \in Nat \ {0} /\ Left(pl, TRUE) = t - 1
  <2>1. pl[1].times \in Nat \ {0} /\ q < hi
    BY <1>1, WfqRound
  <2>. QED
    BY <2>1 DEF Left
<1>3. Round(K, lo, hi, q, t)
  BY <1>1, WfqRound
<1>4. Round(K, lo, hi, q, t - 1)
  <2>1. Round(K, lo, hi, q, Left(pl, TRUE))
    BY <1>1, WfqRound
  <2>. QED
    BY <1>2, <2>1
<1>5. Owed(K, lo, hi, pl, TRUE, na, ha)
  <2> SUFFICES ASSUME NEW k \in lo .. hi - 1
               PROVE  /\ na[<<K, k>>] \in Nat
                      /\ na[<<K, k>>] # 0 => ha[<<K, k>>] # << >>
                      /\ Within(K, lo, hi, q, t - 1, k, na[<<K, k>>])
    BY <1>2 DEF Owed
  <2> DEFINE n == pa[<<K, k>>]
             m == na[<<K, k>>]
  <2>1. n \in Nat /\ (n # 0 => hd[<<K, k>>] # << >>) /\ Within(K, lo, hi, q, t, k, n)
    BY DEF WfqInv, Owed
  <2>2. /\ k = q => m = 0
        /\ k # q => /\ m = n \/ (m = n + 1 /\ hd[<<K, k>>] # << >>)
                    /\ hd[<<K, k>>] # << >> => ha[<<K, k>>] # << >>
    BY DEF WfqTaken
  <2> HIDE DEF n, m, q, t
  <2>3. CASE k = q
    <3>1. Within(K, lo, hi, q, t - 1, k, 0)
      BY <1>4, WithinZero
    <3>. QED
      BY <2>2, <2>3, <3>1 DEF m
  <2>4. CASE k # q
    <3>1. Within(K, lo, hi, q, t - 1, k, n) /\ Within(K, lo, hi, q, t - 1, k, n + 1)
      BY <1>2, <1>3, <1>4, <2>1, <2>4, RingServed
    <3>2. CASE m = n
      BY <2>1, <2>2, <2>4, <3>1, <3>2 DEF m
    <3>3. CASE m = n + 1 /\ hd[<<K, k>>] # << >>
      <4>1. m \in Nat /\ ha[<<K, k>>] # << >>
        BY <2>1, <2>2, <2>4, <3>3
      <4>. QED
        BY <3>1, <3>3, <4>1 DEF m
    <3>. QED
      BY <2>2, <2>4, <3>2, <3>3
  <2>. QED
    BY <2>3, <2>4
<1>. QED
  BY <1>1, <1>5 DEF WfqInv, WfqTaken

\* The packet is passed on.
LEMMA WfqAfter ==
  ASSUME NEW K, NEW lo, NEW hi, Weighted(K, lo, hi), NEW pl, NEW pa, NEW hd,
         WfqInv(K, lo, hi, pl, TRUE, pa, hd), NEW pn, pn = AfterPacket("WFQ", pl)
  PROVE  WfqInv(K, lo, hi, pn, FALSE, pa, hd)
<1> DEFINE q == hi - Len(pl)
           t == pl[1].times
<1>1. WfqPlan(K, lo, hi, pl) /\ pl # << >> /\ pa[<<K, q>>] = 0
  BY DEF WfqInv
<1>2. PICK S : pl \in Seq(S)
  BY <1>1 DEF WfqPlan
<1>3. Head(pl) = pl[1] /\ Len(pl) \in Nat /\ Len(pl) >= 1
  BY <1>1, <1>2
<1>4. t \in Nat \ {0} /\ t <= WFQ_weight[<<K, q>>] /\ pl[1].ring = <<K, q>> /\ q \in Int
  BY <1>1, WfqRound
<1>5. CASE ~(t > 1)
  <2>1. pn = Tail(pl)
    BY <1>3, <1>5 DEF AfterPacket
  <2>. QED
    BY <1>1, <2>1, WfqNext
<1>6. CASE t > 1
  <2> DEFINE e == Try(Head(pl).ring, Head(pl).times - 1)
  <2>1. pn = <<e>> \o Tail(pl)
    BY <1>3, <1>6 DEF AfterPacket
  <2>2. e.ring = <<K, q>> /\ e.times = t - 1
    BY <1>3, <1>4 DEF Try
  <2> HIDE DEF e
  <2> DEFINE R == S \cup {e}
  <2>3. <<e>> \in Seq(R) /\ Tail(pl) \in Seq(R) /\ Len(Tail(pl)) = Len(pl) - 1
        /\ \A j \in 1 .. Len(pl) - 1 : Tail(pl)[j] = pl[j + 1]
    <3>1. Tail(pl) \in Seq(S) /\ Len(Tail(pl)) = Len(pl) - 1
          /\ \A j \in 1 .. Len(pl) - 1 : Tail(pl)[j] = pl[j + 1]
      BY <1>1, <1>2, HeadTailProperties
    <3>2. Tail(pl) \in Seq(R) /\ <<e>> \in Seq(R)
      BY <3>1
    <3>. QED
      BY <3>1, <3>2
  <2>4. pn \in Seq(R) /\ Len(pn) = Len(pl) /\ pn[1] = e /\ \A j \in 2 .. Len(pl) : pn[j] = pl[j]
    <3> DEFINE T == Tail(pl)
    <3>1. Len(T) \in Nat /\ T \in Seq(R) /\ Len(T) = Len(pl) - 1
      BY <1>3, <2>3
    <3>2. \A j \in 1 .. Len(pl) - 1 : T[j] = pl[j + 1]
      BY <2>3
    <3> HIDE DEF T, R
    <3>3. pn = <<e>> \o T
      BY <2>1 DEF T
    <3>4. pn \in Seq(R) /\ Len(pn) = 1 + Len(T) /\ pn[1] = e /\ \A j \in 2 .. 1 + Len(T) : pn[j] = T[j - 1]
      <4> DEFINE E == <<e>>
      <4>1. Len(E) = 1 /\ E[1] = e /\ E \in Seq(R)
        BY <2>3
      <4> HIDE DEF E
      <4>2. pn = E \o T
        BY <3>3 DEF E
      <4>3. /\ pn \in Seq(R) /\ Len(pn) = Len(E) + Len(T)
            /\ \A j \in 1 .. Len(E) + Len(T) : pn[j] = IF j <= Len(E) THEN E[j] ELSE T[j - Len(E)]
        <5>1. /\ E \o T \in Seq(R) /\ Len(E \o T) = Len(E) + Len(T)
              /\ \A j \in 1 .. Len(E) + Len(T) : (E \o T)[j] = IF j <= Len(E) THEN E[j] ELSE T[j - Len(E)]
          BY <3>1, <4>1, ConcatProperties
        <5>. QED
          BY <4>2, <5>1
      <4>. QED
        BY <3>1, <4>1, <4>3
    <3>5. \A j \in 2 .. Len(pl) : T[j - 1] = pl[j]
      <4> SUFFICES ASSUME NEW j \in 2 .. Len(pl) PROVE T[j - 1] = pl[j]
        OBVIOUS
      <4>1. j - 1 \in 1 .. Len(pl) - 1 /\ (j - 1) + 1 = j
        BY <1>3
      <4>. QED
        BY <3>2, <4>1
    <3>. QED
      BY <1>3, <3>1, <3>4, <3>5
  <2>5. pn # << >> /\ Left(pn, FALSE) = t - 1 /\ Left(pl, TRUE) = t - 1
    <3>1. pn # << >>
      BY <1>3, <2>4
    <3>. QED
      BY <1>1, <2>2, <2>4, <3>1 DEF Left
  <2>6. WfqPlan(K, lo, hi, pn)
    <3>1. ASSUME NEW j \in 1 .. Len(pl)
          PROVE  /\ pn[j].ring = <<K, q + j - 1>>
                 /\ pn[j].times \in 1 .. WFQ_weight[pn[j].ring]
                 /\ j > 1 => pn[j].times = WFQ_weight[pn[j].ring]
      <4>1. CASE j = 1
        <5>1. q + 1 - 1 = q
          BY <1>4
        <5>2. WFQ_weight[<<K, q>>] \in Nat
          BY <1>1, WfqRound DEF Weighted, Rings
        <5>3. t - 1 \in 1 .. WFQ_weight[<<K, q>>]
          BY <1>4, <1>6, <5>2
        <5>. QED
          BY <2>2, <2>4, <4>1, <5>1, <5>3
      <4>2. CASE j # 1
        <5>1. pn[j] = pl[j]
          BY <1>3, <2>4, <4>2
        <5>. QED
          BY <1>1, <5>1 DEF WfqPlan
      <4>. QED
        BY <4>1, <4>2
    <3>2. Len(pn) <= hi - lo
      BY <1>1, <2>4 DEF WfqPlan
    <3>. QED
      BY <2>4, <3>1, <3>2 DEF WfqPlan
  <2>7. Owed(K, lo, hi, pn, FALSE, pa, hd)
    BY <2>4, <2>5 DEF WfqInv, Owed
  <2>. QED
    BY <2>6, <2>7 DEF WfqInv
<1>. QED
  BY <1>5, <1>6

-----------------------------------------------------------------------------
\* Strict priority: the rings of a group are numbered from 1 on.
Ranked(K, lo, hi) ==
  /\ lo \in Nat /\ hi \in Nat /\ lo < hi
  /\ \A i \in 1 .. hi - lo : \E r \in Rings(K, lo, hi) : SP_priority[r] = i
  /\ \A r \in Rings(K, lo, hi) : SP_priority[r] \in 1 .. hi - lo
  /\ \A r, s \in Rings(K, lo, hi) : SP_priority[r] = SP_priority[s] => r = s

\* As many priorities as rings: each ring has one of its own.
LEMMA RankedBy ==
  ASSUME NEW K, NEW lo \in Nat, NEW hi \in Nat, lo < hi,
         \A i \in 1 .. hi - lo : \E r \in Rings(K, lo, hi) : SP_priority[r] = i
  PROVE  Ranked(K, lo, hi)
<1> DEFINE n == hi - lo
           S == Rings(K, lo, hi)
           h == [i \in 1 .. n |-> CHOOSE r \in S : SP_priority[r] = i]
<1>1. n \in Nat /\ hi - 1 \in Int /\ lo \in Int
  OBVIOUS
<1>2. IsFiniteSet(1 .. n) /\ Cardinality(1 .. n) = n
  <2>1. 1 \in Int /\ n \in Int
    BY <1>1
  <2>2. IsFiniteSet(1 .. n) /\ Cardinality(1 .. n) = IF 1 > n THEN 0 ELSE n - 1 + 1
    BY <2>1, FS_Interval
  <2>. QED
    BY <1>1, <2>2
<1>3. IsFiniteSet(S) /\ Cardinality(S) = n
  <2> DEFINE T == lo .. hi - 1
  <2>1. IsFiniteSet(T) /\ Cardinality(T) = IF lo > hi - 1 THEN 0 ELSE (hi - 1) - lo + 1
    BY <1>1, FS_Interval
  <2>2. Cardinality(T) = n
    BY <2>1
  <2>3. IsFiniteSet({K}) /\ Cardinality({K}) = 1
    BY FS_Singleton
  <2> HIDE DEF n, T
  <2>4. IsFiniteSet({K} \X T) /\ Cardinality({K} \X T) = Cardinality({K}) * Cardinality(T)
    BY <2>1, <2>3, FS_Product
  <2>5. S = {K} \X T
    BY DEF S, T, Rings
  <2>. QED
    BY <1>1, <2>2, <2>3, <2>4, <2>5
<1>4. \A i \in 1 .. n : h[i] \in S /\ SP_priority[h[i]] = i
  OBVIOUS
<1> HIDE DEF h
<1>5. h \in [1 .. n -> S]
  BY <1>4 DEF h
<1>6. h \in Injection(1 .. n, S)
  BY <1>4, <1>5 DEF Injection, IsInjective
<1>7. h \in Surjection(1 .. n, S)
  <2> HIDE DEF n, S
  <2>. QED
    BY <1>2, <1>3, <1>6, FS_Injection
<1>8. \A r \in S : \E i \in 1 .. n : h[i] = r
  BY <1>7 DEF Surjection
<1>. QED
  BY <1>4, <1>8 DEF Ranked

SpPlan(K, lo, hi, pl) ==
  /\ \E S : pl \in Seq(S)
  /\ Len(pl) <= hi - lo
  /\ \A j \in 1 .. Len(pl) :
       pl[j].ring \in Rings(K, lo, hi) /\ SP_priority[pl[j].ring] = ((hi - lo) - Len(pl)) + j

\* A ring is passed over once at most, and only between the packet for which
\* it came too late and the end of the call.
SpOwed(K, lo, hi, pl, b, pa, hd) ==
  \A r \in Rings(K, lo, hi) :
    /\ pa[r] \in 0 .. 1
    /\ pa[r] # 0 => hd[r] # << >>
    /\ pa[r] # 0 /\ ~b /\ pl # << >> => SP_priority[r] > (hi - lo) - Len(pl)

SpInv(K, lo, hi, pl, b, pa, hd) == SpPlan(K, lo, hi, pl) /\ SpOwed(K, lo, hi, pl, b, pa, hd)

LEMMA SpStays ==
  ASSUME NEW K, NEW lo, NEW hi, NEW pl, NEW b, NEW pa, NEW hd, NEW na, NEW ha,
         SpInv(K, lo, hi, pl, b, pa, hd),
         \A r \in Rings(K, lo, hi) : na[r] = pa[r] /\ (hd[r] # << >> => ha[r] # << >>)
  PROVE  SpInv(K, lo, hi, pl, b, na, ha)
  BY DEF SpInv, SpOwed

\* The call begins with the ring of priority 1.
LEMMA SpCall ==
  ASSUME NEW K, NEW lo, NEW hi, Ranked(K, lo, hi), NEW pl, NEW pn, NEW pa, NEW hd,
         SpInv(K, lo, hi, pl, FALSE, pa, hd),
         pn = [i \in 1 .. hi - lo |-> Try(CHOOSE r \in Rings(K, lo, hi) : SP_priority[r] = i, 1)]
  PROVE  SpInv(K, lo, hi, pn, FALSE, pa, hd)
<1> DEFINE n == hi - lo
           S == Rings(K, lo, hi)
<1>1. n \in Nat /\ \A r \in S : SP_priority[r] \in 1 .. n
  BY DEF Ranked
<1>2. \A i \in 1 .. n : pn[i].ring \in S /\ SP_priority[pn[i].ring] = i
  BY DEF Ranked, Try
<1>3. \E R : pn \in Seq(R)
  <2> DEFINE R == {pn[i] : i \in 1 .. n}
  <2>1. pn \in [1 .. n -> R]
    OBVIOUS
  <2>2. pn \in Seq(R)
    BY <1>1, <2>1, FunctionsAreSequences
  <2>. QED
    BY <2>2
<1>4. Len(pn) = n
  <2>1. DOMAIN pn = 1 .. n
    OBVIOUS
  <2>. QED
    BY <1>1, <1>3, <2>1, LenProperties
<1>5. SpPlan(K, lo, hi, pn)
  <2>1. n - n = 0
    BY <1>1
  <2>. QED
    BY <1>1, <1>2, <1>3, <1>4, <2>1 DEF SpPlan
<1>6. SpOwed(K, lo, hi, pn, FALSE, pa, hd)
  BY <1>1, <1>4 DEF SpInv, SpOwed
<1>. QED
  BY <1>5, <1>6 DEF SpInv

LEMMA SpHead ==
  ASSUME NEW K, NEW lo, NEW hi, Ranked(K, lo, hi), NEW pl, SpPlan(K, lo, hi, pl), pl # << >>
  PROVE  /\ Len(pl) \in Nat /\ Len(pl) >= 1 /\ Len(pl) <= hi - lo
         /\ pl[1].ring \in Rings(K, lo, hi)
         /\ SP_priority[pl[1].ring] = ((hi - lo) - Len(pl)) + 1
<1>1. PICK S : pl \in Seq(S)
  BY DEF SpPlan
<1>2. Len(pl) \in Nat /\ Len(pl) >= 1
  BY <1>1, EmptySeq, LenProperties
<1>. QED
  BY <1>2 DEF SpPlan

\* The first ring is found empty.
LEMMA SpNext ==
  ASSUME NEW K, NEW lo, NEW hi, Ranked(K, lo, hi), NEW pl, NEW pa, NEW hd,
         SpInv(K, lo, hi, pl, FALSE, pa, hd), pl # << >>, pa[pl[1].ring] = 0,
         NEW pn, pn = Tail(pl)
  PROVE  SpInv(K, lo, hi, pn, FALSE, pa, hd)
<1> DEFINE n == hi - lo
           S == Rings(K, lo, hi)
<1>1. n \in Nat /\ \A r \in S : SP_priority[r] \in Nat
  BY DEF Ranked
<1>2. /\ Len(pl) \in Nat /\ Len(pl) >= 1 /\ Len(pl) <= n
      /\ pl[1].ring \in S /\ SP_priority[pl[1].ring] = (n - Len(pl)) + 1
  BY SpHead DEF SpInv
<1>3. PICK R : pl \in Seq(R)
  BY DEF SpInv, SpPlan
<1>4. pn \in Seq(R) /\ Len(pn) = Len(pl) - 1 /\ \A j \in 1 .. Len(pn) : pn[j] = pl[j + 1]
  BY <1>3, HeadTailProperties
<1>5. SpPlan(K, lo, hi, pn)
  <2>1. ASSUME NEW j \in 1 .. Len(pn)
        PROVE  pn[j].ring \in S /\ SP_priority[pn[j].ring] = (n - Len(pn)) + j
    <3>1. j + 1 \in 1 .. Len(pl) /\ (n - Len(pl)) + (j + 1) = (n - Len(pn)) + j
      BY <1>1, <1>2, <1>4
    <3>. QED
      BY <1>4, <3>1 DEF SpInv, SpPlan
  <2>. QED
    BY <1>1, <1>2, <1>4, <2>1 DEF SpPlan
<1>6. SpOwed(K, lo, hi, pn, FALSE, pa, hd)
  <2>1. ASSUME NEW r \in S, pa[r] # 0
        PROVE  SP_priority[r] > n - Len(pn)
    <3>1. SP_priority[r] > n - Len(pl)
      BY <2>1 DEF SpInv, SpOwed
    <3>2. SP_priority[r] # (n - Len(pl)) + 1
      BY <1>2, <2>1 DEF Ranked
    <3>. QED
      BY <1>1, <1>2, <1>4, <3>1, <3>2
  <2>. QED
    BY <2>1 DEF SpInv, SpOwed
<1>. QED
  BY <1>5, <1>6 DEF SpInv

\* A packet of the ring s was taken; filled rings before it were passed over.
SpTaken(K, lo, hi, s, pa, hd, na, ha) ==
  /\ na[s] = 0
  /\ \A r \in Rings(K, lo, hi) : r # s =>
       /\ \/ na[r] = pa[r]
          \/ na[r] = pa[r] + 1 /\ hd[r] # << >> /\ SP_priority[r] < SP_priority[s]
       /\ hd[r] # << >> => ha[r] # << >>

LEMMA SpTake ==
  ASSUME NEW K, NEW lo, NEW hi, Ranked(K, lo, hi), NEW pl, NEW pa, NEW hd, NEW na, NEW ha,
         SpInv(K, lo, hi, pl, FALSE, pa, hd), pl # << >>,
         SpTaken(K, lo, hi, pl[1].ring, pa, hd, na, ha)
  PROVE  SpInv(K, lo, hi, pl, TRUE, na, ha)
<1> DEFINE n == hi - lo
           S == Rings(K, lo, hi)
           s == pl[1].ring
<1>1. n \in Nat /\ \A r \in S : SP_priority[r] \in Nat
  BY DEF Ranked
<1>2. Len(pl) \in Nat /\ s \in S /\ SP_priority[s] = (n - Len(pl)) + 1
  BY SpHead DEF SpInv
<1>3. ASSUME NEW r \in S
      PROVE  na[r] \in 0 .. 1 /\ (na[r] # 0 => ha[r] # << >>)
  <2>1. CASE r = s
    BY <2>1 DEF SpTaken
  <2>2. CASE r # s /\ na[r] = pa[r]
    BY <2>2 DEF SpTaken, SpInv, SpOwed
  <2>3. CASE r # s /\ na[r] = pa[r] + 1 /\ hd[r] # << >> /\ SP_priority[r] < SP_priority[s]
    <3>1. pa[r] = 0
      BY <1>1, <1>2, <2>3 DEF SpInv, SpOwed
    <3>. QED
      BY <2>3, <3>1 DEF SpTaken
  <2>. QED
    BY <2>1, <2>2, <2>3 DEF SpTaken
<1>. QED
  BY <1>3 DEF SpInv, SpOwed

LEMMA SpAfter ==
  ASSUME NEW K, NEW lo, NEW hi, Ranked(K, lo, hi), NEW pl, NEW pa, NEW hd,
         SpInv(K, lo, hi, pl, TRUE, pa, hd), NEW pn, pn = << >>
  PROVE  SpInv(K, lo, hi, pn, FALSE, pa, hd)
<1>1. pn \in Seq({}) /\ Len(pn) = 0 /\ 0 <= hi - lo
  BY DEF Ranked
<1>2. SpPlan(K, lo, hi, pn)
  BY <1>1 DEF SpPlan
<1>. QED
  BY <1>2 DEF SpInv, SpOwed

-----------------------------------------------------------------------------
\* A group of rings under a policy: what the policy needs to know of it, ...
Sound(po, K, lo, hi) ==
  /\ po \in {"SP", "WFQ", "pFabric"}
  /\ lo \in Nat /\ hi \in Nat /\ lo < hi
  /\ po = "WFQ" => Weighted(K, lo, hi)
  /\ po = "SP" => Ranked(K, lo, hi)

\* ... and that none of its rings was passed over for long.
Fair(po, K, lo, hi, pl, b, pa, hd) ==
  /\ po = "WFQ" => WfqInv(K, lo, hi, pl, b, pa, hd)
  /\ po = "SP" => SpInv(K, lo, hi, pl, b, pa, hd)

FullPlan(po, K, lo, hi, pn) ==
  /\ po = "WFQ" => pn = [i \in 1 .. hi - lo |-> Try(<<K, lo + i - 1>>, WFQ_weight[<<K, lo + i - 1>>])]
  /\ po = "SP" => pn = [i \in 1 .. hi - lo |-> Try(CHOOSE r \in Rings(K, lo, hi) : SP_priority[r] = i, 1)]

\* The ring s was served.
Served(po, K, lo, hi, s, pa, hd, na, ha) ==
  /\ na[s] = 0
  /\ \A r \in Rings(K, lo, hi) : r # s =>
       /\ \/ na[r] = pa[r]
          \/ /\ na[r] = pa[r] + 1 /\ hd[r] # << >>
             /\ po = "SP" => SP_priority[r] < SP_priority[s]
       /\ hd[r] # << >> => ha[r] # << >>

LEMMA InRings ==
  ASSUME NEW K, NEW lo, NEW hi, NEW k \in lo .. hi - 1
  PROVE  <<K, k>> \in Rings(K, lo, hi)
  BY DEF Rings

LEMMA FairStays ==
  ASSUME NEW po, NEW K, NEW lo, NEW hi, Sound(po, K, lo, hi),
         NEW pl, NEW b, NEW pa, NEW hd, NEW na, NEW ha, Fair(po, K, lo, hi, pl, b, pa, hd),
         \A r \in Rings(K, lo, hi) : na[r] = pa[r] /\ (hd[r] # << >> => ha[r] # << >>)
  PROVE  Fair(po, K, lo, hi, pl, b, na, ha)
<1>1. CASE po = "WFQ"
  <2>1. /\ \A k \in lo .. hi - 1 : na[<<K, k>>] = pa[<<K, k>>]
        /\ \A k \in lo .. hi - 1 : hd[<<K, k>>] # << >> => ha[<<K, k>>] # << >>
    BY InRings
  <2>2. WfqInv(K, lo, hi, pl, b, na, ha)
    BY <1>1, <2>1, WfqStays DEF Sound, Fair
  <2>. QED
    BY <1>1, <2>2 DEF Fair
<1>2. CASE po = "SP"
  <2>1. SpInv(K, lo, hi, pl, b, na, ha)
    BY <1>2, SpStays DEF Fair
  <2>. QED
    BY <1>2, <2>1 DEF Fair
<1>. QED
  BY <1>1, <1>2 DEF Fair

LEMMA FairCall ==
  ASSUME NEW po, NEW K, NEW lo, NEW hi, Sound(po, K, lo, hi),
         NEW pl, NEW pa, NEW hd, Fair(po, K, lo, hi, pl, FALSE, pa, hd), pl = << >>,
         NEW pn, FullPlan(po, K, lo, hi, pn)
  PROVE  Fair(po, K, lo, hi, pn, FALSE, pa, hd)
<1>1. CASE po = "WFQ"
  <2>1. WfqInv(K, lo, hi, pn, FALSE, pa, hd)
    BY <1>1, WfqCall DEF Sound, Fair, FullPlan
  <2>. QED
    BY <1>1, <2>1 DEF Fair
<1>2. CASE po = "SP"
  <2>1. SpInv(K, lo, hi, pn, FALSE, pa, hd)
    BY <1>2, SpCall DEF Sound, Fair, FullPlan
  <2>. QED
    BY <1>2, <2>1 DEF Fair
<1>. QED
  BY <1>1, <1>2 DEF Fair

\* The ring at the head of the plan is in the group.
LEMMA FairHead ==
  ASSUME NEW po, po # "pFabric", NEW K, NEW lo, NEW hi, Sound(po, K, lo, hi),
         NEW pl, NEW b, NEW pa, NEW hd, Fair(po, K, lo, hi, pl, b, pa, hd), pl # << >>
  PROVE  pl[1].ring \in Rings(K, lo, hi)
<1>1. CASE po = "WFQ"
  <2>1. pl[1].ring = <<K, hi - Len(pl)>> /\ hi - Len(pl) \in lo .. hi - 1
    BY <1>1, WfqRound DEF Sound, Fair, WfqInv
  <2>. QED
    BY <2>1, InRings
<1>2. CASE po = "SP"
  BY <1>2, SpHead DEF Sound, Fair, SpInv
<1>. QED
  BY <1>1, <1>2 DEF Sound

LEMMA FairNext ==
  ASSUME NEW po, NEW K, NEW lo, NEW hi, Sound(po, K, lo, hi),
         NEW pl, NEW pa, NEW hd, Fair(po, K, lo, hi, pl, FALSE, pa, hd), pl # << >>,
         hd[pl[1].ring] = << >>, NEW pn, pn = Tail(pl)
  PROVE  Fair(po, K, lo, hi, pn, FALSE, pa, hd)
<1>1. CASE po = "WFQ"
  <2> DEFINE q == hi - Len(pl)
  <2>1. pl[1].ring = <<K, q>> /\ q \in lo .. hi - 1
    BY <1>1, WfqRound DEF Sound, Fair, WfqInv
  <2> HIDE DEF q
  <2>2. pa[<<K, q>>] = 0
    BY <1>1, <2>1 DEF Fair, WfqInv, Owed
  <2>3. WfqInv(K, lo, hi, pn, FALSE, pa, hd)
    BY <1>1, <2>2, WfqNext DEF Sound, Fair, q
  <2>. QED
    BY <1>1, <2>3 DEF Fair
<1>2. CASE po = "SP"
  <2>1. pl[1].ring \in Rings(K, lo, hi)
    BY <1>2, FairHead
  <2>2. pa[pl[1].ring] = 0
    BY <1>2, <2>1 DEF Fair, SpInv, SpOwed
  <2>3. SpInv(K, lo, hi, pn, FALSE, pa, hd)
    BY <1>2, <2>2, SpNext DEF Sound, Fair
  <2>. QED
    BY <1>2, <2>3 DEF Fair
<1>. QED
  BY <1>1, <1>2 DEF Fair

LEMMA FairTake ==
  ASSUME NEW po, NEW K, NEW lo, NEW hi, Sound(po, K, lo, hi),
         NEW pl, NEW pa, NEW hd, Fair(po, K, lo, hi, pl, FALSE, pa, hd), pl # << >>,
         NEW na, NEW ha, Served(po, K, lo, hi, pl[1].ring, pa, hd, na, ha)
  PROVE  Fair(po, K, lo, hi, pl, TRUE, na, ha)
<1>1. CASE po = "WFQ"
  <2> DEFINE q == hi - Len(pl)
  <2>1. pl[1].ring = <<K, q>> /\ q \in lo .. hi - 1
    BY <1>1, WfqRound DEF Sound, Fair, WfqInv
  <2> HIDE DEF q
  <2>2. WfqTaken(K, lo, hi, q, pa, hd, na, ha)
    <3>1. ASSUME NEW k \in lo .. hi - 1, k # q
          PROVE  <<K, k>> \in Rings(K, lo, hi) /\ <<K, k>> # <<K, q>>
      BY <3>1, InRings
    <3>. QED
      BY <2>1, <3>1 DEF Served, WfqTaken
  <2>3. WfqInv(K, lo, hi, pl, TRUE, na, ha)
    BY <1>1, <2>2, WfqTake DEF Sound, Fair, q
  <2>. QED
    BY <1>1, <2>3 DEF Fair
<1>2. CASE po = "SP"
  <2>1. SpTaken(K, lo, hi, pl[1].ring, pa, hd, na, ha)
    BY <1>2 DEF Served, SpTaken
  <2>2. SpInv(K, lo, hi, pl, TRUE, na, ha)
    BY <1>2, <2>1, SpTake DEF Sound, Fair
  <2>. QED
    BY <1>2, <2>2 DEF Fair
<1>. QED
  BY <1>1, <1>2 DEF Fair

LEMMA FairAfter ==
  ASSUME NEW po, NEW K, NEW lo, NEW hi, Sound(po, K, lo, hi),
         NEW pl, NEW pa, NEW hd, Fair(po, K, lo, hi, pl, TRUE, pa, hd),
         NEW pn, pn = AfterPacket(po, pl)
  PROVE  Fair(po, K, lo, hi, pn, FALSE, pa, hd)
<1>1. CASE po = "WFQ"
  <2>1. WfqInv(K, lo, hi, pn, FALSE, pa, hd)
    BY <1>1, WfqAfter DEF Sound, Fair
  <2>. QED
    BY <1>1, <2>1 DEF Fair
<1>2. CASE po = "SP"
  <2>1. pn = << >>
    BY <1>2 DEF AfterPacket
  <2>2. SpInv(K, lo, hi, pn, FALSE, pa, hd)
    BY <1>2, <2>1, SpAfter DEF Sound, Fair
  <2>. QED
    BY <1>2, <2>2 DEF Fair
<1>. QED
  BY <1>1, <1>2 DEF Fair

\* Before the first packet.
LEMMA FairInit ==
  ASSUME NEW po, NEW K, NEW lo, NEW hi, Sound(po, K, lo, hi), NEW pl, pl = << >>,
         NEW pa, NEW hd, \A r \in Rings(K, lo, hi) : pa[r] = 0
  PROVE  Fair(po, K, lo, hi, pl, FALSE, pa, hd)
<1>1. pl \in Seq({}) /\ Len(pl) = 0 /\ lo \in Nat /\ hi \in Nat /\ lo < hi /\ hi - 0 = hi
  BY DEF Sound
<1>2. CASE po = "WFQ"
  <2>1. WfqPlan(K, lo, hi, pl)
    BY <1>1 DEF WfqPlan
  <2>2. Round(K, lo, hi, hi, 0)
    <3>1. Round(K, lo, hi, hi - Len(pl), Left(pl, FALSE))
      BY <1>2, <2>1, WfqRound DEF Sound
    <3>. QED
      BY <1>1, <3>1 DEF Left
  <2>3. \A k \in lo .. hi - 1 : Within(K, lo, hi, hi, 0, k, 0) /\ pa[<<K, k>>] = 0
    BY <2>2, WithinZero, InRings
  <2>4. Owed(K, lo, hi, pl, FALSE, pa, hd)
    BY <1>1, <2>3 DEF Owed, Left
  <2>. QED
    BY <1>2, <2>1, <2>4 DEF Fair, WfqInv
<1>3. CASE po = "SP"
  BY <1>1, <1>3 DEF Fair, SpInv, SpPlan, SpOwed
<1>. QED
  BY <1>2, <1>3 DEF Fair

-----------------------------------------------------------------------------
\* The groups of the scheduler: the flows of each node, and the nodes.
FlowsShared(n) ==
  Fair(intra_node, "flow", FLOWS * n, FLOWS * n + FLOWS, plan[n],
       held[<<"node array", n>>] # << >>, passed, held)

FwdBusy == held[fwdArray] # << >> \/ fwd_count # NoCount

NodesShared == Fair(inter_node, "node", 0, NODES, plan[Forwarding], FwdBusy, passed, held)

Shared == NodesShared /\ \A n \in Node : FlowsShared(n)

LEMMA FlowGroup ==
  ASSUME NEW n \in Node
  PROVE  /\ Sound(intra_node, "flow", FLOWS * n, FLOWS * n + FLOWS)
         /\ Rings("flow", FLOWS * n, FLOWS * n + FLOWS) = {"flow"} \X FlowsOf(n)
         /\ {"flow"} \X FlowsOf(n) \subseteq Merged
         /\ {"flow"} \X FlowsOf(n) \subseteq Ring
<1> DEFINE lo == FLOWS * n
           hi == lo + FLOWS
<1>1. FLOWS \in Nat \ {0} /\ lo \in Nat /\ FlowsOf(n) \subseteq Flow
  BY SizeAssumption, FlowsOfNode
<1>2. FlowsOf(n) = lo .. hi - 1
  <2>1. FlowsOf(n) = lo .. lo + FLOWS - 1
    BY DEF FlowsOf
  <2> HIDE DEF lo
  <2>. QED
    BY <1>1, <2>1
<1> HIDE DEF lo
<1>3. lo \in Nat /\ hi \in Nat /\ lo < hi /\ hi - lo = FLOWS
  BY <1>1
<1>4. Rings("flow", lo, hi) = {"flow"} \X FlowsOf(n)
  BY <1>2 DEF Rings
<1>5. {"flow"} \X FlowsOf(n) \subseteq Merged /\ {"flow"} \X FlowsOf(n) \subseteq Ring
  BY <1>1 DEF Merged, Ring
<1>6. Weighted("flow", lo, hi)
  BY <1>1, <1>3, <1>4, WeightAssumption DEF Weighted
<1>7. Ranked("flow", lo, hi)
  <2>1. \A i \in 1 .. hi - lo : \E r \in Rings("flow", lo, hi) : SP_priority[r] = i
    BY <1>3, <1>4, PriorityAssumption
  <2> HIDE DEF hi
  <2>. QED
    BY <1>3, <2>1, RankedBy
<1>8. Sound(intra_node, "flow", lo, hi)
  BY <1>3, <1>6, <1>7, PolicyAssumption DEF Sound
<1>. QED
  BY <1>4, <1>5, <1>8 DEF lo

LEMMA NodeGroup ==
  /\ Sound(inter_node, "node", 0, NODES)
  /\ Rings("node", 0, NODES) = {"node"} \X Node
  /\ {"node"} \X Node \subseteq Merged
  /\ {"node"} \X Node \subseteq Ring
<1>1. NODES \in Nat /\ 0 \in Nat /\ 0 < NODES /\ NODES - 0 = NODES
  BY SizeAssumption
<1>2. Rings("node", 0, NODES) = {"node"} \X Node
  BY DEF Rings, Node
<1>3. Weighted("node", 0, NODES)
  BY <1>1, <1>2, WeightAssumption DEF Weighted
<1>4. Ranked("node", 0, NODES)
  <2>1. \A i \in 1 .. NODES - 0 : \E r \in Rings("node", 0, NODES) : SP_priority[r] = i
    BY <1>1, <1>2, PriorityAssumption
  <2>. QED
    BY <1>1, <2>1, RankedBy
<1>5. Sound(inter_node, "node", 0, NODES)
  BY <1>1, <1>3, <1>4, PolicyAssumption DEF Sound
<1>. QED
  BY <1>2, <1>5 DEF Merged, Ring

\* The rings that compete with a flow's ring are those of its node.
LEMMA NodeOfFlow ==
  ASSUME NEW n \in Node, NEW f \in FlowsOf(n)
  PROVE  f \div FLOWS = n
<1>1. FLOWS \in Nat \ {0} /\ n \in Nat /\ FLOWS * n \in Nat
  BY SizeAssumption, FlowsOfNode DEF Node
<1> DEFINE x == FLOWS * n
           r == f - x
<1>2. r \in 0 .. FLOWS - 1 /\ f = x + r
  <2>1. f \in x .. x + FLOWS - 1
    BY DEF FlowsOf
  <2> HIDE DEF x
  <2>. QED
    BY <1>1, <2>1 DEF x
<1> HIDE DEF r
<1>. QED
  BY <1>1, <1>2, DivModUnique

LEMMA FlowRivals ==
  ASSUME NEW n \in Node, NEW ring \in {"flow"} \X FlowsOf(n)
  PROVE  /\ policy(ring) = intra_node
         /\ Rivals(ring) = {r \in ({"flow"} \X FlowsOf(n)) \ {ring} :
                              intra_node = "SP" => SP_priority[r] < SP_priority[ring]}
<1>1. ring[1] = "flow" /\ ring[2] \in FlowsOf(n)
  OBVIOUS
<1>2. ring[2] \div FLOWS = n
  BY <1>1, NodeOfFlow
<1>. QED
  BY <1>1, <1>2 DEF policy, Rivals

LEMMA NodeRivals ==
  ASSUME NEW ring \in {"node"} \X Node
  PROVE  /\ policy(ring) = inter_node
         /\ Rivals(ring) = {r \in ({"node"} \X Node) \ {ring} :
                              inter_node = "SP" => SP_priority[r] < SP_priority[ring]}
<1>1. ring[1] = "node"
  OBVIOUS
<1>. QED
  BY <1>1 DEF policy, Rivals

-----------------------------------------------------------------------------
\* A step that serves none of the flows of node n, or none of the nodes.
Undisturbed(R) == \A r \in R : passed'[r] = passed[r] /\ (held[r] # << >> => held'[r] # << >>)

LEMMA FlowsStay ==
  ASSUME NEW n \in Node, FlowsShared(n), plan'[n] = plan[n],
         held'[<<"node array", n>>] = held[<<"node array", n>>], Undisturbed({"flow"} \X FlowsOf(n))
  PROVE  FlowsShared(n)'
<1> DEFINE lo == FLOWS * n
           hi == FLOWS * n + FLOWS
           pl == plan[n]
           b  == held[<<"node array", n>>] # << >>
<1>1. Sound(intra_node, "flow", lo, hi)
  BY FlowGroup
<1>2. \A r \in Rings("flow", lo, hi) : passed'[r] = passed[r] /\ (held[r] # << >> => held'[r] # << >>)
  BY FlowGroup DEF Undisturbed
<1>3. Fair(intra_node, "flow", lo, hi, pl, b, passed, held)
  BY DEF FlowsShared
<1> HIDE DEF lo, hi, pl, b
<1>4. Fair(intra_node, "flow", lo, hi, pl, b, passed', held')
  BY <1>1, <1>2, <1>3, FairStays
<1>. QED
  BY <1>4 DEF FlowsShared, lo, hi, pl, b

LEMMA NodesStay ==
  ASSUME NodesShared, plan'[Forwarding] = plan[Forwarding], held'[fwdArray] = held[fwdArray],
         fwd_count' = fwd_count, Undisturbed({"node"} \X Node)
  PROVE  NodesShared'
<1> DEFINE b == FwdBusy
<1>1. Sound(inter_node, "node", 0, NODES) /\ Rings("node", 0, NODES) = {"node"} \X Node
  BY NodeGroup
<1>2. \A r \in Rings("node", 0, NODES) : passed'[r] = passed[r] /\ (held[r] # << >> => held'[r] # << >>)
  BY <1>1 DEF Undisturbed
<1>3. Fair(inter_node, "node", 0, NODES, plan[Forwarding], b, passed, held)
  BY DEF NodesShared
<1>4. FwdBusy' = b
  BY DEF FwdBusy
<1> HIDE DEF b
<1>5. Fair(inter_node, "node", 0, NODES, plan[Forwarding], b, passed', held')
  BY <1>1, <1>2, <1>3, FairStays
<1>. QED
  BY <1>4, <1>5 DEF NodesShared

\* A step of a core that merges nothing: rings of flows and nodes only fill.
LEMMA OtherCores ==
  ASSUME Shared, UNCHANGED <<plan, passed, fwd_count>>, held'[fwdArray] = held[fwdArray],
         \A n \in Node : held'[<<"node array", n>>] = held[<<"node array", n>>],
         \A r \in Merged : held[r] # << >> => held'[r] # << >>
  PROVE  Shared'
<1>1. NodesShared'
  <2>1. Undisturbed({"node"} \X Node)
    BY NodeGroup DEF Undisturbed
  <2>. QED
    BY <2>1, NodesStay DEF Shared
<1>2. ASSUME NEW n \in Node PROVE FlowsShared(n)'
  <2>1. Undisturbed({"flow"} \X FlowsOf(n))
    BY FlowGroup DEF Undisturbed
  <2>. QED
    BY <2>1, FlowsStay DEF Shared
<1>. QED
  BY <1>1, <1>2 DEF Shared

\* Every flow belongs to a node.
LEMMA FlowHasNode ==
  ASSUME NEW f \in Flow
  PROVE  \E n \in Node : f \in FlowsOf(n)
<1> DEFINE n == f \div FLOWS
           r == f % FLOWS
<1>1. FLOWS \in Nat \ {0} /\ NODES \in Nat \ {0} /\ NODES * FLOWS \in Nat
  BY SizeAssumption
<1>2. f \in Nat /\ f < NODES * FLOWS
  BY <1>1 DEF Flow
<1>3. f = FLOWS * n + r /\ n \in Nat /\ r \in 0 .. FLOWS - 1
  BY <1>1, <1>2, DivMod
<1> HIDE DEF n, r
<1>4. n < NODES
  <2>1. SUFFICES ASSUME n >= NODES PROVE FALSE
    BY <1>1, <1>3
  <2>2. n - NODES \in Nat /\ FLOWS * n = NODES * FLOWS + FLOWS * (n - NODES)
    BY <1>1, <1>3, <2>1
  <2>3. FLOWS * (n - NODES) \in Nat /\ FLOWS * n \in Nat
    BY <1>1, <1>3, <2>2
  <2>. QED
    BY <1>1, <1>2, <1>3, <2>2, <2>3
<1>5. n \in Node
  BY <1>1, <1>3, <1>4 DEF Node
<1>6. f \in FlowsOf(n)
  <2> DEFINE x == FLOWS * n
  <2>1. x \in Nat /\ f = x + r
    BY <1>1, <1>3
  <2>2. FlowsOf(n) = x .. x + FLOWS - 1
    BY DEF FlowsOf
  <2> HIDE DEF x
  <2>. QED
    BY <1>1, <1>3, <2>1, <2>2
<1>. QED
  BY <1>5, <1>6

-----------------------------------------------------------------------------
\* The steps of the cores that merge nothing.
LEMMA RingsDiffer ==
  /\ \A r \in Merged : r \in Ring /\ r \in Holder /\ r \notin Array
  /\ \A r \in Merged : \A p \in Port : r # <<"rx", p>> /\ r # <<"tx", p>>
  /\ \A n \in Node : <<"node", n>> \notin {"flow"} \X Flow
<1>1. \A r \in Merged : r \in Ring
  BY DEF Merged, Ring
<1>2. \A r \in Merged : r \in Holder /\ r \notin Array
  BY <1>1, Holders
<1>3. \A r \in Merged : \A p \in Port : r # <<"rx", p>> /\ r # <<"tx", p>>
  BY DEF Merged
<1>4. \A n \in Node : <<"node", n>> \notin {"flow"} \X Flow
  OBVIOUS
<1>. QED
  BY <1>1, <1>2, <1>3, <1>4

\* A packet appended, or dropped: no ring becomes empty.
LEMMA EnqueueFills ==
  ASSUME HeldType, NEW array \in Array, NEW ring \in Ring, Enqueue(array, ring)
  PROVE  \A r \in Merged : held[r] # << >> => held'[r] # << >>
<1>1. /\ held'[ring] = IF Len(held[ring]) < RingCap THEN Append(held[ring], Head(held[array])) ELSE held[ring]
      /\ \A c \in Holder \ {ring, array} : held'[c] = held[c]
  BY EnqueueHeld
<1>2. held[ring] \in Seq(Mbuf)
  BY Holders DEF HeldType
<1>3. ASSUME NEW x PROVE Append(held[ring], x) # << >>
  <2>1. Len(Append(held[ring], x)) = Len(held[ring]) + 1 /\ Len(held[ring]) \in Nat
    BY <1>2
  <2>2. Len(<< >>) = 0
    OBVIOUS
  <2>. QED
    BY <2>1, <2>2
<1>4. held[ring] # << >> => held'[ring] # << >>
  BY <1>1, <1>3
<1>5. \A r \in Merged : r # ring => r \in Holder \ {ring, array}
  BY RingsDiffer
<1>. QED
  BY <1>1, <1>4, <1>5

LEMMA DequeueOther ==
  ASSUME HeldType, NEW array \in Array, NEW ring \in Ring, ring \notin Merged, Dequeue(ring, array)
  PROVE  \A r \in Merged : held[r] # << >> => held'[r] # << >>
<1>1. \A c \in Holder \ {ring, array} : held'[c] = held[c]
  BY DequeueHeld
<1>2. \A r \in Merged : r \in Holder \ {ring, array}
  BY RingsDiffer
<1>. QED
  BY <1>1, <1>2

LEMMA RxShared ==
  ASSUME TInv, Shared, RxStep
  PROVE  Shared'
<1>1. UNCHANGED <<plan, passed, fwd_count>>
  BY DEF RxStep, ReceiveBurst, ReceiveNothing, RxEnqueue, loopVars
<1>2. rx_port \in Port /\ HeldType
  BY DEF TInv, RestType
<1>3. <<"rx", rx_port>> \in Ring /\ <<"rx", rx_port>> \notin Merged
  BY <1>2, Holders, RingsDiffer
<1>4. \A c \in Holder \ {rxArray, <<"rx", rx_port>>} : held'[c] = held[c]
  <2>1. CASE ReceiveBurst
    <3>1. PICK s : held' = [held EXCEPT ![rxArray] = s]
      BY <2>1 DEF ReceiveBurst
    <3>. QED
      BY <1>2, <3>1 DEF HeldType
  <2>2. CASE ReceiveNothing
    BY <2>2 DEF ReceiveNothing
  <2>3. CASE RxEnqueue
    BY <1>2, <2>3 DEF RxEnqueue, HeldType
  <2>. QED
    BY <2>1, <2>2, <2>3 DEF RxStep
<1>5. \A r \in Merged : held'[r] = held[r]
  <2>1. \A r \in Merged : r \in Holder \ {rxArray, <<"rx", rx_port>>}
    BY <1>3, RingsDiffer, Holders
  <2>. QED
    BY <1>4, <2>1
<1>6. \A c \in Array \ {rxArray} : held'[c] = held[c]
  BY <1>3, <1>4, Holders
<1>7. held'[fwdArray] = held[fwdArray]
  BY <1>6, Holders, ArraysDiffer
<1>8. \A n \in Node : held'[<<"node array", n>>] = held[<<"node array", n>>]
  BY <1>6, Holders, ArraysDiffer
<1>. QED
  BY <1>1, <1>5, <1>7, <1>8, OtherCores

LEMMA R2fShared ==
  ASSUME TInv, Shared, R2fStep
  PROVE  Shared'
<1>1. UNCHANGED <<plan, passed, fwd_count>>
  BY DEF R2fStep, Rx2FlowsPoll, Rx2FlowsFlow, Rx2FlowsTx, Rx2FlowsCount
<1>2. r2f_port \in Port /\ HeldType /\ r2fArray \in Array
  BY Holders DEF TInv, RestType
<1> DEFINE Fills == /\ \A c \in Array \ {r2fArray} : held'[c] = held[c]
                    /\ \A r \in Merged : held[r] # << >> => held'[r] # << >>
<1>3. ASSUME NEW ring \in Ring, Enqueue(r2fArray, ring) PROVE Fills
  BY <1>2, <1>3, EnqueueHeld, EnqueueFills
<1>4. ASSUME NEW ring \in Ring, ring \notin Merged, Dequeue(ring, r2fArray) PROVE Fills
  BY <1>2, <1>4, DequeueHeld, DequeueOther
<1>5. ASSUME UNCHANGED held PROVE Fills
  BY <1>5
<1> HIDE DEF Fills
<1>6. Fills
  <2>1. CASE Rx2FlowsPoll
    <3>1. <<"rx", r2f_port>> \in Ring /\ <<"rx", r2f_port>> \notin Merged
      BY <1>2, Holders, RingsDiffer
    <3>2. CASE Dequeue(<<"rx", r2f_port>>, r2fArray)
      BY <1>4, <3>1, <3>2
    <3>3. CASE UNCHANGED held
      BY <1>5, <3>3
    <3>. QED
      BY <2>1, <3>2, <3>3 DEF Rx2FlowsPoll
  <2>2. CASE Rx2FlowsFlow
    <3> DEFINE m == Head(held[r2fArray])
    <3>1. m \in Mbuf
      <4>1. held[r2fArray] \in Seq(Mbuf) /\ held[r2fArray] # << >>
        BY <1>2, <2>2, Holders DEF HeldType, Rx2FlowsFlow
      <4>. QED
        BY <4>1
    <3>2. <<"flow", pkt[m].flow>> \in Ring
      BY <2>2, <3>1, Holders DEF Rx2FlowsFlow, Scheduled, TInv, RestType, Record
    <3>3. Enqueue(r2fArray, <<"flow", pkt[m].flow>>)
      BY <2>2 DEF Rx2FlowsFlow
    <3>. QED
      BY <1>3, <3>2, <3>3
  <2>3. CASE Rx2FlowsTx
    <3>1. <<"tx", Bypass>> \in Ring
      BY PortAssumption, Holders DEF Bypass
    <3>2. Enqueue(r2fArray, <<"tx", Bypass>>)
      BY <2>3 DEF Rx2FlowsTx
    <3>. QED
      BY <1>3, <3>1, <3>2
  <2>4. CASE Rx2FlowsCount
    BY <1>5, <2>4 DEF Rx2FlowsCount
  <2>. QED
    BY <2>1, <2>2, <2>3, <2>4 DEF R2fStep
<1>7. held'[fwdArray] = held[fwdArray]
  BY <1>6, Holders, ArraysDiffer DEF Fills
<1>8. \A n \in Node : held'[<<"node array", n>>] = held[<<"node array", n>>]
  BY <1>6, Holders, ArraysDiffer DEF Fills
<1>9. \A r \in Merged : held[r] # << >> => held'[r] # << >>
  BY <1>6 DEF Fills
<1>. QED
  BY <1>1, <1>7, <1>8, <1>9, OtherCores

LEMMA TxShared ==
  ASSUME TInv, Shared, NEW p \in Port, TxStep(p)
  PROVE  Shared'
<1> DEFINE array == txArray(p)
<1>1. UNCHANGED <<plan, passed, fwd_count>>
  BY DEF TxStep, TxDequeue, TxCount, TxSend, loopVars
<1>2. HeldType /\ array \in Array /\ array # fwdArray /\ \A n \in Node : array # <<"node array", n>>
  BY Holders, ArraysDiffer DEF TInv
<1>3. <<"tx", p>> \in Ring /\ <<"tx", p>> \notin Merged
  BY Holders, RingsDiffer
<1> DEFINE Fills == /\ \A c \in Array \ {array} : held'[c] = held[c]
                    /\ \A r \in Merged : held[r] # << >> => held'[r] # << >>
<1>4. Fills
  <2>1. CASE TxDequeue(p)
    <3>1. Dequeue(<<"tx", p>>, array)
      BY <2>1 DEF TxDequeue
    <3> HIDE DEF array
    <3>2. ASSUME NEW ring \in Ring, ring \notin Merged, Dequeue(ring, array) PROVE Fills
      BY <1>2, <3>2, DequeueHeld, DequeueOther
    <3> HIDE DEF Fills
    <3>. QED
      BY <1>3, <3>1, <3>2
  <2>2. CASE TxCount(p)
    BY <2>2 DEF TxCount
  <2>3. CASE TxSend(p)
    <3>1. held' = [held EXCEPT ![array] = << >>]
      BY <2>3 DEF TxSend
    <3> HIDE DEF array
    <3>. QED
      BY <1>2, <3>1, Holders, RingsDiffer DEF HeldType
  <2>. QED
    BY <2>1, <2>2, <2>3 DEF TxStep
<1> HIDE DEF array
<1>7. held'[fwdArray] = held[fwdArray]
  BY <1>2, <1>4, Holders
<1>8. \A n \in Node : held'[<<"node array", n>>] = held[<<"node array", n>>]
  BY <1>2, <1>4, Holders
<1>. QED
  BY <1>1, <1>4, <1>7, <1>8, OtherCores

-----------------------------------------------------------------------------
\* The steps of the cores that merge.
FlowsFair(n, b, pl) == Fair(intra_node, "flow", FLOWS * n, FLOWS * n + FLOWS, pl, b, passed, held)
NodesFair(b, pl)    == Fair(inter_node, "node", 0, NODES, pl, b, passed, held)

LEMMA FlowsSharedIs ==
  ASSUME NEW n \in Node
  PROVE  /\ held[<<"node array", n>>] = << >> => (FlowsShared(n) <=> FlowsFair(n, FALSE, plan[n]))
         /\ held[<<"node array", n>>] # << >> => (FlowsShared(n) <=> FlowsFair(n, TRUE, plan[n]))
<1> DEFINE b == held[<<"node array", n>>] # << >>
<1>1. FlowsShared(n) <=> Fair(intra_node, "flow", FLOWS * n, FLOWS * n + FLOWS, plan[n], b, passed, held)
  BY DEF FlowsShared
<1>2. ASSUME held[<<"node array", n>>] = << >> PROVE b = FALSE
  BY <1>2
<1>3. ASSUME held[<<"node array", n>>] # << >> PROVE b = TRUE
  BY <1>3
<1> HIDE DEF b
<1>. QED
  BY <1>1, <1>2, <1>3 DEF FlowsFair

LEMMA NodesSharedIs ==
  /\ ~FwdBusy => (NodesShared <=> NodesFair(FALSE, plan[Forwarding]))
  /\ FwdBusy => (NodesShared <=> NodesFair(TRUE, plan[Forwarding]))
<1> DEFINE b == FwdBusy
<1>1. NodesShared <=> Fair(inter_node, "node", 0, NODES, plan[Forwarding], b, passed, held)
  BY DEF NodesShared
<1>2. ASSUME ~FwdBusy PROVE b = FALSE
  BY <1>2 DEF FwdBusy
<1>3. ASSUME FwdBusy PROVE b = TRUE
  BY <1>3 DEF FwdBusy
<1> HIDE DEF b
<1>. QED
  BY <1>1, <1>2, <1>3 DEF NodesFair

\* What a call tries is the full plan of the group.
LEMMA IntraPlanFull ==
  ASSUME NEW n \in Node, NEW pn, pn = IntraPlan(n)
  PROVE  FullPlan(intra_node, "flow", FLOWS * n, FLOWS * n + FLOWS, pn)
<1> DEFINE lo == FLOWS * n
           hi == FLOWS * n + FLOWS
<1>1. FLOWS \in Nat /\ lo \in Nat /\ hi - lo = FLOWS
  <2>1. FLOWS \in Nat /\ lo \in Nat
    BY SizeAssumption, FlowsOfNode
  <2> HIDE DEF lo
  <2>2. (lo + FLOWS) - lo = FLOWS
    BY <2>1
  <2>. QED
    BY <2>1, <2>2 DEF lo
<1>2. Rings("flow", lo, hi) = {"flow"} \X FlowsOf(n)
  BY FlowGroup
<1>3. intra_node = "SP" => pn = PlanSP({"flow"} \X FlowsOf(n), FLOWS)
  BY DEF IntraPlan
<1>4. intra_node = "WFQ" => pn = PlanWFQ(<<"flow", lo>>, FLOWS)
  BY DEF IntraPlan
<1> HIDE DEF lo, hi
<1>5. FullPlan(intra_node, "flow", lo, hi, pn)
  BY <1>1, <1>2, <1>3, <1>4 DEF FullPlan, PlanSP, PlanWFQ
<1>. QED
  BY <1>5 DEF lo, hi

LEMMA InterPlanFull ==
  ASSUME NEW pn, pn = InterPlan
  PROVE  FullPlan(inter_node, "node", 0, NODES, pn)
<1>1. NODES \in Nat /\ NODES - 0 = NODES
  BY SizeAssumption
<1>2. Rings("node", 0, NODES) = {"node"} \X Node
  BY NodeGroup
<1>3. inter_node = "SP" => pn = PlanSP({"node"} \X Node, NODES)
  BY DEF InterPlan
<1>4. inter_node = "WFQ" => pn = PlanWFQ(<<"node", 0>>, NODES)
  BY DEF InterPlan
<1>. QED
  BY <1>1, <1>2, <1>3, <1>4 DEF FullPlan, PlanSP, PlanWFQ

\* A ring of a group is served: what it means for the group, and for others.
LEMMA ServesFlow ==
  ASSUME TInv, NEW n \in Node, NEW ring \in {"flow"} \X FlowsOf(n), NEW array \in Array,
         Dequeue(ring, array), Serve(ring)
  PROVE  /\ Served(intra_node, "flow", FLOWS * n, FLOWS * n + FLOWS, ring, passed, held, passed', held')
         /\ \A k \in Node : k # n => Undisturbed({"flow"} \X FlowsOf(k))
         /\ Undisturbed({"node"} \X Node)
<1> DEFINE S == {"flow"} \X FlowsOf(n)
<1>1. ring \in Ring /\ ring \in Merged /\ S \subseteq Merged
  BY FlowGroup
<1>2. \A r \in Merged : r # ring => held'[r] = held[r]
  <2>1. \A c \in Holder \ {ring, array} : held'[c] = held[c]
    BY <1>1, DequeueHeld DEF TInv
  <2>2. \A r \in Merged : r # ring => r \in Holder \ {ring, array}
    BY RingsDiffer
  <2>. QED
    BY <2>1, <2>2
<1>3. \A r \in Rivals(ring) : r \in S /\ (intra_node = "SP" => SP_priority[r] < SP_priority[ring])
  BY FlowRivals
<1>4. /\ passed'[ring] = 0
      /\ \A r \in Merged : r # ring =>
           passed'[r] = IF r \in Rivals(ring) /\ held[r] # << >> THEN passed[r] + 1 ELSE passed[r]
  BY <1>1 DEF Serve
<1>5. Served(intra_node, "flow", FLOWS * n, FLOWS * n + FLOWS, ring, passed, held, passed', held')
  <2> DEFINE lo == FLOWS * n
             hi == FLOWS * n + FLOWS
  <2>1. Rings("flow", lo, hi) = S
    BY FlowGroup
  <2> HIDE DEF lo, hi, S
  <2>2. Served(intra_node, "flow", lo, hi, ring, passed, held, passed', held')
    BY <1>1, <1>2, <1>3, <1>4, <2>1 DEF Served
  <2>. QED
    BY <2>2 DEF lo, hi
<1>6. ASSUME NEW R, R \subseteq Merged, \A r \in R : r \notin S PROVE Undisturbed(R)
  <2>1. ASSUME NEW r \in R PROVE r \in Merged /\ r # ring /\ r \notin Rivals(ring)
    BY <1>3, <1>6
  <2>. QED
    BY <1>2, <1>4, <2>1 DEF Undisturbed
<1>7. ASSUME NEW k \in Node, k # n PROVE Undisturbed({"flow"} \X FlowsOf(k))
  <2>1. \A r \in {"flow"} \X FlowsOf(k) : r \notin S
    BY <1>7, FlowsApart
  <2>2. {"flow"} \X FlowsOf(k) \subseteq Merged
    BY FlowGroup
  <2>. QED
    BY <1>6, <2>1, <2>2
<1>8. Undisturbed({"node"} \X Node)
  <2>1. \A r \in {"node"} \X Node : r \notin S
    OBVIOUS
  <2>. QED
    BY <1>6, <2>1, NodeGroup
<1>. QED
  BY <1>5, <1>7, <1>8

LEMMA ServesNode ==
  ASSUME TInv, NEW ring \in {"node"} \X Node, NEW array \in Array, Dequeue(ring, array), Serve(ring)
  PROVE  /\ Served(inter_node, "node", 0, NODES, ring, passed, held, passed', held')
         /\ \A k \in Node : Undisturbed({"flow"} \X FlowsOf(k))
<1> DEFINE S == {"node"} \X Node
<1>1. ring \in Ring /\ ring \in Merged /\ S \subseteq Merged
  BY NodeGroup
<1>2. \A r \in Merged : r # ring => held'[r] = held[r]
  <2>1. \A c \in Holder \ {ring, array} : held'[c] = held[c]
    BY <1>1, DequeueHeld DEF TInv
  <2>2. \A r \in Merged : r # ring => r \in Holder \ {ring, array}
    BY RingsDiffer
  <2>. QED
    BY <2>1, <2>2
<1>3. \A r \in Rivals(ring) : r \in S /\ (inter_node = "SP" => SP_priority[r] < SP_priority[ring])
  BY NodeRivals
<1>4. /\ passed'[ring] = 0
      /\ \A r \in Merged : r # ring =>
           passed'[r] = IF r \in Rivals(ring) /\ held[r] # << >> THEN passed[r] + 1 ELSE passed[r]
  BY <1>1 DEF Serve
<1>5. Served(inter_node, "node", 0, NODES, ring, passed, held, passed', held')
  <2>1. Rings("node", 0, NODES) = S
    BY NodeGroup
  <2> HIDE DEF S
  <2>. QED
    BY <1>1, <1>2, <1>3, <1>4, <2>1 DEF Served
<1>6. ASSUME NEW k \in Node PROVE Undisturbed({"flow"} \X FlowsOf(k))
  <2>1. {"flow"} \X FlowsOf(k) \subseteq Merged
    BY FlowGroup
  <2>2. ASSUME NEW r \in {"flow"} \X FlowsOf(k) PROVE r \in Merged /\ r # ring /\ r \notin Rivals(ring)
    BY <1>3, <2>1
  <2>. QED
    BY <1>2, <1>4, <2>2 DEF Undisturbed
<1>. QED
  BY <1>5, <1>6

\* The operations on a group, for the flows of a node ...
LEMMA FlowsCall ==
  ASSUME NEW n \in Node, FlowsFair(n, FALSE, plan[n]), plan[n] = << >>, plan'[n] = IntraPlan(n),
         UNCHANGED <<held, passed>>
  PROVE  FlowsFair(n, FALSE, plan[n])'
<1> DEFINE lo == FLOWS * n
           hi == FLOWS * n + FLOWS
           pl == plan[n]
           pn == plan'[n]
<1>1. Sound(intra_node, "flow", lo, hi)
  BY FlowGroup
<1>2. FullPlan(intra_node, "flow", lo, hi, pn)
  BY IntraPlanFull
<1>3. Fair(intra_node, "flow", lo, hi, pl, FALSE, passed, held) /\ pl = << >>
  BY DEF FlowsFair
<1> HIDE DEF lo, hi, pl, pn
<1>4. Fair(intra_node, "flow", lo, hi, pn, FALSE, passed, held)
  BY <1>1, <1>2, <1>3, FairCall
<1>. QED
  BY <1>4 DEF FlowsFair, lo, hi, pn

LEMMA FlowsNext ==
  ASSUME NEW n \in Node, FlowsFair(n, FALSE, plan[n]), plan[n] # << >>, plan[n] \in NodePlans(n),
         held[Head(plan[n]).ring] = << >>, plan'[n] = Tail(plan[n]), UNCHANGED <<held, passed>>
  PROVE  FlowsFair(n, FALSE, plan[n])'
<1> DEFINE lo == FLOWS * n
           hi == FLOWS * n + FLOWS
           pl == plan[n]
           pn == plan'[n]
<1>1. Sound(intra_node, "flow", lo, hi)
  BY FlowGroup
<1>2. Fair(intra_node, "flow", lo, hi, pl, FALSE, passed, held) /\ pl # << >> /\ pn = Tail(pl)
  BY DEF FlowsFair
<1>3. held[pl[1].ring] = << >>
  <2>1. Head(pl) = pl[1]
    BY DEF NodePlans
  <2>. QED
    BY <2>1
<1> HIDE DEF lo, hi, pl, pn
<1>4. Fair(intra_node, "flow", lo, hi, pn, FALSE, passed, held)
  BY <1>1, <1>2, <1>3, FairNext
<1>. QED
  BY <1>4 DEF FlowsFair, lo, hi, pn

LEMMA FlowsTake ==
  ASSUME NEW n \in Node, FlowsFair(n, FALSE, plan[n]), plan[n] # << >>, plan[n] \in NodePlans(n),
         Served(intra_node, "flow", FLOWS * n, FLOWS * n + FLOWS, Head(plan[n]).ring, passed, held, passed', held'),
         plan'[n] = plan[n]
  PROVE  FlowsFair(n, TRUE, plan[n])'
<1> DEFINE lo == FLOWS * n
           hi == FLOWS * n + FLOWS
           pl == plan[n]
           pn == plan'[n]
<1>1. Sound(intra_node, "flow", lo, hi)
  BY FlowGroup
<1>2. Fair(intra_node, "flow", lo, hi, pl, FALSE, passed, held) /\ pl # << >> /\ pn = pl
  BY DEF FlowsFair
<1>3. Served(intra_node, "flow", lo, hi, pl[1].ring, passed, held, passed', held')
  <2>1. Head(pl) = pl[1]
    BY DEF NodePlans
  <2>. QED
    BY <2>1
<1> HIDE DEF lo, hi, pl, pn
<1>4. Fair(intra_node, "flow", lo, hi, pl, TRUE, passed', held')
  BY <1>1, <1>2, <1>3, FairTake
<1>. QED
  BY <1>2, <1>4 DEF FlowsFair, lo, hi, pn

LEMMA FlowsAfter ==
  ASSUME NEW n \in Node, FlowsFair(n, TRUE, plan[n]), plan'[n] = AfterPacket(intra_node, plan[n]),
         UNCHANGED passed, \A r \in {"flow"} \X FlowsOf(n) : held'[r] = held[r]
  PROVE  FlowsFair(n, FALSE, plan[n])'
<1> DEFINE lo == FLOWS * n
           hi == FLOWS * n + FLOWS
           pl == plan[n]
           pn == plan'[n]
<1>1. Sound(intra_node, "flow", lo, hi)
  BY FlowGroup
<1>2. Fair(intra_node, "flow", lo, hi, pl, TRUE, passed, held) /\ pn = AfterPacket(intra_node, pl)
  BY DEF FlowsFair
<1>3. \A r \in Rings("flow", lo, hi) : passed'[r] = passed[r] /\ (held[r] # << >> => held'[r] # << >>)
  BY FlowGroup
<1> HIDE DEF lo, hi, pl, pn
<1>4. Fair(intra_node, "flow", lo, hi, pn, FALSE, passed, held)
  BY <1>1, <1>2, FairAfter
<1>5. Fair(intra_node, "flow", lo, hi, pn, FALSE, passed', held')
  BY <1>1, <1>3, <1>4, FairStays
<1>. QED
  BY <1>5 DEF FlowsFair, lo, hi, pn

\* ... and for the nodes.
LEMMA NodesCall ==
  ASSUME NodesFair(FALSE, plan[Forwarding]), plan[Forwarding] = << >>, plan'[Forwarding] = InterPlan,
         UNCHANGED <<held, passed>>
  PROVE  NodesFair(FALSE, plan[Forwarding])'
<1> DEFINE pl == plan[Forwarding]
           pn == plan'[Forwarding]
<1>1. Sound(inter_node, "node", 0, NODES)
  BY NodeGroup
<1>2. FullPlan(inter_node, "node", 0, NODES, pn)
  BY InterPlanFull
<1>3. Fair(inter_node, "node", 0, NODES, pl, FALSE, passed, held) /\ pl = << >>
  BY DEF NodesFair
<1> HIDE DEF pl, pn
<1>4. Fair(inter_node, "node", 0, NODES, pn, FALSE, passed, held)
  BY <1>1, <1>2, <1>3, FairCall
<1>. QED
  BY <1>4 DEF NodesFair, pn

LEMMA NodesNext ==
  ASSUME NodesFair(FALSE, plan[Forwarding]), plan[Forwarding] # << >>, plan[Forwarding] \in FwdPlans,
         held[Head(plan[Forwarding]).ring] = << >>, plan'[Forwarding] = Tail(plan[Forwarding]),
         UNCHANGED <<held, passed>>
  PROVE  NodesFair(FALSE, plan[Forwarding])'
<1> DEFINE pl == plan[Forwarding]
           pn == plan'[Forwarding]
<1>1. Sound(inter_node, "node", 0, NODES)
  BY NodeGroup
<1>2. Fair(inter_node, "node", 0, NODES, pl, FALSE, passed, held) /\ pl # << >> /\ pn = Tail(pl)
  BY DEF NodesFair
<1>3. held[pl[1].ring] = << >>
  <2>1. Head(pl) = pl[1]
    BY DEF FwdPlans
  <2>. QED
    BY <2>1
<1> HIDE DEF pl, pn
<1>4. Fair(inter_node, "node", 0, NODES, pn, FALSE, passed, held)
  BY <1>1, <1>2, <1>3, FairNext
<1>. QED
  BY <1>4 DEF NodesFair, pn

LEMMA NodesTake ==
  ASSUME NodesFair(FALSE, plan[Forwarding]), plan[Forwarding] # << >>, plan[Forwarding] \in FwdPlans,
         Served(inter_node, "node", 0, NODES, Head(plan[Forwarding]).ring, passed, held, passed', held'),
         plan'[Forwarding] = plan[Forwarding]
  PROVE  NodesFair(TRUE, plan[Forwarding])'
<1> DEFINE pl == plan[Forwarding]
           pn == plan'[Forwarding]
<1>1. Sound(inter_node, "node", 0, NODES)
  BY NodeGroup
<1>2. Fair(inter_node, "node", 0, NODES, pl, FALSE, passed, held) /\ pl # << >> /\ pn = pl
  BY DEF NodesFair
<1>3. Served(inter_node, "node", 0, NODES, pl[1].ring, passed, held, passed', held')
  <2>1. Head(pl) = pl[1]
    BY DEF FwdPlans
  <2>. QED
    BY <2>1
<1> HIDE DEF pl, pn
<1>4. Fair(inter_node, "node", 0, NODES, pl, TRUE, passed', held')
  BY <1>1, <1>2, <1>3, FairTake
<1>. QED
  BY <1>2, <1>4 DEF NodesFair, pn

LEMMA NodesAfter ==
  ASSUME NodesFair(TRUE, plan[Forwarding]), plan'[Forwarding] = AfterPacket(inter_node, plan[Forwarding]),
         UNCHANGED <<held, passed>>
  PROVE  NodesFair(FALSE, plan[Forwarding])'
<1> DEFINE pl == plan[Forwarding]
           pn == plan'[Forwarding]
<1>1. Sound(inter_node, "node", 0, NODES)
  BY NodeGroup
<1>2. Fair(inter_node, "node", 0, NODES, pl, TRUE, passed, held) /\ pn = AfterPacket(inter_node, pl)
  BY DEF NodesFair
<1> HIDE DEF pl, pn
<1>3. Fair(inter_node, "node", 0, NODES, pn, FALSE, passed, held)
  BY <1>1, <1>2, FairAfter
<1>. QED
  BY <1>3 DEF NodesFair, pn

LEMMA FlowsSharedNext ==
  ASSUME NEW n \in Node
  PROVE  /\ held'[<<"node array", n>>] = << >> /\ FlowsFair(n, FALSE, plan[n])' => FlowsShared(n)'
         /\ held'[<<"node array", n>>] # << >> /\ FlowsFair(n, TRUE, plan[n])' => FlowsShared(n)'
<1> DEFINE b == held'[<<"node array", n>>] # << >>
<1>1. FlowsShared(n)' <=> Fair(intra_node, "flow", FLOWS * n, FLOWS * n + FLOWS, plan'[n], b, passed', held')
  BY DEF FlowsShared
<1>2. ASSUME held'[<<"node array", n>>] = << >> PROVE b = FALSE
  BY <1>2
<1>3. ASSUME held'[<<"node array", n>>] # << >> PROVE b = TRUE
  BY <1>3
<1> HIDE DEF b
<1>. QED
  BY <1>1, <1>2, <1>3 DEF FlowsFair

LEMMA NodesSharedNext ==
  /\ ~FwdBusy' /\ NodesFair(FALSE, plan[Forwarding])' => NodesShared'
  /\ FwdBusy' /\ NodesFair(TRUE, plan[Forwarding])' => NodesShared'
<1> DEFINE b == FwdBusy'
<1>1. NodesShared' <=> Fair(inter_node, "node", 0, NODES, plan'[Forwarding], b, passed', held')
  BY DEF NodesShared
<1>2. ASSUME ~FwdBusy' PROVE b = FALSE
  BY <1>2 DEF FwdBusy
<1>3. ASSUME FwdBusy' PROVE b = TRUE
  BY <1>3 DEF FwdBusy
<1> HIDE DEF b
<1>. QED
  BY <1>1, <1>2, <1>3 DEF NodesFair

\* One node's flows and array change, and nothing else that is merged.
LEMMA OneNode ==
  ASSUME Shared, NEW n \in Node, FlowsShared(n)', UNCHANGED fwd_count,
         held'[fwdArray] = held[fwdArray], plan'[Forwarding] = plan[Forwarding],
         Undisturbed({"node"} \X Node),
         \A k \in Node : k # n => /\ plan'[k] = plan[k]
                                  /\ held'[<<"node array", k>>] = held[<<"node array", k>>]
                                  /\ Undisturbed({"flow"} \X FlowsOf(k))
  PROVE  Shared'
<1>1. NodesShared'
  BY NodesStay DEF Shared
<1>2. ASSUME NEW k \in Node, k # n PROVE FlowsShared(k)'
  BY <1>2, FlowsStay DEF Shared
<1>. QED
  BY <1>1, <1>2 DEF Shared

LEMMA NodeShared ==
  ASSUME TInv, Shared, NEW n \in Node, NodeStep(n)
  PROVE  Shared'
<1> DEFINE array == <<"node array", n>>
<1>1. /\ array \in Array /\ fwdArray \in Array /\ fwdArray # array
      /\ \A k \in Node : <<"node array", k>> \in Array
      /\ \A k \in Node : k # n => <<"node array", k>> # array
  BY Holders, ArraysDiffer
<1>2. HeldType /\ PlanType /\ plan[n] \in NodePlans(n) /\ n \in 0 .. NODES
  BY Cores DEF TInv, PlanType
<1>3. /\ held[array] = << >> => FlowsFair(n, FALSE, plan[n])
      /\ held[array] # << >> => FlowsFair(n, TRUE, plan[n])
  BY FlowsSharedIs DEF Shared
<1>4. /\ held'[array] = << >> /\ FlowsFair(n, FALSE, plan[n])' => FlowsShared(n)'
      /\ held'[array] # << >> /\ FlowsFair(n, TRUE, plan[n])' => FlowsShared(n)'
  BY FlowsSharedNext
<1>5. ASSUME NEW q, plan' = [plan EXCEPT ![n] = q]
      PROVE  /\ plan'[n] = q /\ plan'[Forwarding] = plan[Forwarding]
             /\ \A k \in Node : k # n => plan'[k] = plan[k]
  BY <1>2, <1>5, PlanStep, Cores
<1>6. UNCHANGED fwd_count
  BY DEF NodeStep, NodeCall, NodeTry, NodePut
<1>7. ASSUME UNCHANGED <<held, passed>> PROVE \A R : Undisturbed(R)
  BY <1>7 DEF Undisturbed
<1>8. CASE NodeCall(n)
  <2>1. plan[n] = << >> /\ UNCHANGED <<held, passed>> /\ held[array] = << >>
    BY <1>8 DEF NodeCall, Loops
  <2>2. /\ plan'[n] = IntraPlan(n) /\ plan'[Forwarding] = plan[Forwarding]
        /\ \A k \in Node : k # n => plan'[k] = plan[k]
    BY <1>5, <1>8 DEF NodeCall
  <2>3. FlowsFair(n, FALSE, plan[n])'
    BY <1>3, <2>1, <2>2, FlowsCall
  <2>4. FlowsShared(n)'
    BY <1>4, <2>1, <2>3
  <2>. QED
    BY <1>6, <1>7, <2>1, <2>2, <2>4, OneNode
<1>9. CASE NodeTry(n)
  <2> DEFINE ring == Head(plan[n]).ring
  <2>1. /\ plan[n] # << >> /\ held[array] = << >>
        /\ ring \in {"flow"} \X FlowsOf(n) /\ ring \in Ring
    BY <1>9, PlanHead DEF NodeTry
  <2>2. CASE held[ring] = << >> /\ plan' = [plan EXCEPT ![n] = Tail(@)] /\ UNCHANGED <<held, passed>>
    <3>1. /\ plan'[n] = Tail(plan[n]) /\ plan'[Forwarding] = plan[Forwarding]
          /\ \A k \in Node : k # n => plan'[k] = plan[k]
      BY <1>5, <2>2
    <3>2. FlowsFair(n, FALSE, plan[n])'
      BY <1>2, <1>3, <2>1, <2>2, <3>1, FlowsNext
    <3>3. FlowsShared(n)'
      BY <1>4, <2>1, <2>2, <3>2
    <3>. QED
      BY <1>6, <1>7, <2>2, <3>1, <3>3, OneNode
  <2>3. CASE Dequeue(ring, array) /\ Serve(ring) /\ UNCHANGED plan
    <3> HIDE DEF ring, array
    <3>1. /\ Served(intra_node, "flow", FLOWS * n, FLOWS * n + FLOWS, ring, passed, held, passed', held')
          /\ \A k \in Node : k # n => Undisturbed({"flow"} \X FlowsOf(k))
          /\ Undisturbed({"node"} \X Node)
      BY <1>1, <2>1, <2>3, ServesFlow
    <3>2. held'[array] # << >> /\ \A c \in Array \ {array} : held'[c] = held[c]
      BY <1>1, <1>2, <2>1, <2>3, DequeueHeld
    <3>3. FlowsFair(n, TRUE, plan[n])'
      <4>1. FlowsFair(n, FALSE, plan[n]) /\ plan'[n] = plan[n]
        BY <1>3, <2>1, <2>3
      <4>. QED
        BY <1>2, <2>1, <3>1, <4>1, FlowsTake DEF ring
    <3>4. FlowsShared(n)'
      BY <1>4, <3>2, <3>3
    <3>5. /\ plan'[Forwarding] = plan[Forwarding] /\ held'[fwdArray] = held[fwdArray]
          /\ \A k \in Node : k # n => plan'[k] = plan[k]
      BY <1>1, <2>3, <3>2
    <3>6. \A k \in Node : k # n => held'[<<"node array", k>>] = held[<<"node array", k>>]
      BY <1>1, <3>2
    <3>. QED
      BY <1>6, <3>1, <3>4, <3>5, <3>6, OneNode
  <2>. QED
    BY <1>9, <2>2, <2>3 DEF NodeTry
<1>10. CASE NodePut(n)
  <2> DEFINE ring == <<"node", n>>
  <2>1. ring \in Ring /\ UNCHANGED passed
    BY <1>10, Holders DEF NodePut
  <2>2. Enqueue(array, ring)
    BY <1>10 DEF NodePut
  <2>3. ASSUME NEW k \in Node, NEW r \in {"flow"} \X FlowsOf(k)
        PROVE  r \in Holder \ {ring, array} /\ r \in Merged
    <3>1. r \in Merged /\ r # ring
      BY FlowGroup
    <3>. QED
      BY <1>1, <3>1, RingsDiffer
  <2> HIDE DEF ring, array
  <2>4. /\ held[array] # << >> /\ held'[array] = << >>
        /\ \A c \in Holder \ {ring, array} : held'[c] = held[c]
        /\ \A c \in Array \ {array} : held'[c] = held[c]
    BY <1>1, <1>2, <2>1, <2>2, EnqueueHeld
  <2>5. \A r \in Merged : held[r] # << >> => held'[r] # << >>
    BY <1>1, <1>2, <2>1, <2>2, EnqueueFills
  <2>6. /\ plan'[n] = AfterPacket(intra_node, plan[n]) /\ plan'[Forwarding] = plan[Forwarding]
        /\ \A k \in Node : k # n => plan'[k] = plan[k]
    BY <1>5, <1>10 DEF NodePut
  <2>7. FlowsFair(n, FALSE, plan[n])'
    <3>1. \A r \in {"flow"} \X FlowsOf(n) : held'[r] = held[r]
      BY <2>3, <2>4
    <3>. QED
      BY <1>3, <2>1, <2>4, <2>6, <3>1, FlowsAfter
  <2>8. FlowsShared(n)'
    BY <1>4, <2>4, <2>7
  <2>9. Undisturbed({"node"} \X Node) /\ \A k \in Node : Undisturbed({"flow"} \X FlowsOf(k))
    BY <2>1, <2>3, <2>5, NodeGroup DEF Undisturbed
  <2>. QED
    BY <1>1, <1>6, <2>4, <2>6, <2>8, <2>9, OneNode
<1>. QED
  BY <1>8, <1>9, <1>10 DEF NodeStep

\* The forwarder's plan, array and count change, and no flow's ring.
LEMMA OnlyForwarder ==
  ASSUME Shared, NodesShared', \A k \in Node : plan'[k] = plan[k],
         \A k \in Node : held'[<<"node array", k>>] = held[<<"node array", k>>],
         \A k \in Node : Undisturbed({"flow"} \X FlowsOf(k))
  PROVE  Shared'
<1>1. ASSUME NEW k \in Node PROVE FlowsShared(k)'
  BY FlowsStay DEF Shared
<1>. QED
  BY <1>1 DEF Shared

LEMMA FwdShared ==
  ASSUME TInv, Shared, FwdStep
  PROVE  Shared'
<1>1. fwdArray \in Array /\ \A k \in Node : <<"node array", k>> \in Array \ {fwdArray}
  BY Holders, ArraysDiffer
<1>2. HeldType /\ PlanType /\ plan[Forwarding] \in FwdPlans
  BY DEF TInv, PlanType
<1>3. /\ ~FwdBusy => NodesFair(FALSE, plan[Forwarding])
      /\ FwdBusy => NodesFair(TRUE, plan[Forwarding])
  BY NodesSharedIs DEF Shared
<1>4. ASSUME NEW q, plan' = [plan EXCEPT ![Forwarding] = q]
      PROVE  plan'[Forwarding] = q /\ \A k \in Node : plan'[k] = plan[k]
  BY <1>2, <1>4, PlanStep, Cores
<1>5. ASSUME UNCHANGED <<held, passed>> PROVE \A R : Undisturbed(R)
  BY <1>5 DEF Undisturbed
<1>6. CASE ForwardCall
  <2>1. plan[Forwarding] = << >> /\ UNCHANGED <<held, passed>> /\ ~FwdBusy /\ ~FwdBusy'
    BY <1>6 DEF ForwardCall, Loops, FwdBusy
  <2>2. plan'[Forwarding] = InterPlan /\ \A k \in Node : plan'[k] = plan[k]
    BY <1>4, <1>6 DEF ForwardCall
  <2>3. NodesFair(FALSE, plan[Forwarding])'
    BY <1>3, <2>1, <2>2, NodesCall
  <2>4. NodesShared'
    BY <2>1, <2>3, NodesSharedNext
  <2>. QED
    BY <1>5, <2>1, <2>2, <2>4, OnlyForwarder
<1>7. CASE ForwardTry
  <2> DEFINE ring == Head(plan[Forwarding]).ring
  <2>1. /\ plan[Forwarding] # << >> /\ held[fwdArray] = << >> /\ ~FwdBusy /\ UNCHANGED fwd_count
        /\ ring \in {"node"} \X Node /\ ring \in Ring
    BY <1>7, PlanHead DEF ForwardTry, FwdBusy
  <2>2. CASE held[ring] = << >> /\ plan' = [plan EXCEPT ![Forwarding] = Tail(@)] /\ UNCHANGED <<held, passed>>
    <3>1. plan'[Forwarding] = Tail(plan[Forwarding]) /\ \A k \in Node : plan'[k] = plan[k]
      BY <1>4, <2>2
    <3>2. NodesFair(FALSE, plan[Forwarding])'
      BY <1>2, <1>3, <2>1, <2>2, <3>1, NodesNext
    <3>3. ~FwdBusy'
      BY <2>1, <2>2 DEF FwdBusy
    <3>4. NodesShared'
      BY <3>2, <3>3, NodesSharedNext
    <3>. QED
      BY <1>5, <2>2, <3>1, <3>4, OnlyForwarder
  <2>3. CASE Dequeue(ring, fwdArray) /\ Serve(ring) /\ UNCHANGED plan
    <3> HIDE DEF ring
    <3>1. /\ Served(inter_node, "node", 0, NODES, ring, passed, held, passed', held')
          /\ \A k \in Node : Undisturbed({"flow"} \X FlowsOf(k))
      BY <1>1, <2>1, <2>3, ServesNode
    <3>2. held'[fwdArray] # << >> /\ \A c \in Array \ {fwdArray} : held'[c] = held[c]
      BY <1>1, <1>2, <2>1, <2>3, DequeueHeld
    <3>3. NodesFair(TRUE, plan[Forwarding])'
      <4>1. NodesFair(FALSE, plan[Forwarding]) /\ plan'[Forwarding] = plan[Forwarding]
        BY <1>3, <2>1, <2>3
      <4>. QED
        BY <1>2, <2>1, <3>1, <4>1, NodesTake DEF ring
    <3>4. FwdBusy'
      BY <3>2 DEF FwdBusy
    <3>5. NodesShared'
      BY <3>3, <3>4, NodesSharedNext
    <3>6. \A k \in Node : plan'[k] = plan[k]
      BY <2>3
    <3>7. \A k \in Node : held'[<<"node array", k>>] = held[<<"node array", k>>]
      BY <1>1, <3>2
    <3>. QED
      BY <3>1, <3>5, <3>6, <3>7, OnlyForwarder
  <2>. QED
    BY <1>7, <2>2, <2>3 DEF ForwardTry
<1>8. CASE ForwardTx
  <2> DEFINE ring == <<"tx", DefaultPort>>
  <2>1. ring \in Ring /\ ring \notin Merged /\ UNCHANGED <<plan, passed>> /\ fwd_count' # NoCount
    <3>1. DefaultPort \in Port /\ DefaultPort # NoPort
      BY PortAssumption DEF Port, NoPort
    <3>2. UNCHANGED <<plan, passed>> /\ fwd_count'.port = DefaultPort /\ NoCount.port = NoPort
      BY <1>8 DEF ForwardTx, Handed, NoCount
    <3>3. ring \in Ring /\ ring \notin Merged
      BY <3>1, Holders, RingsDiffer
    <3>. QED
      BY <3>1, <3>2, <3>3
  <2>2. Enqueue(fwdArray, ring)
    BY <1>8 DEF ForwardTx
  <2> HIDE DEF ring
  <2>3. held[fwdArray] # << >> /\ \A c \in Array \ {fwdArray} : held'[c] = held[c]
    BY <1>1, <1>2, <2>1, <2>2, EnqueueHeld
  <2>4. \A r \in Merged : held[r] # << >> => held'[r] # << >>
    BY <1>1, <1>2, <2>1, <2>2, EnqueueFills
  <2>5. Undisturbed({"node"} \X Node)
    BY <2>1, <2>4, NodeGroup DEF Undisturbed
  <2>6. ASSUME NEW k \in Node PROVE Undisturbed({"flow"} \X FlowsOf(k))
    BY <2>1, <2>4, FlowGroup DEF Undisturbed
  <2>7. FwdBusy /\ FwdBusy'
    BY <2>1, <2>3 DEF FwdBusy
  <2>8. NodesFair(TRUE, plan[Forwarding])'
    <3> DEFINE pl == plan[Forwarding]
    <3>1. Fair(inter_node, "node", 0, NODES, pl, TRUE, passed, held) /\ plan'[Forwarding] = pl
      BY <1>3, <2>1, <2>7 DEF NodesFair
    <3>2. \A r \in Rings("node", 0, NODES) : passed'[r] = passed[r] /\ (held[r] # << >> => held'[r] # << >>)
      BY <2>5, NodeGroup DEF Undisturbed
    <3>3. Sound(inter_node, "node", 0, NODES)
      BY NodeGroup
    <3> HIDE DEF pl
    <3>4. Fair(inter_node, "node", 0, NODES, pl, TRUE, passed', held')
      BY <3>1, <3>2, <3>3, FairStays
    <3>. QED
      BY <3>1, <3>4 DEF NodesFair
  <2>9. NodesShared'
    BY <2>7, <2>8, NodesSharedNext
  <2>10. \A k \in Node : held'[<<"node array", k>>] = held[<<"node array", k>>]
    BY <1>1, <2>3
  <2>11. \A k \in Node : plan'[k] = plan[k]
    BY <2>1
  <2>. QED
    BY <2>6, <2>9, <2>10, <2>11, OnlyForwarder
<1>9. CASE ForwardCount
  <2>1. fwd_count # NoCount /\ fwd_count' = NoCount /\ UNCHANGED <<held, passed>>
    BY <1>9 DEF ForwardCount
  <2>2. FwdBusy /\ ~FwdBusy'
    BY <2>1 DEF TInv, ArraysOK, FwdBusy
  <2>3. plan'[Forwarding] = AfterPacket(inter_node, plan[Forwarding]) /\ \A k \in Node : plan'[k] = plan[k]
    BY <1>4, <1>9 DEF ForwardCount
  <2>4. NodesFair(FALSE, plan[Forwarding])'
    BY <1>3, <2>1, <2>2, <2>3, NodesAfter
  <2>5. NodesShared'
    BY <2>2, <2>4, NodesSharedNext
  <2>. QED
    BY <1>5, <2>1, <2>3, <2>5, OnlyForwarder
<1>. QED
  BY <1>6, <1>7, <1>8, <1>9 DEF FwdStep

-----------------------------------------------------------------------------
LEMMA InitShared == Init => Shared
<1> SUFFICES ASSUME Init PROVE Shared
  OBVIOUS
<1>1. \A r \in Merged : passed[r] = 0
  BY DEF Init
<1>2. NodesShared
  <2>1. plan[Forwarding] = << >>
    BY Cores DEF Init
  <2>2. ~FwdBusy
    BY Holders DEF Init, FwdBusy
  <2>3. Sound(inter_node, "node", 0, NODES) /\ \A r \in Rings("node", 0, NODES) : passed[r] = 0
    BY <1>1, NodeGroup
  <2>4. NodesFair(FALSE, plan[Forwarding])
    BY <2>1, <2>3, FairInit DEF NodesFair
  <2>. QED
    BY <2>2, <2>4, NodesSharedIs
<1>3. ASSUME NEW n \in Node PROVE FlowsShared(n)
  <2> DEFINE lo == FLOWS * n
             hi == FLOWS * n + FLOWS
             pl == plan[n]
  <2>1. pl = << >>
    BY Cores DEF Init
  <2>2. held[<<"node array", n>>] = << >>
    BY Holders DEF Init
  <2>3. Sound(intra_node, "flow", lo, hi)
    BY FlowGroup
  <2>4. \A r \in Rings("flow", lo, hi) : passed[r] = 0
    BY <1>1, FlowGroup
  <2> HIDE DEF lo, hi, pl
  <2>5. Fair(intra_node, "flow", lo, hi, pl, FALSE, passed, held)
    BY <2>1, <2>3, <2>4, FairInit
  <2>6. FlowsFair(n, FALSE, plan[n])
    BY <2>5 DEF FlowsFair, lo, hi, pl
  <2>. QED
    BY <2>2, <2>6, FlowsSharedIs
<1>. QED
  BY <1>2, <1>3 DEF Shared

LEMMA NextShared == TInv /\ Shared /\ [Next]_vars => Shared'
<1> SUFFICES ASSUME TInv, Shared, [Next]_vars PROVE Shared'
  OBVIOUS
<1>1. CASE RxStep
  BY <1>1, RxShared
<1>2. CASE R2fStep
  BY <1>2, R2fShared
<1>3. CASE FwdStep
  BY <1>3, FwdShared
<1>4. CASE \E n \in Node : NodeStep(n)
  BY <1>4, NodeShared
<1>5. CASE \E p \in Port : TxStep(p)
  BY <1>5, TxShared
<1>6. CASE signal_handler \/ UNCHANGED vars
  <2>1. UNCHANGED <<plan, passed, fwd_count, held>>
    BY <1>6 DEF signal_handler, vars, loopVars
  <2>. QED
    BY <2>1, OtherCores
<1>. QED
  BY <1>1, <1>2, <1>3, <1>4, <1>5, <1>6 DEF Next

\* What the invariant says of a ring.
LEMMA FairSP ==
  ASSUME NEW K, NEW lo, NEW hi, NEW pl, NEW b, NEW pa, NEW hd,
         Fair("SP", K, lo, hi, pl, b, pa, hd), NEW r \in Rings(K, lo, hi)
  PROVE  pa[r] <= 1
<1>1. pa[r] \in 0 .. 1
  BY DEF Fair, SpInv, SpOwed
<1>. QED
  BY <1>1

LEMMA FairWFQ ==
  ASSUME NEW K, NEW lo, NEW hi, Sound("WFQ", K, lo, hi), NEW pl, NEW b, NEW pa, NEW hd,
         Fair("WFQ", K, lo, hi, pl, b, pa, hd), NEW r \in Rings(K, lo, hi), NEW Q, Q = Rings(K, lo, hi) \ {r}
  PROVE  pa[r] <= (CHOOSE g : SumDef(Q, WFQ_weight, g))[Q]
<1>1. PICK k \in lo .. hi - 1 : r = <<K, k>>
  BY DEF Rings
<1> DEFINE q == hi - Len(pl)
           t == Left(pl, b)
           u == Budget(Q, q, t, k)
<1>2. Q = Others(K, lo, hi, k)
  BY <1>1 DEF Others
<1>3. Round(K, lo, hi, q, t)
  BY WfqRound DEF Fair, Sound, WfqInv
<1>4. pa[r] \in Nat /\ Fits(Q, u, WFQ_weight, pa[r])
  BY <1>1, <1>2 DEF Fair, WfqInv, Owed, Within
<1>5. \A x \in Q : u[x] \in Nat
  BY <1>2, <1>3, BudgetType
<1>6. \A x \in Q : WFQ_weight[x] \in Nat
  BY <1>2, <1>3, BudgetType
<1>7. IsFiniteSet(Q)
  <2>1. lo \in Nat /\ hi \in Nat
    BY DEF Sound
  <2>2. IsFiniteSet(Others(K, lo, hi, k))
    BY <2>1, OthersAre
  <2>. QED
    BY <1>2, <2>2
<1> HIDE DEF u
<1>. QED
  BY <1>4, <1>5, <1>6, <1>7, FitsBound

LEMMA MostPassedIs ==
  ASSUME NEW ring, NEW Q, Q = Rivals(ring)
  PROVE  MostPassed(ring) = IF policy(ring) = "WFQ" THEN (CHOOSE g : SumDef(Q, WFQ_weight, g))[Q] ELSE 1
  BY DEF MostPassed, SumDef, Pick

LEMMA SharedMeans == Shared => SharesKept
<1> SUFFICES ASSUME Shared, NEW ring \in Merged, policy(ring) # "pFabric"
             PROVE  passed[ring] <= MostPassed(ring)
  BY DEF SharesKept
<1> DEFINE Q == Rivals(ring)
<1>1. MostPassed(ring) = IF policy(ring) = "WFQ" THEN (CHOOSE g : SumDef(Q, WFQ_weight, g))[Q] ELSE 1
  BY MostPassedIs
<1>2. CASE ring \in {"node"} \X Node
  <2>1. /\ policy(ring) = inter_node /\ inter_node \in {"SP", "WFQ"}
        /\ inter_node = "WFQ" => Q = Rings("node", 0, NODES) \ {ring}
    BY <1>2, NodeRivals, NodeGroup, PolicyAssumption
  <2> DEFINE pl == plan[Forwarding]
             b == FwdBusy
  <2>2. Fair(inter_node, "node", 0, NODES, pl, b, passed, held)
    BY DEF Shared, NodesShared
  <2>3. Sound(inter_node, "node", 0, NODES) /\ ring \in Rings("node", 0, NODES)
    BY <1>2, NodeGroup
  <2> HIDE DEF Q, pl, b
  <2>4. CASE inter_node = "WFQ"
    <3>1. passed[ring] <= (CHOOSE g : SumDef(Q, WFQ_weight, g))[Q]
      BY <2>1, <2>2, <2>3, <2>4, FairWFQ
    <3>. QED
      BY <1>1, <2>1, <2>4, <3>1
  <2>5. CASE inter_node = "SP"
    <3>1. passed[ring] <= 1
      BY <2>2, <2>3, <2>5, FairSP
    <3>. QED
      BY <1>1, <2>1, <2>5, <3>1
  <2>. QED
    BY <2>1, <2>4, <2>5
<1>3. ASSUME NEW n \in Node, ring \in {"flow"} \X FlowsOf(n)
      PROVE  passed[ring] <= MostPassed(ring)
  <2> DEFINE lo == FLOWS * n
             hi == FLOWS * n + FLOWS
             pl == plan[n]
             b == held[<<"node array", n>>] # << >>
  <2>1. policy(ring) = intra_node /\ (intra_node = "WFQ" => Q = Rings("flow", lo, hi) \ {ring})
    BY <1>3, FlowRivals, FlowGroup
  <2>2. Fair(intra_node, "flow", lo, hi, pl, b, passed, held)
    BY DEF Shared, FlowsShared
  <2>3. Sound(intra_node, "flow", lo, hi) /\ ring \in Rings("flow", lo, hi)
    BY <1>3, FlowGroup
  <2> HIDE DEF Q, lo, hi, pl, b
  <2>4. CASE intra_node = "WFQ"
    <3>1. passed[ring] <= (CHOOSE g : SumDef(Q, WFQ_weight, g))[Q]
      BY <2>1, <2>2, <2>3, <2>4, FairWFQ
    <3>. QED
      BY <1>1, <2>1, <2>4, <3>1
  <2>5. CASE intra_node = "SP"
    <3>1. passed[ring] <= 1
      BY <2>2, <2>3, <2>5, FairSP
    <3>. QED
      BY <1>1, <2>1, <2>5, <3>1
  <2>. QED
    BY <2>1, <2>4, <2>5, PolicyAssumption
<1>4. ASSUME ring \notin {"node"} \X Node
      PROVE  \E n \in Node : ring \in {"flow"} \X FlowsOf(n)
  <2>1. PICK f \in Flow : ring = <<"flow", f>>
    BY <1>4 DEF Merged
  <2>2. PICK n \in Node : f \in FlowsOf(n)
    BY FlowHasNode
  <2>. QED
    BY <2>1, <2>2
<1>. QED
  BY <1>2, <1>3, <1>4

\* SharesKept: whatever the policies, the weights and the interleaving, a ring
\* with a packet is passed over at most once under strict priority, and under
\* WFQ at most as often as the weights of the other rings of its group add up to.
THEOREM SharesAreKept == Spec => []SharesKept
<1>1. Init => TInv /\ Shared
  BY InitTInv, InitShared
<1>2. (TInv /\ Shared) /\ [Next]_vars => (TInv /\ Shared)'
  BY NextTInv, NextShared
<1>. QED
  BY <1>1, <1>2, SharedMeans, PTL DEF Spec
=============================================================================
