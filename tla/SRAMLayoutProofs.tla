-------------------------- MODULE SRAMLayoutProofs --------------------------
(***************************************************************************)
(* For any number of SRAMs, any forest and any depths: the layout never    *)
(* gives two levels the same address, the table and the formula of the     *)
(* hardware agree on full forests, and the table as it is written gives    *)
(* every level back.                                                       *)
(***************************************************************************)
EXTENDS SRAMTable, ArithmeticLemmas

\* Everything placed in an SRAM ends where its free room begins.
Packed == \A e \in DOMAIN start_addr_dict :
            LET p == start_addr_dict[e]
            IN  p.addr + p.size <= start_addr[p.sram]

IInv == TypeOK /\ Packed /\ LayoutDisjoint

\* The SRAM a level is placed in exists.
LEMMA SRAMIdInRange ==
  ASSUME NEW t \in Tree, NEW l \in Nat PROVE SRAM_id(t, l) \in SRAM
BY SRAMNumAssumption DEF SRAM_id, SRAM, Tree

\* The loops start in the invariant.
LEMMA InitHolds == Init => IInv
BY SRAMNumAssumption, ForestsAssumption
   DEF Init, IInv, TypeOK, Packed, LayoutDisjoint, Tree, Level, SRAM

\* Placing a level keeps the invariant: it begins where its SRAM was free.
LEMMA PlacePreserves == IInv /\ PlaceLevel => IInv'
<1> SUFFICES ASSUME IInv, PlaceLevel PROVE IInv'
  OBVIOUS
<1> DEFINE s == SRAM_id(tree_id, i)
           new == <<tree_id, i>>
           entry == [sram |-> s, addr |-> start_addr[s], size |-> cur_level_size]
<1>1. /\ tree_id \in Tree /\ i \in 0 .. SRAM_NUM - 1 /\ i' = i + 1
      /\ i \in Nat /\ i < depth[tree_id] /\ depth[tree_id] \in 0 .. SRAM_NUM
  BY SRAMNumAssumption DEF PlaceLevel, MoreLevels, IInv, TypeOK
<1>2. s \in SRAM
  BY <1>1, SRAMIdInRange
<1>3. /\ start_addr \in [SRAM -> Nat] /\ cur_level_size \in Nat \ {0}
      /\ start_addr' = [start_addr EXCEPT ![s] = @ + cur_level_size]
      /\ cur_level_size' = cur_level_size * 2
      /\ depth' = depth /\ tree_id' = tree_id
  BY DEF IInv, TypeOK, PlaceLevel, Reserve, Grow, DEGREE
<1>4. /\ DOMAIN start_addr_dict' = DOMAIN start_addr_dict \cup {new}
      /\ start_addr_dict'[new] = entry
      /\ \A e \in DOMAIN start_addr_dict :
           e # new => start_addr_dict'[e] = start_addr_dict[e]
      /\ start_addr_dict' = [e \in DOMAIN start_addr_dict' |-> start_addr_dict'[e]]
  BY DEF PlaceLevel
<1>5. \A e \in DOMAIN start_addr_dict :
        start_addr_dict[e] \in [sram : SRAM, addr : Nat, size : Nat \ {0}]
  BY DEF IInv, TypeOK
<1>6. entry \in [sram : SRAM, addr : Nat, size : Nat \ {0}]
  BY <1>2, <1>3
<1> HIDE DEF s, new
<1>7. /\ start_addr'[s] = start_addr[s] + cur_level_size
      /\ \A r \in SRAM : start_addr'[r] >= start_addr[r]
  BY <1>2, <1>3
<1>8. TypeOK'
  <2>1. (depth \in [Tree -> 0 .. SRAM_NUM])'
    BY <1>3 DEF IInv, TypeOK
  <2>2. (tree_id \in 0 .. MaxTree + 1 /\ i \in 0 .. SRAM_NUM)'
    BY <1>1, <1>3, SRAMNumAssumption DEF IInv, TypeOK
  <2>3. (cur_level_size \in Nat \ {0} /\ start_addr \in [SRAM -> Nat])'
    BY <1>2, <1>3
  <2>4. \A e \in DOMAIN start_addr_dict' :
          start_addr_dict'[e] \in [sram : SRAM, addr : Nat, size : Nat \ {0}]
    BY <1>4, <1>5, <1>6
  <2>5. start_addr_dict' \in
          [DOMAIN start_addr_dict' -> [sram : SRAM, addr : Nat, size : Nat \ {0}]]
    BY <1>4, <2>4
  <2>6. DOMAIN start_addr_dict' \subseteq Tree \X Level
    BY <1>1, <1>4 DEF IInv, TypeOK, Level, new
  <2>. QED
    BY <2>1, <2>2, <2>3, <2>5, <2>6 DEF TypeOK
<1>9. Packed'
  <2>. SUFFICES ASSUME NEW e \in DOMAIN start_addr_dict'
                PROVE start_addr_dict'[e].addr + start_addr_dict'[e].size
                        <= start_addr'[start_addr_dict'[e].sram]
    BY DEF Packed
  <2>1. CASE e = new
    BY <2>1, <1>2, <1>3, <1>4, <1>7
  <2>2. CASE e # new
    <3>1. e \in DOMAIN start_addr_dict /\ start_addr_dict'[e] = start_addr_dict[e]
      BY <2>2, <1>4
    <3>2. start_addr_dict[e].addr + start_addr_dict[e].size
            <= start_addr[start_addr_dict[e].sram]
      BY <3>1 DEF IInv, Packed
    <3>. QED
      BY <3>1, <3>2, <1>3, <1>5, <1>7
  <2>. QED
    BY <2>1, <2>2
<1>10. LayoutDisjoint'
  <2>1. ASSUME NEW d \in DOMAIN start_addr_dict, d # new
        PROVE Apart(start_addr_dict[d], entry) /\ Apart(entry, start_addr_dict[d])
    <3>1. start_addr_dict[d].addr + start_addr_dict[d].size
            <= start_addr[start_addr_dict[d].sram]
      BY <2>1 DEF IInv, Packed
    <3>. QED
      BY <3>1, <1>2, <1>3, <1>5 DEF Apart
  <2>. SUFFICES ASSUME NEW d \in DOMAIN start_addr_dict',
                       NEW e \in DOMAIN start_addr_dict', d # e
                PROVE Apart(start_addr_dict'[d], start_addr_dict'[e])
    BY DEF LayoutDisjoint, Apart
  <2> HIDE DEF entry
  <2>2. CASE d = new
    BY <2>1, <2>2, <1>4
  <2>3. CASE e = new
    BY <2>1, <2>3, <1>4
  <2>4. CASE d # new /\ e # new
    BY <2>4, <1>4 DEF IInv, LayoutDisjoint
  <2>. QED
    BY <2>2, <2>3, <2>4
<1>. QED
  BY <1>8, <1>9, <1>10 DEF IInv

\* Going on to the next tree keeps the invariant.
LEMMA NextTreePreserves == IInv /\ NextTree => IInv'
<1> SUFFICES ASSUME IInv, NextTree PROVE IInv'
  OBVIOUS
<1>1. TypeOK'
  BY SRAMNumAssumption DEF IInv, TypeOK, NextTree, Tree
<1>2. Packed' /\ LayoutDisjoint'
  BY DEF IInv, NextTree, Packed, LayoutDisjoint, Apart
<1>. QED
  BY <1>1, <1>2 DEF IInv

(* The script's tables stay well-formed and no two levels of any trees     *)
(* share an address, for every number of SRAMs and every forest (the loop  *)
(* of gen_SRAM_layout.py).                                                 *)
THEOREM LayoutIsDisjoint == Spec => [](TypeOK /\ LayoutDisjoint)
<1>1. IInv /\ UNCHANGED vars => IInv'
  BY DEF IInv, vars, TypeOK, Packed, LayoutDisjoint, Apart
<1>2. IInv /\ [Next]_vars => IInv'
  BY <1>1, PlacePreserves, NextTreePreserves DEF Next
<1>3. IInv => TypeOK /\ LayoutDisjoint
  BY DEF IInv
<1>. QED
  BY InitHolds, <1>2, <1>3, PTL DEF Spec

-----------------------------------------------------------------------------
(* Table and formula agree.  The formula of PIFO_SRAM.sv for any tree, in  *)
(* the input or not.                                                       *)
N == SRAM_NUM

Off(t, l) == (t \div N) * (2 ^ N - 1) + RPUs!lo(l)[t % N]

\* The loop of the formula is a loop of the arithmetic lemmas.
LEMMA LoIsLoop == \A l \in Level : LoopDef(N, l, RPUs!lo(l))
<1> SUFFICES ASSUME NEW l \in Level PROVE LoopDef(N, l, RPUs!lo(l))
  OBVIOUS
<1>1. N \in Nat \ {0} /\ l \in 0 .. N - 1
  BY SRAMNumAssumption DEF N, Level
<1>2. RPUs!lo(l) = CHOOSE f : LoopDef(N, l, f)
  BY DEF RPUs!lo, LoopDef, N
<1>3. \E f : LoopDef(N, l, f)
  BY <1>1, LoopExists
<1>. QED
  BY <1>2, <1>3

\* The formula yields numbers.
LEMMA OffIsInt == \A t \in Nat, l \in Level : Off(t, l) \in Int
<1> SUFFICES ASSUME NEW t \in Nat, NEW l \in Level PROVE Off(t, l) \in Int
  OBVIOUS
<1>1. N \in Nat \ {0} /\ l \in 0 .. N - 1
  BY SRAMNumAssumption DEF N, Level
<1>2. LoopDef(N, l, RPUs!lo(l)) /\ t % N \in 0 .. N - 1 /\ t \div N \in Int
  BY <1>1, LoIsLoop
<1>3. RPUs!lo(l)[t % N] \in Nat /\ 2 ^ N - 1 \in Int
  BY <1>1, <1>2, LoopValue, PowerSucc
<1>. QED
  BY <1>2, <1>3 DEF Off

\* The place for a level of the next tree is behind the level that the tree
\* before has in the same SRAM.
LEMMA OffNext ==
  ASSUME NEW t \in Nat, NEW l \in Level
  PROVE  /\ (l + 1) % N \in Level
         /\ SRAM_id(t + 1, l) = SRAM_id(t, (l + 1) % N)
         /\ Off(t + 1, l) = Off(t, (l + 1) % N) + 2 ^ ((l + 1) % N)
<1> DEFINE m == (l + 1) % N
           k == t % N
           h == t \div N
           w == 2 ^ N - 1
<1>1. N \in Nat \ {0} /\ l \in 0 .. N - 1 /\ Level = 0 .. N - 1
  BY SRAMNumAssumption DEF N, Level
<1>2. /\ m \in 0 .. N - 1
      /\ l < N - 1 => m = l + 1
      /\ l = N - 1 => m = 0
  BY <1>1, ModSmall
<1>3. SRAM_id(t + 1, l) = SRAM_id(t, m)
  <2>1. CASE l < N - 1
    BY <1>1, <1>2, <2>1 DEF SRAM_id
  <2>2. CASE l = N - 1
    <3>1. t = N * h + k /\ h \in Nat /\ k \in 0 .. N - 1
      BY <1>1, DivMod
    <3>2. (N * (h + 1) + k) % N = k
      BY <1>1, <3>1, h + 1 \in Nat, DivModUnique
    <3>3. (t + 1) + l = N * (h + 1) + k /\ t + m = t
      BY <1>1, <1>2, <2>2, <3>1
    <3>. QED
      BY <3>2, <3>3 DEF SRAM_id, N
  <2>. QED
    BY <1>1, <2>1, <2>2
<1>4. /\ k < N - 1 => (t + 1) % N = k + 1 /\ (t + 1) \div N = h
      /\ k = N - 1 => (t + 1) % N = 0 /\ (t + 1) \div N = h + 1
      /\ k \in 0 .. N - 1 /\ h \in Nat
  BY <1>1, ModSucc, DivMod
<1>5. LoopDef(N, l, RPUs!lo(l)) /\ LoopDef(N, m, RPUs!lo(m))
  BY <1>1, <1>2, LoIsLoop
<1>6. /\ \A j \in 0 .. N - 2 : RPUs!lo(l)[j + 1] = RPUs!lo(m)[j] + 2 ^ m
      /\ RPUs!lo(m)[N - 1] + 2 ^ m = w
      /\ RPUs!lo(l)[0] = 0
  BY <1>1, <1>5, LoopShift
<1>7. RPUs!lo(m)[k] \in Nat /\ 2 ^ m \in Nat /\ w \in Nat
  BY <1>1, <1>2, <1>4, <1>5, LoopValue, PowerSucc
<1> HIDE DEF m, k, h, w
<1>8. Off(t, m) = h * w + RPUs!lo(m)[k]
  BY DEF Off, k, h, w
<1>9. Off(t + 1, l) = ((t + 1) \div N) * w + RPUs!lo(l)[(t + 1) % N]
  BY DEF Off, w
<1>10. Off(t + 1, l) = Off(t, m) + 2 ^ m
  <2>1. h * w \in Nat /\ (h + 1) * w = h * w + w
    BY <1>4, <1>7
  <2>2. CASE k < N - 1
    <3>1. RPUs!lo(l)[k + 1] = RPUs!lo(m)[k] + 2 ^ m
      BY <1>1, <1>4, <1>6, <2>2
    <3>. QED
      BY <1>4, <1>7, <1>8, <1>9, <2>1, <2>2, <3>1
  <2>3. CASE k = N - 1
    BY <1>4, <1>6, <1>7, <1>8, <1>9, <2>1, <2>3
  <2>. QED
    BY <1>1, <1>4, <2>2, <2>3
<1>. QED
  BY <1>1, <1>2, <1>3, <1>10 DEF m

\* The levels of a tree go to different SRAMs.
LEMMA LevelsApart ==
  ASSUME NEW t \in Nat, NEW l \in Level, NEW m \in Level, SRAM_id(t, l) = SRAM_id(t, m)
  PROVE  l = m
<1>1. N \in Nat \ {0} /\ l \in 0 .. N - 1 /\ m \in 0 .. N - 1
  BY SRAMNumAssumption DEF N, Level
<1> DEFINE a == (t + l) \div N
           b == (t + m) \div N
           r == (t + l) % N
<1>2. t + l = N * a + r /\ t + m = N * b + r /\ a \in Nat /\ b \in Nat /\ r \in Nat
  <2>1. t + l \in Nat /\ t + m \in Nat /\ (t + m) % N = r
    BY <1>1 DEF SRAM_id, N
  <2>2. \A x \in Nat : x = N * (x \div N) + (x % N) /\ x \div N \in Nat /\ x % N \in Nat
    <3>1. \A x \in Nat : x % N \in 0 .. N - 1 => x % N \in Nat
      BY <1>1
    <3>. QED
      BY <1>1, <3>1, DivMod
  <2>. QED
    BY <2>1, <2>2
<1> HIDE DEF a, b, r
<1>3. a = b
  <2>1. \A x, y \in Nat : x > y => N * x >= N * y + N
    <3> SUFFICES ASSUME NEW x \in Nat, NEW y \in Nat, x > y PROVE N * x >= N * y + N
      OBVIOUS
    <3>1. N * x = N * y + N * (x - y) /\ x - y >= 1 /\ x - y \in Nat
      BY <1>1
    <3>2. N * (x - y) >= N
      BY <1>1, <3>1
    <3>. QED
      BY <1>1, <3>1, <3>2
  <2>2. N * a \in Nat /\ N * b \in Nat
    BY <1>1, <1>2
  <2>. QED
    BY <1>1, <1>2, <2>1, <2>2
<1>. QED
  BY <1>1, <1>2, <1>3

\* All trees so far were full, or the input has ended.
FullSoFar == \A t \in 0 .. tree_id - 1 : depth[t] = N
Ended     == tree_id > 0 /\ depth[tree_id - 1] = 0

\* While all trees are full, an SRAM is filled up to the place of the level
\* that the current tree has in it, or past that level once it is placed.
FilledAsComputed ==
  \A l \in Level : start_addr[SRAM_id(tree_id, l)]
                     = Off(tree_id, l) + (IF l < i THEN 2 ^ l ELSE 0)

AgreeInv == FullForest => /\ FullSoFar \/ Ended
                          /\ FullSoFar => FilledAsComputed
                          /\ HardwareAgrees

TableInv == IInv /\ cur_level_size = 2 ^ i /\ AgreeInv

\* An empty table agrees with everything.
LEMMA InitAgrees == Init => TableInv
<1> SUFFICES ASSUME Init PROVE TableInv
  OBVIOUS
<1>1. IInv
  BY InitHolds
<1>2. cur_level_size = 2 ^ i
  BY PowerZero DEF Init
<1>3. FullSoFar /\ HardwareAgrees
  BY DEF Init, FullSoFar, HardwareAgrees
<1>4. FilledAsComputed
  <2> SUFFICES ASSUME NEW l \in Level PROVE start_addr[SRAM_id(0, l)] = Off(0, l)
    <3>1. \A l \in Level : ~(l < 0)
      BY SRAMNumAssumption DEF Level
    <3>2. \A l \in Level : Off(0, l) \in Int
      BY OffIsInt
    <3>. QED
      BY <3>1, <3>2 DEF FilledAsComputed, Init
  <2>1. N \in Nat \ {0} /\ l \in 0 .. N - 1 /\ 0 \in Tree
    BY SRAMNumAssumption DEF N, Level, Tree
  <2>2. SRAM_id(0, l) \in SRAM
    BY <2>1, SRAMIdInRange
  <2>3. 0 % N = 0 /\ 0 \div N = 0 /\ 2 ^ N - 1 \in Int
    BY <2>1, PowerSucc
  <2>4. RPUs!lo(l)[0] = 0
    BY <2>1, LoIsLoop DEF LoopDef
  <2>5. Off(0, l) = 0
    BY <2>3, <2>4 DEF Off
  <2>. QED
    BY <2>2, <2>5 DEF Init
<1>. QED
  BY <1>1, <1>2, <1>3, <1>4 DEF TableInv, AgreeInv

\* A level is placed where the formula looks for it.
LEMMA PlaceAgrees == TableInv /\ PlaceLevel => TableInv'
<1> SUFFICES ASSUME TableInv, PlaceLevel PROVE TableInv'
  OBVIOUS
<1>1. IInv'
  BY PlacePreserves DEF TableInv
<1>2. /\ tree_id \in Tree /\ tree_id \in Nat /\ i \in Level /\ i \in Nat /\ i' = i + 1
      /\ i < depth[tree_id] /\ depth[tree_id] \in 0 .. SRAM_NUM
      /\ N \in Nat \ {0} /\ Level = 0 .. N - 1
  BY SRAMNumAssumption DEF PlaceLevel, MoreLevels, TableInv, IInv, TypeOK, Level, Tree, N
<1>3. cur_level_size' = 2 ^ i'
  <2>1. cur_level_size' = 2 ^ i * 2 /\ 2 ^ (i + 1) = 2 * 2 ^ i /\ 2 ^ i \in Nat
    BY <1>2, PowerSucc DEF PlaceLevel, Grow, DEGREE, TableInv
  <2>. QED
    BY <1>2, <2>1
<1>4. SUFFICES ASSUME FullForest' PROVE (FullSoFar /\ FilledAsComputed /\ HardwareAgrees)'
  BY <1>1, <1>3 DEF TableInv, AgreeInv
<1>5. FullForest /\ UNCHANGED <<depth, tree_id>>
  BY <1>4 DEF FullForest, PlaceLevel
<1>6. FullSoFar
  <2>1. FullSoFar \/ Ended
    BY <1>5 DEF TableInv, AgreeInv
  <2>2. tree_id > 0 => depth[tree_id - 1] > 0
    BY <1>2, <1>5 DEF FullForest
  <2>. QED
    BY <1>2, <2>1, <2>2 DEF Ended
<1>7. FilledAsComputed /\ HardwareAgrees
  BY <1>5, <1>6 DEF TableInv, AgreeInv
<1> DEFINE s == SRAM_id(tree_id, i)
<1>8. s \in SRAM /\ start_addr \in [SRAM -> Nat] /\ start_addr[s] = Off(tree_id, i)
  <2>1. s \in SRAM /\ start_addr \in [SRAM -> Nat]
    BY <1>2, SRAMIdInRange DEF TableInv, IInv, TypeOK
  <2>2. start_addr[s] = Off(tree_id, i) + 0
    BY <1>2, <1>7 DEF FilledAsComputed
  <2>3. start_addr[s] \in Nat
    BY <2>1
  <2>4. Off(tree_id, i) \in Int
    BY <1>2, OffIsInt
  <2>. QED
    BY <2>1, <2>2, <2>4
<1>9. /\ start_addr' = [start_addr EXCEPT ![s] = @ + cur_level_size]
      /\ cur_level_size = 2 ^ i
  BY DEF PlaceLevel, Reserve, TableInv
<1>10. FilledAsComputed'
  <2> SUFFICES ASSUME NEW l \in Level
               PROVE  start_addr'[SRAM_id(tree_id, l)]
                        = Off(tree_id, l) + (IF l < i' THEN 2 ^ l ELSE 0)
    BY <1>5 DEF FilledAsComputed, SRAM_id, Off
  <2>1. /\ SRAM_id(tree_id, l) \in SRAM /\ l \in Nat
        /\ start_addr[SRAM_id(tree_id, l)] = Off(tree_id, l) + (IF l < i THEN 2 ^ l ELSE 0)
    BY <1>2, <1>7, SRAMIdInRange DEF FilledAsComputed
  <2>2. CASE l = i
    BY <1>2, <1>8, <1>9, <2>2
  <2>3. CASE l # i
    <3>1. SRAM_id(tree_id, l) # s
      BY <1>2, <2>3, LevelsApart
    <3>2. l < i' <=> l < i
      BY <1>2, <2>1, <2>3
    <3>. QED
      BY <1>8, <1>9, <2>1, <3>1, <3>2
  <2>. QED
    BY <2>2, <2>3
<1>11. HardwareAgrees'
  <2> SUFFICES ASSUME NEW e \in DOMAIN start_addr_dict'
               PROVE  start_addr_dict'[e].addr = RPUs!offset[e[1]][e[2]]
    BY DEF HardwareAgrees
  <2>1. CASE e = <<tree_id, i>>
    <3>1. start_addr_dict'[e].addr = start_addr[s]
      BY <2>1 DEF PlaceLevel
    <3>2. RPUs!offset[tree_id][i] = Off(tree_id, i)
      BY <1>2 DEF RPUs!offset, Off, N
    <3>. QED
      BY <1>8, <2>1, <3>1, <3>2
  <2>2. CASE e # <<tree_id, i>>
    <3>1. e \in DOMAIN start_addr_dict /\ start_addr_dict'[e] = start_addr_dict[e]
      BY <2>2 DEF PlaceLevel
    <3>. QED
      BY <1>5, <1>7, <3>1 DEF HardwareAgrees
  <2>. QED
    BY <2>1, <2>2
<1>12. FullSoFar'
  BY <1>5, <1>6 DEF FullSoFar
<1>. QED
  BY <1>10, <1>11, <1>12

\* The next tree finds every SRAM filled up to its own place.
LEMMA NextTreeAgrees == TableInv /\ NextTree => TableInv'
<1> SUFFICES ASSUME TableInv, NextTree PROVE TableInv'
  OBVIOUS
<1>1. IInv'
  BY NextTreePreserves DEF TableInv
<1>2. /\ tree_id \in Tree /\ tree_id \in Nat /\ i \in 0 .. N /\ tree_id' = tree_id + 1
      /\ ~(i < depth[tree_id]) /\ depth[tree_id] \in 0 .. N /\ i' = 0
      /\ N \in Nat \ {0} /\ Level = 0 .. N - 1
      /\ UNCHANGED <<depth, start_addr, start_addr_dict>>
  BY SRAMNumAssumption DEF NextTree, MoreLevels, TableInv, IInv, TypeOK, Level, Tree, N
<1>3. cur_level_size' = 2 ^ i'
  BY PowerZero DEF NextTree
<1>4. SUFFICES ASSUME FullForest'
               PROVE  /\ FullSoFar' \/ Ended'
                      /\ FullSoFar' => FilledAsComputed'
                      /\ HardwareAgrees'
  BY <1>1, <1>3 DEF TableInv, AgreeInv
<1>5. /\ FullForest /\ HardwareAgrees
      /\ FullSoFar \/ Ended
      /\ FullSoFar => FilledAsComputed
  BY <1>2, <1>4 DEF FullForest, TableInv, AgreeInv
<1>6. HardwareAgrees'
  BY <1>2, <1>5 DEF HardwareAgrees, FullForest
<1>7. depth[tree_id] \in {0, N} /\ (tree_id > 0 /\ depth[tree_id] > 0 => depth[tree_id - 1] > 0)
  BY <1>2, <1>5 DEF FullForest, N
<1>8. /\ FullSoFar' <=> FullSoFar /\ depth[tree_id] = N
      /\ Ended' <=> depth[tree_id] = 0
  BY <1>2 DEF FullSoFar, Ended
<1>9. FullSoFar' \/ Ended'
  BY <1>2, <1>5, <1>7, <1>8 DEF Ended
<1>10. ASSUME FullSoFar' PROVE FilledAsComputed'
  <2> SUFFICES ASSUME NEW l \in Level
               PROVE  start_addr[SRAM_id(tree_id + 1, l)] = Off(tree_id + 1, l)
    <3>1. \A l \in Level : ~(l < 0)
      BY <1>2
    <3>2. \A l \in Level : Off(tree_id + 1, l) \in Int
      BY <1>2, OffIsInt
    <3>. QED
      BY <1>2, <3>1, <3>2 DEF FilledAsComputed, SRAM_id, Off
  <2> DEFINE m == (l + 1) % N
  <2>1. /\ m \in Level /\ SRAM_id(tree_id + 1, l) = SRAM_id(tree_id, m)
        /\ Off(tree_id + 1, l) = Off(tree_id, m) + 2 ^ m
    BY <1>2, OffNext
  <2> HIDE DEF m
  <2>2. m < i
    BY <1>2, <1>8, <1>10, <2>1
  <2>3. start_addr[SRAM_id(tree_id, m)] = Off(tree_id, m) + 2 ^ m
    BY <1>5, <1>8, <1>10, <2>1, <2>2 DEF FilledAsComputed
  <2>. QED
    BY <2>1, <2>3
<1>. QED
  BY <1>6, <1>9, <1>10

(* Software and hardware agree: for every number of SRAMs and every full   *)
(* forest, the address gen_SRAM_layout.py gives a level is the one the     *)
(* offset logic of PIFO_SRAM.sv computes for it.                           *)
THEOREM TableAgrees == Spec => []HardwareAgrees
<1>1. TableInv /\ UNCHANGED vars => TableInv'
  <2>1. IInv /\ UNCHANGED vars => IInv'
    BY DEF IInv, vars, TypeOK, Packed, LayoutDisjoint, Apart
  <2>. QED
    BY <2>1 DEF TableInv, AgreeInv, FullForest, FullSoFar, Ended, FilledAsComputed,
                HardwareAgrees, vars
<1>2. TableInv /\ [Next]_vars => TableInv'
  BY <1>1, PlaceAgrees, NextTreeAgrees DEF Next
<1>3. TableInv => HardwareAgrees
  BY DEF TableInv, AgreeInv, HardwareAgrees
<1>. QED
  BY InitAgrees, <1>2, <1>3, PTL DEF Spec

-----------------------------------------------------------------------------
(* The table as it is written.  When the loops are done every level of the *)
(* forest has its place.                                                   *)
Done(e) == /\ e \in Tree \X Level /\ e[2] < depth[e[1]]
           /\ e[1] < tree_id \/ (e[1] = tree_id /\ e[2] < i)

PlacedInv ==
  /\ IInv /\ cur_level_size = 2 ^ i
  /\ tree_id \in Tree => i <= depth[tree_id]
  /\ \A e : e \in DOMAIN start_addr_dict <=> Done(e)
  /\ \A e \in DOMAIN start_addr_dict : start_addr_dict[e].size = 2 ^ e[2]

WrittenInv == mem_output # << >> => tree_id = MaxTree + 1 /\ mem_output = Lines /\ max_level > 0

LEMMA PlacedStart == Init => PlacedInv
<1> SUFFICES ASSUME Init PROVE PlacedInv
  OBVIOUS
<1>1. IInv
  BY InitHolds
<1>2. cur_level_size = 2 ^ i /\ tree_id = 0 /\ i = 0 /\ DOMAIN start_addr_dict = {}
  BY PowerZero DEF Init
<1>3. depth \in [Tree -> 0 .. SRAM_NUM]
  BY <1>1 DEF IInv, TypeOK
<1>4. tree_id \in Tree => i <= depth[tree_id]
  BY <1>2, <1>3, SRAMNumAssumption
<1>5. ASSUME NEW e, Done(e) PROVE FALSE
  <2>1. e[1] \in Nat /\ e[2] \in Nat
    BY <1>5, SRAMNumAssumption DEF Done, Tree, Level
  <2> QED
    BY <1>2, <1>5, <2>1 DEF Done
<1> QED
  BY <1>1, <1>2, <1>4, <1>5 DEF PlacedInv

LEMMA PlacedPlace == PlacedInv /\ PlaceLevel => PlacedInv'
<1> SUFFICES ASSUME PlacedInv, PlaceLevel PROVE PlacedInv'
  OBVIOUS
<1>1. IInv'
  BY PlacePreserves DEF PlacedInv
<1> DEFINE new == <<tree_id, i>>
<1>2. /\ tree_id \in Tree /\ tree_id \in Nat /\ i \in Level /\ i \in Nat /\ i' = i + 1
      /\ i < depth[tree_id] /\ depth[tree_id] \in 0 .. SRAM_NUM
      /\ depth' = depth /\ tree_id' = tree_id
  BY SRAMNumAssumption DEF PlaceLevel, MoreLevels, PlacedInv, IInv, TypeOK, Level, Tree
<1>3. cur_level_size' = 2 ^ i'
  <2>1. cur_level_size' = 2 ^ i * 2 /\ 2 ^ (i + 1) = 2 * 2 ^ i /\ 2 ^ i \in Nat
    BY <1>2, PowerSucc DEF PlaceLevel, Grow, DEGREE, PlacedInv
  <2> QED
    BY <1>2, <2>1
<1>4. tree_id' \in Tree => i' <= depth'[tree_id']
  BY <1>2, SRAMNumAssumption
<1>5. DOMAIN start_addr_dict' = DOMAIN start_addr_dict \cup {new}
  BY DEF PlaceLevel
<1>6. ASSUME NEW e PROVE e \in DOMAIN start_addr_dict' <=> Done(e)'
  <2>1. Done(e)' <=> /\ e \in Tree \X Level /\ e[2] < depth[e[1]]
                     /\ e[1] < tree_id \/ (e[1] = tree_id /\ e[2] < i + 1)
    BY <1>2 DEF Done
  <2>2. e \in DOMAIN start_addr_dict <=> Done(e)
    BY DEF PlacedInv
  <2>3. new \in Tree \X Level /\ new[1] = tree_id /\ new[2] = i
    BY <1>2
  <2>4. CASE e = new
    BY <1>2, <1>5, <2>1, <2>3, <2>4
  <2>5. CASE e # new
    <3>1. e \in Tree \X Level /\ e[1] = tree_id /\ e[2] < i + 1 => e[2] < i
      <4> SUFFICES ASSUME e \in Tree \X Level, e[1] = tree_id, e[2] < i + 1, ~(e[2] < i) PROVE FALSE
        OBVIOUS
      <4>1. e[2] \in Nat
        BY SRAMNumAssumption DEF Level
      <4>2. e[2] = i
        BY <1>2, <4>1
      <4>3. e = <<e[1], e[2]>>
        OBVIOUS
      <4> QED
        BY <2>5, <4>2, <4>3
    <3>2. e \in Tree \X Level /\ e[2] < i => e[2] < i + 1
      BY <1>2, SRAMNumAssumption DEF Level
    <3> QED
      BY <1>5, <2>1, <2>2, <2>5, <3>1, <3>2 DEF Done
  <2> QED
    BY <2>4, <2>5
<1>7. ASSUME NEW e \in DOMAIN start_addr_dict' PROVE start_addr_dict'[e].size = 2 ^ e[2]
  <2>1. CASE e = new
    <3>1. start_addr_dict'[e].size = cur_level_size
      BY <2>1 DEF PlaceLevel
    <3> QED
      BY <2>1, <3>1 DEF PlacedInv
  <2>2. CASE e # new
    <3>1. e \in DOMAIN start_addr_dict /\ start_addr_dict'[e] = start_addr_dict[e]
      BY <2>2 DEF PlaceLevel
    <3> QED
      BY <3>1 DEF PlacedInv
  <2> QED
    BY <2>1, <2>2
<1> QED
  BY <1>1, <1>3, <1>4, <1>6, <1>7 DEF PlacedInv

LEMMA PlacedNextTree == PlacedInv /\ NextTree => PlacedInv'
<1> SUFFICES ASSUME PlacedInv, NextTree PROVE PlacedInv'
  OBVIOUS
<1>1. IInv'
  BY NextTreePreserves DEF PlacedInv
<1>2. /\ tree_id \in Tree /\ tree_id \in Nat /\ i \in Nat /\ tree_id' = tree_id + 1
      /\ ~(i < depth[tree_id]) /\ depth \in [Tree -> 0 .. SRAM_NUM] /\ i' = 0
      /\ UNCHANGED <<depth, start_addr, start_addr_dict>> /\ i <= depth[tree_id]
  BY SRAMNumAssumption DEF NextTree, MoreLevels, PlacedInv, IInv, TypeOK, Tree
<1>3. cur_level_size' = 2 ^ i'
  BY PowerZero DEF NextTree
<1>4. tree_id' \in Tree => i' <= depth'[tree_id']
  BY <1>2, SRAMNumAssumption
<1>5. ASSUME NEW e PROVE Done(e)' <=> Done(e)
  <2>1. Done(e)' <=> /\ e \in Tree \X Level /\ e[2] < depth[e[1]]
                     /\ e[1] < tree_id + 1 \/ (e[1] = tree_id + 1 /\ e[2] < 0)
    BY <1>2 DEF Done
  <2>2. SUFFICES ASSUME e \in Tree \X Level, e[2] < depth[e[1]]
                 PROVE  (e[1] < tree_id + 1 \/ (e[1] = tree_id + 1 /\ e[2] < 0))
                          <=> (e[1] < tree_id \/ (e[1] = tree_id /\ e[2] < i))
    BY <2>1 DEF Done
  <2>3. e[1] \in Nat /\ e[2] \in Nat /\ depth[e[1]] \in Nat
    BY <1>2, <2>2, SRAMNumAssumption DEF Tree, Level
  <2>4. e[1] = tree_id => e[2] < i
    BY <1>2, <2>2, <2>3
  <2> QED
    BY <1>2, <2>3, <2>4
<1> QED
  BY <1>1, <1>2, <1>3, <1>4, <1>5 DEF PlacedInv

\* The largest value of a function on an interval, and what Max makes of it.
LEMMA LargestValue ==
  \A n \in Nat : \A f \in [0 .. n -> Nat] : \E x \in 0 .. n : \A y \in 0 .. n : f[x] >= f[y]
<1> DEFINE S == {n \in Nat : \A f \in [0 .. n -> Nat] : \E x \in 0 .. n : \A y \in 0 .. n : f[x] >= f[y]}
<1>1. 0 \in S
  <2> SUFFICES ASSUME NEW f \in [0 .. 0 -> Nat] PROVE \E x \in 0 .. 0 : \A y \in 0 .. 0 : f[x] >= f[y]
    OBVIOUS
  <2>1. 0 \in 0 .. 0 /\ f[0] \in Nat /\ \A y \in 0 .. 0 : y = 0
    OBVIOUS
  <2> QED
    BY <2>1
<1>2. ASSUME NEW n \in Nat, n \in S PROVE n + 1 \in S
  <2>0. n + 1 \in Nat
    OBVIOUS
  <2> SUFFICES ASSUME NEW f \in [0 .. n + 1 -> Nat]
               PROVE  \E x \in 0 .. n + 1 : \A y \in 0 .. n + 1 : f[x] >= f[y]
    BY <2>0
  <2> DEFINE g == [k \in 0 .. n |-> f[k]]
  <2>1. g \in [0 .. n -> Nat]
    OBVIOUS
  <2>2. PICK x \in 0 .. n : \A y \in 0 .. n : g[x] >= g[y]
    BY <1>2, <2>1
  <2>3. \A y \in 0 .. n : f[x] >= f[y]
    BY <2>2
  <2>4. /\ x \in 0 .. n + 1 /\ n + 1 \in 0 .. n + 1 /\ \A y \in 0 .. n + 1 : y \in 0 .. n \/ y = n + 1
        /\ \A y \in 0 .. n + 1 : f[y] \in Nat
    OBVIOUS
  <2>5. CASE f[x] >= f[n + 1]
    BY <2>3, <2>4, <2>5
  <2>6. CASE ~(f[x] >= f[n + 1])
    <3>1. \A y \in 0 .. n + 1 : f[n + 1] >= f[y]
      <4> SUFFICES ASSUME NEW y \in 0 .. n + 1 PROVE f[n + 1] >= f[y]
        OBVIOUS
      <4>1. f[n + 1] \in Nat /\ f[y] \in Nat /\ f[x] \in Nat
        BY <2>4
      <4>2. CASE y = n + 1
        BY <4>1, <4>2
      <4>3. CASE y \in 0 .. n
        <5>1. f[x] >= f[y]
          BY <2>3, <4>3
        <5> QED
          BY <2>6, <4>1, <5>1
      <4> QED
        BY <2>4, <4>2, <4>3
    <3> QED
      BY <2>4, <3>1
  <2> QED
    BY <2>5, <2>6
<1> HIDE DEF S
<1>3. \A n \in Nat : n \in S
  BY <1>1, <1>2, SetInduction
<1> QED
  BY <1>3 DEF S

LEMMA MaxProperties ==
  ASSUME NEW T, \E x \in T : \A y \in T : x >= y
  PROVE  Max(T) \in T /\ \A y \in T : Max(T) >= y
  BY DEF Max

LEMMA MaxOfImage ==
  ASSUME NEW n \in Nat, NEW f \in [0 .. n -> Nat], NEW T, T = {f[x] : x \in 0 .. n}
  PROVE  Max(T) \in Nat /\ \A x \in 0 .. n : f[x] <= Max(T)
<1>1. PICK x \in 0 .. n : \A y \in 0 .. n : f[x] >= f[y]
  BY LargestValue
<1>2. f[x] \in T /\ \A y \in T : f[x] >= y
  BY <1>1
<1>3. Max(T) \in T /\ \A y \in T : Max(T) >= y
  BY <1>2, MaxProperties
<1>4. ASSUME NEW y \in 0 .. n PROVE f[y] <= Max(T)
  <2>1. f[y] \in T /\ f[y] \in Nat /\ Max(T) \in Nat /\ Max(T) >= f[y]
    BY <1>3
  <2> QED
    BY <2>1
<1> QED
  BY <1>3, <1>4

\* As many bits as math.ceil(math.log2(n)) are enough for n values.
LEMMA EnoughBits ==
  ASSUME NEW n \in Nat \ {0}
  PROVE  CeilLog2(n) \in Nat /\ n <= 2 ^ CeilLog2(n)
<1> DEFINE T == {k \in Nat : n <= 2 ^ k}
<1>1. n \in T
  BY PowerExceeds, PowerSucc
<1>2. PICK k \in T : \A j \in T : ~(j < k)
  BY <1>1, LeastElement
<1>3. k \in 0 .. n /\ n <= 2 ^ k
  BY <1>1, <1>2
<1>4. k > 0 => 2 ^ (k - 1) < n
  <2> SUFFICES ASSUME k > 0, ~(2 ^ (k - 1) < n) PROVE FALSE
    OBVIOUS
  <2>1. k - 1 \in Nat /\ k - 1 < k
    BY <1>3
  <2>2. 2 ^ (k - 1) \in Nat
    BY <2>1, PowerSucc
  <2>3. k - 1 \in T
    BY <2>1, <2>2
  <2> QED
    BY <1>2, <2>1, <2>3
<1>5. CeilLog2(n) \in 0 .. n /\ n <= 2 ^ CeilLog2(n)
  BY <1>3, <1>4 DEF CeilLog2
<1> QED
  BY <1>5

\* A number that fits is written with as many digits as there are bits; with
\* no bits at all the only number is 0, and it is written with one digit.
Wide(w) == IF w > 0 THEN w ELSE 1

LEMMA FormatLength ==
  ASSUME NEW w \in Nat, NEW v \in Nat, v < 2 ^ w
  PROVE  Format(v, w).len = Wide(w) /\ Format(v, w).val = v /\ Wide(w) \in Nat \ {0}
<1>1. CASE w > 0
  BY <1>1 DEF Format, Wide
<1>2. CASE w = 0
  <2>1. v = 0
    BY <1>2, PowerZero
  <2>2. 2 ^ 1 = 2
    BY PowerZero, PowerSucc
  <2>3. Digits(0) \in 1 .. 0 + 1
    <3>1. 1 \in 1 .. 0 + 1 /\ 0 < 2 ^ 1 /\ (1 > 1 => 2 ^ (1 - 1) <= 0)
      BY <2>2
    <3> QED
      BY <3>1 DEF Digits
  <2>4. Digits(0) = 1
    BY <2>3
  <2> QED
    BY <1>2, <2>1, <2>4 DEF Format, Wide
<1> QED
  BY <1>1, <1>2

\* The end of the loops: every level is placed, and the widths suffice.
LEMMA WidthsSuffice ==
  ASSUME PlacedInv, tree_id = MaxTree + 1, max_level > 0
  PROVE  /\ SRAM_addr_bits \in Nat /\ SRAM_id_bits \in Nat /\ level_bits \in Nat /\ tree_id_bits \in Nat
         /\ DOMAIN start_addr_dict = Levels
         /\ max_SRAM_addr \in Nat /\ max_SRAM_addr <= 2 ^ SRAM_addr_bits
         /\ SRAM_NUM <= 2 ^ SRAM_id_bits
         /\ \A e \in Levels :
              /\ start_addr_dict[e] \in [sram : SRAM, addr : Nat, size : Nat \ {0}]
              /\ start_addr_dict[e].size = 2 ^ e[2]
              /\ start_addr_dict[e].addr + start_addr_dict[e].size <= max_SRAM_addr
              /\ e[1] \in 0 .. 2 ^ tree_id_bits - 1 /\ e[2] \in 0 .. 2 ^ level_bits - 1
              /\ e = <<e[1], e[2]>>
<1>1. /\ depth \in [Tree -> 0 .. SRAM_NUM] /\ start_addr \in [SRAM -> Nat]
      /\ SRAM_NUM \in Nat \ {0} /\ MaxTree \in Nat
      /\ SRAM = 0 .. SRAM_NUM - 1 /\ SRAM_NUM - 1 \in Nat /\ Tree = 0 .. MaxTree
  BY SRAMNumAssumption DEF PlacedInv, IInv, TypeOK, SRAM, Tree
<1>2. max_SRAM_addr \in Nat /\ \A s \in SRAM : start_addr[s] <= max_SRAM_addr
  BY <1>1, MaxOfImage DEF max_SRAM_addr
<1>3. max_level \in Nat /\ \A t \in Tree : depth[t] <= max_level
  <2>1. depth \in [0 .. MaxTree -> Nat]
    BY <1>1
  <2> QED
    BY <1>1, <2>1, MaxOfImage DEF max_level
<1>4. DOMAIN start_addr_dict = Levels
  <2>1. ASSUME NEW e PROVE Done(e) <=> e \in Levels
    <3>1. Done(e) <=> e \in Tree \X Level /\ e[2] < depth[e[1]]
      BY <1>1 DEF Done
    <3>2. ASSUME NEW t \in Tree, NEW l PROVE l \in 0 .. depth[t] - 1 <=> l \in Level /\ l < depth[t]
      BY <1>1 DEF Level
    <3>3. e \in Levels <=> \E t \in Tree : \E l \in 0 .. depth[t] - 1 : e = <<t, l>>
      BY DEF Levels
    <3>4. e \in Tree \X Level => e = <<e[1], e[2]>> /\ e[1] \in Tree /\ e[2] \in Level
      OBVIOUS
    <3>5. \A t \in Tree, l \in Level : <<t, l>> \in Tree \X Level /\ <<t, l>>[1] = t /\ <<t, l>>[2] = l
      OBVIOUS
    <3> QED
      BY <3>1, <3>2, <3>3, <3>4, <3>5
  <2> QED
    BY <2>1 DEF PlacedInv
<1>5. ASSUME NEW e \in Levels
      PROVE  /\ start_addr_dict[e] \in [sram : SRAM, addr : Nat, size : Nat \ {0}]
             /\ start_addr_dict[e].size = 2 ^ e[2]
             /\ start_addr_dict[e].addr + start_addr_dict[e].size <= max_SRAM_addr
             /\ e[1] \in Tree /\ depth[e[1]] > 0 /\ e[2] \in Nat /\ e[2] < depth[e[1]]
             /\ e = <<e[1], e[2]>>
  <2>1. /\ e \in DOMAIN start_addr_dict /\ Done(e)
        /\ start_addr_dict[e] \in [sram : SRAM, addr : Nat, size : Nat \ {0}]
        /\ start_addr_dict[e].size = 2 ^ e[2]
        /\ start_addr_dict[e].addr + start_addr_dict[e].size <= start_addr[start_addr_dict[e].sram]
    BY <1>4 DEF PlacedInv, IInv, TypeOK, Packed
  <2>2. start_addr_dict[e].addr + start_addr_dict[e].size <= max_SRAM_addr
    <3> DEFINE p == start_addr_dict[e]
    <3>1. p.sram \in SRAM /\ p.addr \in Nat /\ p.size \in Nat /\ p.addr + p.size <= start_addr[p.sram]
      BY <2>1
    <3> HIDE DEF p
    <3>2. start_addr[p.sram] \in Nat /\ start_addr[p.sram] <= max_SRAM_addr
      BY <1>1, <1>2, <3>1
    <3>3. p.addr + p.size <= max_SRAM_addr
      BY <1>2, <3>1, <3>2
    <3> QED
      BY <3>3 DEF p
  <2>3. /\ e[1] \in Tree /\ e[2] \in Level /\ e[2] < depth[e[1]] /\ e = <<e[1], e[2]>>
    BY <2>1 DEF Done
  <2>4. depth[e[1]] \in Nat /\ e[2] \in Nat
    BY <1>1, <2>3 DEF Level
  <2>5. depth[e[1]] > 0
    BY <2>3, <2>4
  <2> QED
    BY <2>1, <2>2, <2>3, <2>4, <2>5
<1>6. PICK t \in Tree : depth[t] > 0
  <2>1. max_level \in {depth[t] : t \in Tree}
    <3>1. \E x \in {depth[t] : t \in Tree} : \A y \in {depth[t] : t \in Tree} : x >= y
      <4>1. depth \in [0 .. MaxTree -> Nat]
        BY <1>1
      <4>2. PICK x \in 0 .. MaxTree : \A y \in 0 .. MaxTree : depth[x] >= depth[y]
        BY <1>1, <4>1, LargestValue
      <4> QED
        BY <1>1, <4>2
    <3> QED
      BY <3>1, MaxProperties DEF max_level
  <2> QED
    BY <2>1
<1> DEFINE Used == {u \in Tree : depth[u] > 0}
<1>7. max_tree_id \in Nat /\ \A u \in Used : u <= max_tree_id
  <2>1. IsFiniteSet(Tree)
    BY <1>1, FS_Interval
  <2>2. Used \in SUBSET Tree /\ Used \subseteq Nat /\ Used # {}
    <3>1. t \in Used
      BY <1>6
    <3>2. \A u \in Tree : u \in Nat
      BY <1>1
    <3> QED
      BY <3>1, <3>2
  <2>3. IsFiniteSet(Used)
    BY <2>1, <2>2, FS_Subset
  <2>4. PICK x \in Used : \A y \in Used : y <= x
    BY <2>2, <2>3, LargestElement
  <2>5. \A y \in Used : x >= y
    BY <2>2, <2>4
  <2>6. Max(Used) \in Used /\ \A y \in Used : Max(Used) >= y
    BY <2>5, MaxProperties
  <2>7. Max(Used) \in Nat /\ \A y \in Used : y <= Max(Used)
    BY <2>2, <2>6
  <2> QED
    BY <2>7 DEF max_tree_id
<1>8. <<t, 0>> \in Levels
  <2>1. 0 \in 0 .. depth[t] - 1
    BY <1>1, <1>6
  <2> QED
    BY <2>1 DEF Levels
<1>9. max_SRAM_addr > 0
  <2> DEFINE p == start_addr_dict[<<t, 0>>]
  <2>1. p.addr \in Nat /\ p.size \in Nat \ {0} /\ p.addr + p.size <= max_SRAM_addr
    BY <1>5, <1>8
  <2> HIDE DEF p
  <2> QED
    BY <1>2, <2>1
<1>10. /\ SRAM_addr_bits \in Nat /\ max_SRAM_addr <= 2 ^ SRAM_addr_bits
       /\ SRAM_id_bits \in Nat /\ SRAM_NUM <= 2 ^ SRAM_id_bits
       /\ level_bits \in Nat /\ max_level <= 2 ^ level_bits
       /\ tree_id_bits \in Nat /\ max_tree_id + 1 <= 2 ^ tree_id_bits
  <2>1. max_SRAM_addr \in Nat \ {0} /\ max_level \in Nat \ {0} /\ max_tree_id + 1 \in Nat \ {0}
    BY <1>2, <1>3, <1>7, <1>9
  <2> QED
    BY <1>1, <2>1, EnoughBits DEF SRAM_addr_bits, SRAM_id_bits, level_bits, tree_id_bits
<1>11. ASSUME NEW e \in Levels
       PROVE  e[1] \in 0 .. 2 ^ tree_id_bits - 1 /\ e[2] \in 0 .. 2 ^ level_bits - 1
  <2>1. e[1] \in Used /\ e[1] \in Nat /\ e[2] \in Nat /\ e[2] < depth[e[1]] /\ depth[e[1]] <= max_level
        /\ depth[e[1]] \in Nat
    BY <1>1, <1>3, <1>5
  <2>2. e[1] <= max_tree_id
    BY <1>7, <2>1
  <2>3. 2 ^ tree_id_bits \in Nat /\ 2 ^ level_bits \in Nat
    BY <1>10, PowerSucc
  <2> QED
    BY <1>3, <1>7, <1>10, <2>1, <2>2, <2>3
<1> QED
  BY <1>2, <1>4, <1>5, <1>10, <1>11

\* A line holds its two fields.
LEMMA LineFields ==
  ASSUME SRAM_addr_bits \in Nat, SRAM_id_bits \in Nat,
         NEW s \in Nat, s < 2 ^ SRAM_id_bits, NEW a \in Nat, a < 2 ^ SRAM_addr_bits
  PROVE  /\ PlaceLine(s, a).len = Wide(SRAM_id_bits) + Wide(SRAM_addr_bits)
         /\ SRAM_addr_bits > 0 => /\ PlaceLine(s, a).val = 2 ^ SRAM_addr_bits * s + a
                                  /\ SRAMField(PlaceLine(s, a)) = s
                                  /\ AddrField(PlaceLine(s, a)) = a
<1>1. /\ Format(s, SRAM_id_bits).len = Wide(SRAM_id_bits) /\ Format(s, SRAM_id_bits).val = s
      /\ Format(a, SRAM_addr_bits).len = Wide(SRAM_addr_bits) /\ Format(a, SRAM_addr_bits).val = a
  BY FormatLength
<1>2. /\ PlaceLine(s, a).len = Wide(SRAM_id_bits) + Wide(SRAM_addr_bits)
      /\ PlaceLine(s, a).val = s * 2 ^ Wide(SRAM_addr_bits) + a
  BY <1>1 DEF PlaceLine, Concat
<1>3. ASSUME SRAM_addr_bits > 0
      PROVE  /\ PlaceLine(s, a).val = 2 ^ SRAM_addr_bits * s + a
             /\ SRAMField(PlaceLine(s, a)) = s /\ AddrField(PlaceLine(s, a)) = a
  <2> DEFINE p == 2 ^ SRAM_addr_bits
  <2>1. p \in Nat \ {0}
    BY PowerSucc
  <2>2. PlaceLine(s, a).val = s * p + a /\ a < p
    BY <1>2, <1>3 DEF Wide
  <2> HIDE DEF p
  <2>3. PlaceLine(s, a).val = p * s + a /\ a \in 0 .. p - 1
    BY <2>1, <2>2
  <2>4. (p * s + a) \div p = s /\ (p * s + a) % p = a
    BY <2>1, <2>3, DivModUnique
  <2> QED
    BY <2>3, <2>4 DEF SRAMField, AddrField, p
<1> QED
  BY <1>2, <1>3

\* The row of a level is within the table and belongs to that level.
LEMMA RowOfLevel ==
  ASSUME tree_id_bits \in Nat, level_bits \in Nat,
         NEW t \in 0 .. 2 ^ tree_id_bits - 1, NEW l \in 0 .. 2 ^ level_bits - 1
  PROVE  /\ t * 2 ^ level_bits + l \in 0 .. 2 ^ tree_id_bits * 2 ^ level_bits - 1
         /\ Row(t * 2 ^ level_bits + l) = <<t, l>>
<1> DEFINE p == 2 ^ level_bits
           q == 2 ^ tree_id_bits
<1>1. p \in Nat \ {0} /\ q \in Nat \ {0} /\ t \in 0 .. q - 1 /\ l \in 0 .. p - 1 /\ t \in Nat /\ l \in Nat
  BY PowerSucc
<1> HIDE DEF p, q
<1>2. t * p + l = p * t + l
  BY <1>1
<1>3. (p * t + l) \div p = t /\ (p * t + l) % p = l
  BY <1>1, DivModUnique
<1>4. t * p + l \in 0 .. q * p - 1
  <2>1. t + 1 <= q /\ t + 1 \in Nat
    BY <1>1
  <2>2. (t + 1) * p <= q * p
    BY <1>1, <2>1
  <2>3. (t + 1) * p = t * p + p /\ t * p \in Nat /\ q * p \in Nat
    BY <1>1
  <2> QED
    BY <1>1, <2>2, <2>3
<1> QED
  BY <1>2, <1>3, <1>4 DEF Row, p, q

\* Only a root at the very end of the last SRAM looks absent.
LastLine(s, a, l, m, n, p, q) ==
  /\ s \in Nat /\ a \in Nat /\ l \in Nat /\ m \in Nat /\ n \in Nat \ {0}
  /\ p \in Nat \ {0} /\ q \in Nat \ {0}
  /\ s < n /\ n <= q /\ a + 2 ^ l <= m /\ m <= p
  /\ p * s + a = p * (q - 1) + (p - 1) /\ a < p

LEMMA AbsentIsLast ==
  ASSUME NEW s, NEW a, NEW l, NEW m, NEW n, NEW p, NEW q, LastLine(s, a, l, m, n, p, q)
  PROVE  l = 0 /\ s = n - 1 /\ a + 1 = m
<1> USE DEF LastLine
<1>1. q - 1 \in Nat /\ p - 1 \in 0 .. p - 1 /\ a \in 0 .. p - 1
  <2>1. 2 ^ l \in Nat \ {0}
    BY PowerSucc
  <2> QED
    BY <2>1
<1>2. (p * s + a) \div p = s /\ (p * s + a) % p = a
  BY <1>1, DivModUnique
<1>3. (p * (q - 1) + (p - 1)) \div p = q - 1 /\ (p * (q - 1) + (p - 1)) % p = p - 1
  BY <1>1, DivModUnique
<1>4. s = q - 1 /\ a = p - 1
  BY <1>2, <1>3
<1>5. 2 ^ l \in Nat \ {0} /\ 2 ^ l <= 1
  BY <1>4, PowerSucc
<1>6. l = 0
  <2>1. l < 2 ^ l
    BY PowerExceeds
  <2> QED
    BY <1>5, <2>1
<1> QED
  BY <1>4, <1>5, <1>6

LEMMA TableAtEnd ==
  ASSUME PlacedInv, WrittenInv
  PROVE  TableGivesPlaces
<1> SUFFICES ASSUME mem_output # << >> PROVE TableGivesPlaces
  BY DEF TableGivesPlaces
<1>1. tree_id = MaxTree + 1 /\ mem_output = Lines /\ max_level > 0
  BY DEF WrittenInv
<1>2. /\ SRAM_addr_bits \in Nat /\ SRAM_id_bits \in Nat /\ level_bits \in Nat /\ tree_id_bits \in Nat
      /\ DOMAIN start_addr_dict = Levels
      /\ max_SRAM_addr \in Nat /\ max_SRAM_addr <= 2 ^ SRAM_addr_bits
      /\ SRAM_NUM <= 2 ^ SRAM_id_bits
      /\ \A e \in Levels :
           /\ start_addr_dict[e] \in [sram : SRAM, addr : Nat, size : Nat \ {0}]
           /\ start_addr_dict[e].size = 2 ^ e[2]
           /\ start_addr_dict[e].addr + start_addr_dict[e].size <= max_SRAM_addr
           /\ e[1] \in 0 .. 2 ^ tree_id_bits - 1 /\ e[2] \in 0 .. 2 ^ level_bits - 1
           /\ e = <<e[1], e[2]>>
  BY <1>1, WidthsSuffice
<1>3. /\ 2 ^ SRAM_addr_bits \in Nat \ {0} /\ 2 ^ SRAM_id_bits \in Nat \ {0} /\ SRAM_NUM \in Nat \ {0}
      /\ 2 ^ level_bits \in Nat \ {0} /\ 2 ^ tree_id_bits \in Nat \ {0}
  BY <1>2, PowerSucc, SRAMNumAssumption
<1>4. ASSUME NEW e \in Levels
      PROVE  /\ start_addr_dict[e].sram \in Nat /\ start_addr_dict[e].sram < SRAM_NUM
             /\ start_addr_dict[e].sram < 2 ^ SRAM_id_bits
             /\ start_addr_dict[e].addr \in Nat /\ start_addr_dict[e].addr < 2 ^ SRAM_addr_bits
  <2> DEFINE p == start_addr_dict[e]
  <2>1. p.sram \in 0 .. SRAM_NUM - 1 /\ p.addr \in Nat /\ p.size \in Nat \ {0}
        /\ p.addr + p.size <= max_SRAM_addr
    BY <1>2 DEF SRAM
  <2> HIDE DEF p
  <2> DEFINE A == 2 ^ SRAM_addr_bits
             B == 2 ^ SRAM_id_bits
  <2>2. A \in Nat /\ B \in Nat /\ SRAM_NUM <= B /\ max_SRAM_addr <= A /\ SRAM_NUM \in Nat
        /\ max_SRAM_addr \in Nat
    BY <1>2, <1>3
  <2> HIDE DEF A, B
  <2>3. p.sram \in Nat /\ p.sram < SRAM_NUM /\ p.sram < B /\ p.addr \in Nat /\ p.addr < A
    BY <2>1, <2>2
  <2>4. /\ p.sram \in Nat /\ p.sram < SRAM_NUM /\ p.sram < 2 ^ SRAM_id_bits
        /\ p.addr \in Nat /\ p.addr < 2 ^ SRAM_addr_bits
    BY <2>3 DEF A, B
  <2> QED
    BY <2>4 DEF p
<1>5. AbsentLine.len = Wide(SRAM_id_bits) + Wide(SRAM_addr_bits)
  <2>1. /\ 2 ^ SRAM_id_bits - 1 \in Nat /\ 2 ^ SRAM_id_bits - 1 < 2 ^ SRAM_id_bits
        /\ 2 ^ SRAM_addr_bits - 1 \in Nat /\ 2 ^ SRAM_addr_bits - 1 < 2 ^ SRAM_addr_bits
    BY <1>3
  <2> QED
    BY <1>2, <2>1, LineFields DEF AbsentLine
<1>6. \A r, q \in DOMAIN mem_output : mem_output[r].len = mem_output[q].len
  <2>1. ASSUME NEW r \in DOMAIN mem_output
        PROVE  mem_output[r].len = Wide(SRAM_id_bits) + Wide(SRAM_addr_bits)
    <3>1. r \in 0 .. 2 ^ tree_id_bits * 2 ^ level_bits - 1
      BY <1>1 DEF Lines
    <3>2. CASE Row(r) \in DOMAIN start_addr_dict
      <4>1. mem_output[r] = PlaceLine(start_addr_dict[Row(r)].sram, start_addr_dict[Row(r)].addr)
        BY <1>1, <3>1, <3>2 DEF Lines
      <4> DEFINE s == start_addr_dict[Row(r)].sram
                 a == start_addr_dict[Row(r)].addr
      <4>2. s \in Nat /\ s < 2 ^ SRAM_id_bits /\ a \in Nat /\ a < 2 ^ SRAM_addr_bits
        BY <1>2, <1>4, <3>2
      <4>3. mem_output[r] = PlaceLine(s, a)
        BY <4>1
      <4> HIDE DEF s, a
      <4> QED
        BY <1>2, <4>2, <4>3, LineFields
    <3>3. CASE Row(r) \notin DOMAIN start_addr_dict
      <4>1. mem_output[r] = AbsentLine
        BY <1>1, <3>1, <3>3 DEF Lines
      <4> QED
        BY <1>5, <4>1
    <3> QED
      BY <3>2, <3>3
  <2> QED
    BY <2>1
<1>7. ASSUME SRAM_addr_bits > 0, SRAM_id_bits > 0, NEW e \in Levels
      PROVE  LET line  == mem_output[e[1] * 2 ^ level_bits + e[2]]
                 place == start_addr_dict[e]
             IN  /\ SRAMField(line) = place.sram /\ AddrField(line) = place.addr
                 /\ place.size = 2 ^ e[2]
                 /\ line = AbsentLine =>
                      e[2] = 0 /\ place.sram = SRAM_NUM - 1 /\ place.addr + 1 = max_SRAM_addr
  <2> DEFINE r == e[1] * 2 ^ level_bits + e[2]
             place == start_addr_dict[e]
  <2>1. r \in 0 .. 2 ^ tree_id_bits * 2 ^ level_bits - 1 /\ Row(r) = e
    <3> DEFINE t == e[1]
               l == e[2]
    <3>1. t \in 0 .. 2 ^ tree_id_bits - 1 /\ l \in 0 .. 2 ^ level_bits - 1 /\ e = <<t, l>>
      BY <1>2
    <3> HIDE DEF t, l
    <3>2. /\ t * 2 ^ level_bits + l \in 0 .. 2 ^ tree_id_bits * 2 ^ level_bits - 1
          /\ Row(t * 2 ^ level_bits + l) = <<t, l>>
      BY <1>2, <3>1, RowOfLevel
    <3> QED
      BY <3>1, <3>2 DEF t, l
  <2>2. mem_output[r] = PlaceLine(place.sram, place.addr)
    BY <1>1, <1>2, <2>1 DEF Lines
  <2>3. /\ place.sram \in Nat /\ place.sram < SRAM_NUM /\ place.sram < 2 ^ SRAM_id_bits
        /\ place.addr \in Nat /\ place.addr < 2 ^ SRAM_addr_bits
    BY <1>4
  <2>4. /\ place.size = 2 ^ e[2] /\ place.addr + place.size <= max_SRAM_addr
        /\ e[2] \in 0 .. 2 ^ level_bits - 1
    BY <1>2
  <2>5. e[2] \in Nat
    BY <1>3, <2>4
  <2> HIDE DEF r, place
  <2>6. SRAMField(mem_output[r]) = place.sram /\ AddrField(mem_output[r]) = place.addr
    <3> DEFINE s == place.sram
               a == place.addr
    <3>1. s \in Nat /\ s < 2 ^ SRAM_id_bits /\ a \in Nat /\ a < 2 ^ SRAM_addr_bits
          /\ mem_output[r] = PlaceLine(s, a)
      BY <2>2, <2>3
    <3> HIDE DEF s, a
    <3>2. SRAMField(PlaceLine(s, a)) = s /\ AddrField(PlaceLine(s, a)) = a
      BY <1>2, <1>7, <3>1, LineFields
    <3> QED
      BY <3>1, <3>2 DEF s, a
  <2>7. ASSUME mem_output[r] = AbsentLine
        PROVE  e[2] = 0 /\ place.sram = SRAM_NUM - 1 /\ place.addr + 1 = max_SRAM_addr
    <3> DEFINE p == 2 ^ SRAM_addr_bits
               q == 2 ^ SRAM_id_bits
    <3>1. p \in Nat \ {0} /\ q \in Nat \ {0} /\ p - 1 \in Nat /\ q - 1 \in Nat /\ p - 1 < p /\ q - 1 < q
      BY <1>3
    <3>2. mem_output[r].val = p * place.sram + place.addr
      BY <1>2, <1>7, <2>2, <2>3, LineFields
    <3>3. AbsentLine.val = p * (q - 1) + (p - 1)
      BY <1>2, <1>7, <3>1, LineFields DEF AbsentLine
    <3>4. p * place.sram + place.addr = p * (q - 1) + (p - 1)
      BY <2>7, <3>2, <3>3
    <3>5. /\ place.sram < SRAM_NUM /\ SRAM_NUM <= q /\ place.addr + 2 ^ e[2] <= max_SRAM_addr
          /\ max_SRAM_addr <= p /\ place.addr < p /\ place.sram \in Nat /\ place.addr \in Nat
          /\ max_SRAM_addr \in Nat /\ SRAM_NUM \in Nat \ {0}
      BY <1>2, <1>3, <2>3, <2>4
    <3> HIDE DEF p, q
    <3>6. LastLine(place.sram, place.addr, e[2], max_SRAM_addr, SRAM_NUM, p, q)
      BY <2>5, <3>1, <3>4, <3>5 DEF LastLine
    <3> QED
      BY <3>6, AbsentIsLast
  <2> QED
    BY <2>4, <2>6, <2>7 DEF r, place
<1> QED
  BY <1>2, <1>6, <1>7 DEF TableGivesPlaces

(* gen_SRAM_layout.py, the table it writes: for every number of SRAMs and  *)
(* every forest the lines load, are indexed by tree and level, hold the    *)
(* place of every level, and take no level but a root for absent.          *)
THEOREM TableGivesThePlaces == TableSpec => []TableGivesPlaces
<1> DEFINE Inv == PlacedInv /\ WrittenInv
<1>1. TableInit => Inv
  BY PlacedStart DEF TableInit, WrittenInv
<1>2. PlacedInv /\ UNCHANGED vars => PlacedInv'
  <2>1. IInv /\ UNCHANGED vars => IInv'
    BY DEF IInv, vars, TypeOK, Packed, LayoutDisjoint, Apart
  <2> QED
    BY <2>1 DEF PlacedInv, Done, vars
<1>3. ASSUME Inv, Next, UNCHANGED mem_output PROVE Inv'
  <2>1. tree_id \in Tree
    BY <1>3 DEF Next, PlaceLevel, NextTree
  <2>2. mem_output = << >>
    BY <1>3, <2>1, SRAMNumAssumption DEF WrittenInv, Tree
  <2> QED
    BY <1>3, <2>2, PlacedPlace, PlacedNextTree DEF Next, WrittenInv
<1>4. ASSUME Inv, UNCHANGED vars, mem_output' = mem_output \/ WriteTable PROVE Inv'
  <2>1. Lines' = Lines /\ max_level' = max_level /\ tree_id' = tree_id
    BY <1>4 DEF vars, Lines, Row, PlaceLine, AbsentLine, SRAM_addr_bits, SRAM_id_bits, level_bits,
                tree_id_bits, max_SRAM_addr, max_level, max_tree_id
  <2> QED
    BY <1>2, <1>4, <2>1 DEF WriteTable, WrittenInv
<1>5. Inv /\ [TableNext]_tableVars => Inv'
  BY <1>3, <1>4 DEF TableNext, tableVars, WriteTable
<1>6. Inv => TableGivesPlaces
  BY TableAtEnd
<1> QED
  BY <1>1, <1>5, <1>6, PTL DEF TableSpec
=============================================================================
