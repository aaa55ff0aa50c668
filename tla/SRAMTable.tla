------------------------------ MODULE SRAMTable ------------------------------
(***************************************************************************)
(* The end of gen_SRAM_layout.py: once every level has its place the table *)
(* is written as a memory image, one line for every pair of a tree number  *)
(* and a level number that fits the widths, ones where there is no level.  *)
(***************************************************************************)
EXTENDS SRAMLayout, BitStrings, FiniteSetsExt

VARIABLE mem_output   \* the lines of the .mem file; empty until it is written

tableVars == <<vars, mem_output>>

max_tree_id == Max({t \in Tree : depth[t] > 0})
max_level   == Max({depth[t] : t \in Tree})

max_SRAM_addr == Max({start_addr[s] : s \in SRAM})

\* math.ceil(math.log2(n))
CeilLog2(n) == CHOOSE k \in 0 .. n : n <= 2 ^ k /\ (k > 0 => 2 ^ (k - 1) < n)

SRAM_addr_bits == CeilLog2(max_SRAM_addr)
level_bits     == CeilLog2(max_level)
tree_id_bits   == CeilLog2(max_tree_id + 1)
SRAM_id_bits   == CeilLog2(SRAM_NUM)

\* The line of a place, and the line of a level that does not exist.
PlaceLine(sram, addr) == Concat(Format(sram, SRAM_id_bits), Format(addr, SRAM_addr_bits))
AbsentLine == PlaceLine(2 ^ SRAM_id_bits - 1, 2 ^ SRAM_addr_bits - 1)

\* Mutant: the loop over the levels is the outer one.
Row_level_first(r) == <<r % 2 ^ tree_id_bits, r \div 2 ^ tree_id_bits>>

\* The tree and the level of row r: the loop over the levels is the inner one.
Row(r) == <<r \div 2 ^ level_bits, r % 2 ^ level_bits>>

Lines ==
  [r \in 0 .. 2 ^ tree_id_bits * 2 ^ level_bits - 1 |->
     IF Row(r) \in DOMAIN start_addr_dict
     THEN PlaceLine(start_addr_dict[Row(r)].sram, start_addr_dict[Row(r)].addr)
     ELSE AbsentLine]

\* The script fails in math.log2 when the input has no level at all.
WriteTable ==
  /\ tree_id = MaxTree + 1 /\ mem_output = << >> /\ max_level > 0
  /\ mem_output' = Lines
  /\ UNCHANGED vars

TableInit == Init /\ mem_output = << >>

TableNext == (Next /\ UNCHANGED mem_output) \/ WriteTable

TableSpec == TableInit /\ [][TableNext]_tableVars

-----------------------------------------------------------------------------
\* Reading the table: the row of a level in a table with these widths, cut
\* into the two fields.
SRAMField(line) == line.val \div 2 ^ SRAM_addr_bits
AddrField(line) == line.val % 2 ^ SRAM_addr_bits

\* The levels of the forest.
Levels == UNION {{<<t, l>> : l \in 0 .. depth[t] - 1} : t \in Tree}

(* The table as written gives every level of the forest back: indexed by   *)
(* tree and level, the line holds the SRAM and the start address of room   *)
(* for its 2^l nodes, and all lines have one length, so the image loads.   *)
(* The line for "no such level" is also the line of a level that exists in *)
(* one case only: a root, in the last word of the largest SRAM, the SRAM   *)
(* with the largest number; no deeper level is ever taken for absent.      *)
(* (Fields of zero bits, for one SRAM or one word, are written with a      *)
(* digit all the same.)                                                    *)
TableGivesPlaces ==
  mem_output # << >> =>
    /\ \A r, q \in DOMAIN mem_output : mem_output[r].len = mem_output[q].len
    /\ DOMAIN start_addr_dict = Levels
    /\ SRAM_addr_bits > 0 /\ SRAM_id_bits > 0 =>
         \A e \in Levels :
           LET line  == mem_output[e[1] * 2 ^ level_bits + e[2]]
               place == start_addr_dict[e]
           IN  /\ SRAMField(line) = place.sram /\ AddrField(line) = place.addr
               /\ place.size = 2 ^ e[2]
               /\ line = AbsentLine =>
                    e[2] = 0 /\ place.sram = SRAM_NUM - 1 /\ place.addr + 1 = max_SRAM_addr
=============================================================================
