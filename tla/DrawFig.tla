------------------------------ MODULE DrawFig ------------------------------
(***************************************************************************)
(* The figure that draw.py makes of the output of the simulator: of each   *)
(* flow a list of arrivals and a list of departures, drawn pairwise as the *)
(* points of a scatter plot.  Both lists are read out of dictionaries, in  *)
(* the order in which their keys were first assigned.                      *)
(***************************************************************************)
EXTENDS Integers, Sequences

\* The keys of a dictionary that is assigned line after line.
Keys(lines) ==
  LET first == SelectSeq([i \in DOMAIN lines |-> i],
                         LAMBDA i : \A j \in 1 .. i - 1 : lines[j].meta # lines[i].meta)
  IN  [k \in DOMAIN first |-> lines[first[k]].meta]

\* The value of a key: what it was assigned last.
Lookup(lines, m) ==
  lines[CHOOSE i \in DOMAIN lines :
          lines[i].meta = m /\ \A j \in i + 1 .. Len(lines) : lines[j].meta # m].cyc_value

Pushes(lines) == SelectSeq(lines, LAMBDA l : l.cyc_type = "push_cyc")
Pops(lines)   == SelectSeq(lines, LAMBDA l : l.cyc_type = "pop_cyc")

\* Mutant: departures are entered when they happen, not at the arrival.
diff_cyc_late(lines) == Pops(lines)

\* diff_cyc takes the arrival of a packet and later its departure.
diff_cyc(lines) == lines
push_cyc(lines) == Pushes(lines)

\* The values of the packets of one flow.
FlowList(dict, pfmap, flow) ==
  LET mine == SelectSeq(Keys(dict), LAMBDA m : pfmap[m] = flow)
  IN  [k \in DOMAIN mine |-> Lookup(dict, mine[k])]

flow_push_cyc_list(lines, pfmap, flow) == FlowList(push_cyc(lines), pfmap, flow)
flow_diff_cyc_list(lines, pfmap, flow) == FlowList(diff_cyc(lines), pfmap, flow)
=============================================================================
