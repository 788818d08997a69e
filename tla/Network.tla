------------------------------ MODULE Network ------------------------------
(***************************************************************************)
(* The mesh network of network.cpp.  Cores push packets into their input   *)
(* buffers; network::cycle, called once per simulated cycle, moves packets *)
(* from the input buffers to the buffers on the links, from link to link,  *)
(* and to the output buffers, whose packets it hands to the memory         *)
(* controllers, the banks or the scratch controller.  A cycle goes through *)
(* the buffers in a fixed order; a turn of the loop over one buffer is an  *)
(* action, and cores push packets between cycles only.                     *)
(*                                                                         *)
(* Modelled builds: NETWORK=1 with scalar packets (REAL_MULTICAST=0, reads *)
(* included) or with REAL_MULTICAST=1, WORST_NET=0, HATS=0, scalar         *)
(* algorithms.  A packet's payload is the identity of its updates.         *)
(***************************************************************************)
EXTENDS Integers, Sequences, FiniteSets, SequencesExt, FiniteSetsExt, Selection

CONSTANTS
  process_thr,
  bus_vec_width,       \* _bus_vec_width
  MAX_LABEL,
  FIFO_DEP_LEN,
  MAX_NET_LATENCY,
  Builds               \* the builds of the instance, see Build

\* rows: num_rows.  multicast: REAL_MULTICAST.  delay: the latency of the
\* crossbar to the banks, or Immediate without MODEL_NET_DELAY.  junk: what the
\* words of _map_dest_buf hold that nothing initialises.  The rest bounds the
\* instance: how many packets the cores send, from where, to which lists of
\* destinations, and which memory controllers reads turn to.
Immediate == -1
Build == [rows : Nat \ {0, 1}, multicast : BOOLEAN, delay : Nat \cup {Immediate},
          junk : Nat, packets : Nat, froms : SUBSET Nat, lists : SUBSET Seq(Nat),
          reads : SUBSET (Nat \X Nat)]

ASSUME SizesAssumption ==
  /\ {process_thr, bus_vec_width, MAX_LABEL, FIFO_DEP_LEN, MAX_NET_LATENCY}
       \subseteq Nat \ {0}
ASSUME BuildsAssumption ==
  \A b \in Builds :
    /\ b \in Build
    /\ b.delay < MAX_NET_LATENCY
    /\ b.multicast => b.reads = {}
    /\ b.froms \subseteq 0 .. b.rows * b.rows - 1
    /\ \A r \in b.reads : {r[1], r[2]} \subseteq 0 .. b.rows * b.rows - 1
    /\ \A list \in b.lists :
         /\ list # <<>>
         /\ ~b.multicast => Len(list) = 1
         /\ \A k \in DOMAIN list : list[k] \in 0 .. b.rows * b.rows - 1

VARIABLES
  build,       \* fixed at compile time
  netIn,       \* _net_in_buffer
  netOut,      \* _net_out_buffer
  mcBuf,       \* _mc_buffers
  internal,    \* _internal_buffers
  label,       \* _cur_packet_label
  isDone,      \* the labels set in _is_done
  wait,        \* _bank_to_crossbar
  ptr,         \* _bank_xbar_ptr
  stray,       \* a packet was pushed outside of the buffers
  at,          \* the position in the cycle, see Now
  age,         \* cycles begun since the last push, see Prompt
  sent,        \* how many packets cores have pushed
  executed     \* updates handed to the banks and answers handed on: a
               \* sequence of messages <<packet, index of its destination>>

bankVars == <<wait, ptr, executed>>
vars == <<build, netIn, netOut, mcBuf, internal, label, isDone, bankVars, stray, at, age, sent>>

-----------------------------------------------------------------------------
(* Geometry.  Cores are numbered row by row.  Each link has four buffers;   *)
(* packets move 0..2 towards the core of the higher number.                 *)

num_rows == build.rows
Cores == 0 .. num_rows * num_rows - 1
NumHorizontal == num_rows * (num_rows - 1)
Links == 0 .. 2 * NumHorizontal - 1
Bufs == 0 .. 3
Nowhere == -1

X(c) == c % num_rows
Y(c) == c \div num_rows
Step(a, b) == IF b > a THEN 1 ELSE -1

\* _routing_table
Route(c, d) ==
  LET alongX == c + Step(X(c), X(d))
      alongY == c + Step(Y(c), Y(d)) * num_rows
      xFirst == X(c) # num_rows - 1
  IN CASE c = d -> Nowhere
       [] X(c) # X(d) /\ (xFirst \/ Y(c) = Y(d)) -> alongX
       [] OTHER -> alongY

\* mutant: the vertical links numbered from one
LinkMapFromOne(c, d) ==
  LET low == IF c < d THEN c ELSE d
  IN IF Y(c) = Y(d) THEN low - Y(low) ELSE NumHorizontal + low + 1

\* _link_map, for neighbours; horizontal links come first, row by row.
LinkMap(c, d) ==
  LET low == IF c < d THEN c ELSE d
  IN IF Y(c) = Y(d) THEN low - Y(low) ELSE NumHorizontal + low

get_core_id(i) == i % NumHorizontal
get_link_dest_id(i) == get_core_id(i) + IF i < NumHorizontal THEN 1 ELSE num_rows

\* The core at which internal_routing takes a buffer's packets to be.
CoreOf(i, j) == IF j \in {0, 3} THEN get_core_id(i) ELSE get_link_dest_id(i)

\* _map_dest_buf: two words are set.
MapDestBuf(j) == CASE j = 0 -> 2 [] j = 1 -> 3 [] OTHER -> build.junk

\* The other end of a switch between links of one router, from link i.
Switch(i, c, next) ==
  CASE next = c + 1 -> <<i + 1, 0>>
    [] next = c - 1 -> <<i - 1, 3>>
    [] next = c + num_rows -> <<i + num_rows, 0>>
    [] OTHER -> <<i - num_rows, 3>>

-----------------------------------------------------------------------------
(* Packets and buffers                                                      *)

\* dests: what is to be handed over where, <<message, core>> in the order of
\* multicast_dst_core_id.  dest is Nowhere in multicast packets, req is
\* Nowhere except in reads on their way to memory.
Packet(type, dests, dest, req, mc) ==
  [type |-> type, dests |-> dests, dest |-> dest, req |-> req, mc |-> mc, label |-> 0]

is_remote_read(p) == p.type \in {"scalarRequest", "scalarResponse"}
IsMulticast(p) == build.multicast /\ ~is_remote_read(p)

Messages(p) == [k \in DOMAIN p.dests |-> p.dests[k][1]]

\* The part of p for the destinations at the positions I of its list.
Only(p, I) == [p EXCEPT !.dests = Selected(@, I)]

\* Where the list of p has core c itself, and the cores that c reaches over next.
Here(p, c) == {k \in DOMAIN p.dests : p.dests[k][2] = c}
Towards(p, c, next) ==
  {k \in DOMAIN p.dests : p.dests[k][2] # c /\ Route(c, p.dests[k][2]) = next}

Slots == Links \X Bufs

\* The packets that the sequence ps of <<buffer, packet>> has for buffer x.
For(x, ps) ==
  LET mine == Selected(ps, {k \in DOMAIN ps : ps[k][1] = x})
  IN [k \in DOMAIN mine |-> mine[k][2]]

\* A push of the packets in ps into their internal buffers, after a pop from the
\* buffers in the set xs.
Move(xs, ps) ==
  /\ internal' =
       [x \in Slots |->
          (IF x \in xs THEN Tail(internal[x]) ELSE internal[x]) \o For(x, ps)]
  /\ stray' = (stray \/ \E k \in DOMAIN ps : ps[k][1] \notin Slots)

\* A push of the part of a multicast packet that has arrived, if there is one.
HandOut(c, q) ==
  netOut' = IF q.dests = <<>> THEN netOut ELSE [netOut EXCEPT ![c] = Append(@, q)]

-----------------------------------------------------------------------------
(* The order of a cycle: for each core pull_packets_to_network and          *)
(* push_packets_from_network, then internal_routing over the buffers of     *)
(* each link, then serve_memory_requests.  Between cycles at.pos is Idle.   *)

NumCores == num_rows * num_rows
NumSlots == 8 * NumHorizontal
SlotAt(k) == <<k \div 4, k % 4>>
FirstSlot == 2 * NumCores
Idle == 3 * NumCores + NumSlots

\* The buffer whose loop is at position pos.
QueueAt(pos) ==
  CASE pos < FirstSlot /\ pos % 2 = 0 -> netIn[pos \div 2]
    [] pos < FirstSlot /\ pos % 2 = 1 -> netOut[pos \div 2]
    [] pos \in FirstSlot .. FirstSlot + NumSlots - 1 -> internal[SlotAt(pos - FirstSlot)]
    [] OTHER -> mcBuf[pos - FirstSlot - NumSlots]

\* turns counts num_pops or cur_pops of the loop at pos; over, that it ended.
Limit(pos) ==
  IF pos \in FirstSlot .. FirstSlot + NumSlots - 1 THEN bus_vec_width ELSE process_thr
Left ==
  {k \in at.pos .. Idle - 1 :
     /\ QueueAt(k) # <<>>
     /\ k = at.pos => at.turns < Limit(k) /\ ~at.over}

Now == IF Left = {} THEN Idle ELSE Min(Left)

Turn(pos, pops) ==
  at' = [pos |-> pos, turns |-> pops + IF at.pos = pos THEN at.turns ELSE 0, over |-> FALSE]

-----------------------------------------------------------------------------
(* From the cores into the network                                          *)

\* The buffer by which a packet to core d leaves core c.
Exit(c, d) == <<LinkMap(c, Route(c, d)), IF Route(c, d) > c THEN 0 ELSE 3>>

\* encode_scalar_packet
EncodeScalar(c, p) ==
  /\ Move({}, <<<<Exit(c, p.dest), [p EXCEPT !.label = label]>>>>)
  /\ label' = (label + 1) % MAX_LABEL
  /\ UNCHANGED netOut

\* encode_real_multicast: local destinations, those behind a neighbour of a
\* higher number and those behind one of a lower number make a packet each,
\* which leaves by the link of its first destination.
EncodeMulticast(c, p) ==
  LET Behind(S) == Only(p, UNION {Towards(p, c, next) : next \in S})
      local == Only(p, Here(p, c))
      parts == <<Behind({n \in Cores : n > c}), Behind({n \in Cores : n < c})>>
      remote == Selected(parts, {k \in DOMAIN parts : parts[k].dests # <<>>})
      first == label + IF local.dests = <<>> THEN 0 ELSE 1
  IN /\ HandOut(c, [local EXCEPT !.label = label])
     /\ Move({}, [k \in DOMAIN remote |->
                    <<Exit(c, remote[k].dests[1][2]),
                      [remote[k] EXCEPT !.label = (first + k - 1) % MAX_LABEL]>>])
     /\ label' = (first + Len(remote)) % MAX_LABEL

\* One turn of pull_packets_to_network.
Pull(pos, c) ==
  /\ Turn(pos, 1)
  /\ netIn' = [netIn EXCEPT ![c] = Tail(@)]
  /\ LET p == Head(netIn[c])
     IN \/ /\ p.dest = c /\ p.type = "scalarRequest"
           /\ mcBuf' = [mcBuf EXCEPT ![c] = Append(@, p)]
           /\ UNCHANGED <<netOut, internal, stray, label>>
        \/ /\ p.dest = c /\ p.type # "scalarRequest"
           /\ netOut' = [netOut EXCEPT ![c] = Append(@, p)]
           /\ UNCHANGED <<mcBuf, internal, stray, label>>
        \/ /\ p.dest # c
           /\ IF IsMulticast(p) THEN EncodeMulticast(c, p) ELSE EncodeScalar(c, p)
           /\ UNCHANGED mcBuf
  /\ UNCHANGED <<build, isDone, bankVars, age, sent>>

-----------------------------------------------------------------------------
(* Out of the network                                                       *)

\* execute_func(-1, BANK_TO_XBAR, ..) for the updates of p.
Execute(p) ==
  IF build.delay = Immediate
  THEN executed' = executed \o Messages(p) /\ UNCHANGED wait
  ELSE /\ wait' = [wait EXCEPT ![(ptr + build.delay) % MAX_NET_LATENCY] = @ \o Messages(p)]
       /\ UNCHANGED executed

\* One turn of push_packets_from_network.  The test
\* !cur_tuple.packet_type != astarUpdate compares a truth value with the
\* enumerator and holds for every type, so all reads go to memory.
Push(pos, c) ==
  /\ Turn(pos, 1)
  /\ netOut' = [netOut EXCEPT ![c] = Tail(@)]
  /\ LET p == Head(netOut[c])
     IN \/ /\ p.req # Nowhere
           /\ mcBuf' = [mcBuf EXCEPT ![p.mc] = Append(@, p)]
           /\ UNCHANGED <<executed, wait>>
        \/ /\ p.req = Nowhere /\ p.type = "scalarResponse"
           /\ executed' = executed \o Messages(p)      \* _net_data
           /\ UNCHANGED <<mcBuf, wait>>
        \/ /\ p.req = Nowhere /\ p.type # "scalarResponse"
           /\ Execute(p)
           /\ UNCHANGED mcBuf
  /\ UNCHANGED <<build, netIn, internal, label, isDone, ptr, stray, age, sent>>

-----------------------------------------------------------------------------
(* From link to link                                                        *)

\* update_pops_acc_to_bandwidth
Pops(p) == IF p.type = "vectorized" THEN Min({Len(p.dests), bus_vec_width}) ELSE 1

\* The buffer for the neighbour next, from buffer x at core c.
Onward(x, c, next) ==
  IF next = get_link_dest_id(x[1]) THEN <<x[1], MapDestBuf(x[2])>> ELSE Switch(x[1], c, next)

\* transfer_scalar_packet of the front packet p of buffer x, at core c.
TransferScalar(pos, x, c, p) ==
  /\ Move({x}, <<<<Onward(x, c, Route(c, p.dest)), p>>>>)
  /\ Turn(pos, IF Route(c, p.dest) = get_link_dest_id(x[1]) THEN Pops(p) ELSE 0)
  /\ UNCHANGED netOut

\* The neighbours in the order of transfer_multicast_packet, the other end of
\* link i first, that c reaches destinations of p over.
Ways(i, c, p) ==
  LET next == <<get_link_dest_id(i), c + 1, c - 1, c + num_rows, c - num_rows>>
  IN Selected(next, {k \in DOMAIN next : /\ k > 1 => next[k] # next[1]
                                         /\ Towards(p, c, next[k]) # {}})

\* num_pops of the packet that crosses the link, if one does.
Crossed(i, c, p) ==
  LET crossing == Only(p, Towards(p, c, get_link_dest_id(i)))
  IN IF crossing.dests = <<>> THEN 0 ELSE Pops(crossing)

\* mutant: returns before the packet is popped, as if the bus were taken
TransferMulticastReturns(pos, x, c, p) ==
  LET ways == Ways(x[1], c, p)
  IN /\ HandOut(c, Only(p, Here(p, c)))
     /\ Move({}, [k \in DOMAIN ways |->
                    <<Onward(x, c, ways[k]), Only(p, Towards(p, c, ways[k]))>>])
     /\ Turn(pos, Crossed(x[1], c, p))

\* transfer_multicast_packet: a copy for each direction with destinations.
TransferMulticast(pos, x, c, p) ==
  LET ways == Ways(x[1], c, p)
  IN /\ HandOut(c, Only(p, Here(p, c)))
     /\ Move({x}, [k \in DOMAIN ways |->
                     <<Onward(x, c, ways[k]), Only(p, Towards(p, c, ways[k]))>>])
     /\ Turn(pos, Crossed(x[1], c, p))

\* One turn of internal_routing over buffer x.  A label that has moved in this
\* cycle holds the buffer up.
RouteFront(pos, x) ==
  /\ LET p == Head(internal[x])
         c == CoreOf(x[1], x[2])
     IN \/ /\ p.label \in isDone
           /\ at' = [pos |-> pos, turns |-> 0, over |-> TRUE]
           /\ UNCHANGED <<internal, stray, netOut, isDone>>
        \/ /\ p.label \notin isDone
           /\ isDone' = isDone \cup {p.label}
           /\ IF p.dest = c
              THEN /\ netOut' = [netOut EXCEPT ![c] = Append(@, p)]
                   /\ Move({x}, <<>>)
                   /\ Turn(pos, 0)
              ELSE IF IsMulticast(p) THEN TransferMulticast(pos, x, c, p)
                   ELSE TransferScalar(pos, x, c, p)
  /\ UNCHANGED <<build, netIn, mcBuf, label, bankVars, age, sent>>

-----------------------------------------------------------------------------
(* Memory and banks                                                         *)

\* mutant: the answer still looks like a request
ServeAgain(pos, c) ==
  /\ Turn(pos, 1)
  /\ LET p == Head(mcBuf[c])
         answer == [p EXCEPT !.dest = p.req, !.type = "scalarResponse"]
     IN netIn' = [netIn EXCEPT ![p.dest] = Append(@, answer)]
  /\ mcBuf' = [mcBuf EXCEPT ![c] = Tail(@)]
  /\ UNCHANGED <<build, netOut, internal, label, isDone, bankVars, stray, age, sent>>

\* One turn of serve_memory_requests: the answer starts from the core the
\* request was addressed to.
Serve(pos, c) ==
  /\ Turn(pos, 1)
  /\ LET p == Head(mcBuf[c])
         answer == [p EXCEPT !.dest = p.req, !.req = Nowhere, !.type = "scalarResponse"]
     IN netIn' = [netIn EXCEPT ![p.dest] = Append(@, answer)]
  /\ mcBuf' = [mcBuf EXCEPT ![c] = Tail(@)]
  /\ UNCHANGED <<build, netOut, internal, label, isDone, bankVars, stray, age, sent>>

\* asic::simulate: cycle_pending_comp, and later in the cycle network::cycle,
\* which clears _is_done.
cycle_pending_comp ==
  /\ executed' = executed \o wait[ptr]
  /\ wait' = [wait EXCEPT ![ptr] = <<>>]
  /\ ptr' = (ptr + 1) % MAX_NET_LATENCY

buffers_not_empty ==
  \/ \E c \in Cores : mcBuf[c] # <<>> \/ netIn[c] # <<>> \/ netOut[c] # <<>>
  \/ \E x \in Slots : internal[x] # <<>>

\* _delayed_net_tasks != 0
delayed_net_tasks == \E k \in DOMAIN wait : wait[k] # <<>>

BeginCycle ==
  /\ at.pos = Idle
  /\ buffers_not_empty \/ delayed_net_tasks
  /\ cycle_pending_comp
  /\ isDone' = {}
  /\ at' = [pos |-> 0, turns |-> 0, over |-> FALSE]
  /\ UNCHANGED <<build, netIn, netOut, mcBuf, internal, label, stray, sent>>
  /\ age' = age + 1

EndCycle ==
  /\ at.pos # Idle
  /\ Now = Idle
  /\ at' = [pos |-> Idle, turns |-> 0, over |-> FALSE]
  /\ UNCHANGED <<build, netIn, netOut, mcBuf, internal, label, isDone, bankVars, stray, age, sent>>

-----------------------------------------------------------------------------
(* The specification                                                        *)

Init ==
  /\ build \in Builds
  /\ netIn = [c \in Cores |-> <<>>]
  /\ netOut = [c \in Cores |-> <<>>]
  /\ mcBuf = [c \in Cores |-> <<>>]
  /\ internal = [x \in Slots |-> <<>>]
  /\ label = 0
  /\ isDone = {}
  /\ wait = [k \in 0 .. MAX_NET_LATENCY - 1 |-> <<>>]
  /\ ptr = 0
  /\ stray = FALSE
  /\ at = [pos |-> Idle, turns |-> 0, over |-> FALSE]
  /\ age = 0
  /\ sent = 0
  /\ executed = <<>>

Numbered(list) == [k \in DOMAIN list |-> <<<<sent, k>>, list[k]>>]

can_push_in_network(c) == Len(netIn[c]) < FIFO_DEP_LEN

\* push_net_packet
PushNet(c, p) ==
  /\ at.pos = Idle
  /\ sent < build.packets
  /\ can_push_in_network(c)
  /\ netIn' = [netIn EXCEPT ![c] = Append(@, p)]
  /\ sent' = sent + 1
  /\ age' = 0
  /\ UNCHANGED <<build, netOut, mcBuf, internal, label, isDone, bankVars, stray, at>>

\* asic_core::reduce: an update of another core's vertex, alone or batched.
SendUpdates(c) ==
  \E list \in build.lists :
    /\ \A k \in DOMAIN list : list[k] # c
    /\ PushNet(c, IF build.multicast
                  THEN Packet("vectorized", Numbered(list), Nowhere, Nowhere, Nowhere)
                  ELSE Packet("scalarUpdate", Numbered(list), list[1], Nowhere, Nowhere))

\* asic_core::dispatch, astar: a read at core d, of a vertex that core mc owns.
SendRead(c) ==
  \E r \in build.reads :
    PushNet(c, Packet("astarUpdate", Numbered(<<c>>), r[1], c, r[2]))

NetworkStep ==
  \/ BeginCycle
  \/ \E pos \in {Now} \ {Idle} :
       \/ pos < FirstSlot /\ pos % 2 = 0 /\ Pull(pos, pos \div 2)
       \/ pos < FirstSlot /\ pos % 2 = 1 /\ Push(pos, pos \div 2)
       \/ pos - FirstSlot \in 0 .. NumSlots - 1 /\ RouteFront(pos, SlotAt(pos - FirstSlot))
       \/ pos >= FirstSlot + NumSlots /\ Serve(pos, pos - FirstSlot - NumSlots)
  \/ EndCycle

Next == NetworkStep \/ \E c \in build.froms : SendUpdates(c) \/ SendRead(c)

Spec == Init /\ [][Next]_vars

-----------------------------------------------------------------------------
(* Properties                                                               *)

\* Cycles the last packet may need.
Transit == 8 * num_rows

\* Packets in the network, and what they carry.
Buffered ==
  UNION ({ToSet(netIn[c]) \cup ToSet(netOut[c]) \cup ToSet(mcBuf[c]) : c \in Cores}
         \cup {ToSet(internal[x]) : x \in Slots})
Carried(p) == ToSet(Messages(p))
Waiting == UNION {ToSet(wait[k]) : k \in DOMAIN wait}
Occurrences(s) == [m \in ToSet(s) |-> Cardinality({k \in DOMAIN s : s[k] = m})]
Travelling == Waiting \cup UNION {Carried(p) : p \in Buffered}

\* A buffer index the routers compute (a switch from link i to i + 1, i - 1,
\* i + num_rows or i - num_rows, a link number, the word of _map_dest_buf) is
\* always one of a buffer: network.cpp checks none of them, and get_core_id
\* numbers the links of a row differently from fill_link_map.
InBounds == ~stray

\* The mesh delivers every message once, whatever splits and detours: no copy of
\* a multicast packet names a destination of another, and none is dropped.
D == INSTANCE Delivery WITH
       travelling <- Travelling,
       arrived <- Occurrences(executed)
DeliverySpec == D!Spec

\* The network is empty, and buffers_not_empty and _delayed_net_tasks say so,
\* a bounded number of cycles after the last push: no packet circles, waits for
\* ever behind a label that moved, or bounces between a link's two ends.
Prompt == age <= Transit
=============================================================================
