-------------------------- MODULE CompletionBuffer --------------------------
(***************************************************************************)
(* The read path: dispatch allocates completion buffer entries and sends   *)
(* line reads (access_edge), the memory controller coalesces reads of a    *)
(* line that is already outstanding, DRAM answers lines in any order       *)
(* (read_complete), and the completion buffer hands the edges to the core  *)
(* in the order of allocation (cb_to_lsq).                                 *)
(*                                                                         *)
(* In the synchronous model the first edge of a task also reads its source *)
(* vertex, through a dummy entry that carries no edge.  With EDGE_CACHE a  *)
(* read that hits the L2 answers at once.                                  *)
(***************************************************************************)
EXTENDS Integers, Sequences, FiniteSets

CONSTANTS
  Cores,
  Edges,                   \* what an edge's pref_tuple stands for
  VertexLines, EdgeLines,  \* the cache lines of vertex data and of edges
  COMPLETION_BUFFER_SIZE,
  FIFO_DEP_LEN,            \* limit of the buffer's _pref_lsq
  AGG_FIFO_DEP_LEN,        \* limit of the core's _pref_lsq (_agg_fifo_length)
  Builds,                  \* combinations of the options below and of loads
  Dummy,                   \* src_id = -1: no edge
  Stray,                   \* a src_id nobody wrote
  NoCore                   \* no dispatch is under way

Slots == 0 .. COMPLETION_BUFFER_SIZE - 1
Lines == VertexLines \cup EdgeLines
Tuples == Edges \cup {Dummy, Stray}

ASSUME SizesAssumption ==
  /\ COMPLETION_BUFFER_SIZE \in Nat \ {0}
  /\ FIFO_DEP_LEN \in Nat \ {0}
  /\ AGG_FIFO_DEP_LEN \in Nat \ {0}
ASSUME BuildsAssumption ==
  Builds \subseteq [sync : BOOLEAN, allEdges : BOOLEAN, edgeCache : BOOLEAN,
                    fresh : SUBSET {Dummy, Stray}, edgesOf : [Cores -> SUBSET Edges],
                    longTasks : BOOLEAN]
ASSUME NamesAssumption ==
  /\ Dummy \notin Edges /\ Stray \notin Edges /\ Dummy # Stray
  /\ NoCore \notin Cores
ASSUME LinesAssumption == VertexLines \cap EdgeLines = {} /\ IsFiniteSet(EdgeLines)

VARIABLES
  build,         \* the options of this build and its load, which never change
  push, pop,     \* _cur_cb_push_ptr, _cur_cb_pop_ptr
  remaining,     \* _entries_remaining
  valid,         \* _reorder_buf[i].valid
  waiting,       \* _reorder_buf[i].waiting_addr
  tuple,         \* _reorder_buf[i].cur_tuple
  outstanding,   \* _outstanding_mem_req: the requests waiting for each line
  cached,        \* lines in the L2
  prefLsq,       \* completion_buffer::_pref_lsq
  lsq,           \* asic_core::_pref_lsq[0]
  burst,         \* the core inside dispatch's loop
  issued,        \* history: edges asked for and not handed over yet
  out            \* the last edge handed to the process stage

ringVars == <<push, pop, remaining, valid, waiting, tuple>>
vars == <<build, ringVars, outstanding, cached, prefLsq, lsq, burst, issued, out>>

\* build.fresh: what the cur_tuple.src_id of a new entry may be, the constructor
\* does not set it.  build.edgesOf, build.longTasks: the load, that is the edges
\* of the tasks each core has, and whether a task may have more than one.
\* is_sync(): source vertices are read too.  One entry waits for several lines
\* of edges.  Reads look into the L2 first.
SYNC == build.sync
ALL_EDGE_ACCESS == build.allEdges
EDGE_CACHE == build.edgeCache

Request == [line : Lines, core : Cores, slot : Slots, tuple : Edges \cup {Dummy}]

Plus(i, n) == (i + n) % COMPLETION_BUFFER_SIZE

Init ==
  /\ build \in Builds
  /\ push = [c \in Cores |-> 0]
  /\ pop = [c \in Cores |-> 0]
  /\ remaining = [c \in Cores |-> COMPLETION_BUFFER_SIZE]
  /\ valid = [c \in Cores |-> [i \in Slots |-> FALSE]]
  /\ waiting = [c \in Cores |-> [i \in Slots |-> -1]]
  /\ tuple \in [Cores -> [Slots -> build.fresh]]
  /\ outstanding = {}
  /\ cached = {}
  /\ prefLsq = [c \in Cores |-> <<>>]
  /\ lsq = [c \in Cores |-> <<>>]
  /\ burst = NoCore
  /\ issued = [c \in Cores |-> <<>>]
  /\ out = [c \in Cores |-> Dummy]

-----------------------------------------------------------------------------
(* Actions                                                                  *)

\* dispatch starts a task with more than two free entries and goes on to the
\* next edge with more than min_cb.
MinCB == IF SYNC THEN 2 ELSE 1
MayAccessToLast(c) == burst \in {NoCore, c} /\ remaining[c] > MinCB - 1  \* mutant
MayAccess(c) ==
  \/ burst = NoCore /\ remaining[c] > 2
  \/ burst = c /\ remaining[c] > MinCB

\* The lines one access reads; ALL_EDGE_ACCESS asks for as many lines as there
\* are free entries, though they share one entry.
LineSets(room) ==
  {S \in SUBSET EdgeLines :
     Cardinality(S) \in 1 .. (IF ALL_EDGE_ACCESS THEN room ELSE 1)}

\* The requests of one access of core c: the vertex's through a dummy entry,
\* the edge's through the next entry, or the same one under ALL_EDGE_ACCESS.
VertexRequest(c, vline, dummy) ==
  IF dummy THEN {[line |-> vline, core |-> c, slot |-> push[c], tuple |-> Dummy]} ELSE {}
EdgeSlot(c, dummy) == IF dummy /\ ~ALL_EDGE_ACCESS THEN Plus(push[c], 1) ELSE push[c]
EdgeRequests(c, e, S, dummy) ==
  {[line |-> l, core |-> c, slot |-> EdgeSlot(c, dummy), tuple |-> e] : l \in S}

\* send_mem_request: the reads that the L2 does not answer join the others
\* that are outstanding for their line (send_mem_request_actual).
Misses(requests) == {r \in requests : ~(EDGE_CACHE /\ r.line \in cached)}
For(requests, c, i) == {r \in requests : r.core = c /\ r.slot = i}

\* A hit that is the last an entry waits for validates it, unless it is the
\* vertex's.
HitCompletes(misses, c, slot) == For(misses, c, slot) = {}

\* access_edge with access_src_vertex_prop, access_all_edges and
\* send_mem_request.
AccessEdge(c, e, first, vline, S) ==
  LET dummy == SYNC /\ first
      slot == EdgeSlot(c, dummy)
      used == IF dummy /\ ~ALL_EDGE_ACCESS THEN 2 ELSE 1
      misses == Misses(VertexRequest(c, vline, dummy) \cup EdgeRequests(c, e, S, dummy))
  IN /\ MayAccess(c)
     /\ e \in build.edgesOf[c]
     /\ burst = c => ~first
     /\ S \in LineSets(IF dummy THEN remaining[c] - 1 ELSE remaining[c])
     /\ push' = [push EXCEPT ![c] = Plus(@, used)]
     /\ remaining' = [remaining EXCEPT ![c] = @ - used]
     /\ outstanding' = outstanding \cup misses
     /\ waiting' = [waiting EXCEPT ![c] =
          [i \in Slots |-> IF i \in {push[c], slot} THEN Cardinality(For(misses, c, i)) ELSE @[i]]]
     /\ IF HitCompletes(misses, c, slot)
        THEN /\ valid' = [valid EXCEPT ![c][slot] = TRUE]
             /\ tuple' = [tuple EXCEPT ![c][slot] = e]
        ELSE UNCHANGED <<valid, tuple>>
     /\ issued' = [issued EXCEPT ![c] = Append(@, e)]
     /\ burst' \in {NoCore} \cup
          IF build.longTasks /\ ~ALL_EDGE_ACCESS /\ remaining'[c] > MinCB THEN {c} ELSE {}
     /\ UNCHANGED <<build, pop, cached, prefLsq, lsq, out>>

\* Everyone who waits for the line, what an entry still waits for once they
\* are served, and whether that completes it.
WaiterOnly(line) ==  \* mutant
  LET all == {r \in outstanding : r.line = line}
  IN IF all = {} THEN {} ELSE {CHOOSE r \in all : TRUE}
Waiters(line) == {r \in outstanding : r.line = line}
Left(done, c, i) == waiting[c][i] - Cardinality(For(done, c, i))
Completes(done, c, i) == For(done, c, i) # {} /\ Left(done, c, i) = 0
EdgesFor(done, c, i) == {r.tuple : r \in For(done, c, i)} \ {Dummy}

\* read_complete.  With EDGE_CACHE a line that completes an entry is put into
\* the L2, over any victim.
ReadComplete(line) ==
  LET done == Waiters(line)
  IN /\ burst = NoCore
     /\ done # {}
     /\ outstanding' = {r \in outstanding : r.line # line}
     /\ waiting' = [c \in Cores |-> [i \in Slots |-> Left(done, c, i)]]
     /\ valid' = [c \in Cores |-> [i \in Slots |-> valid[c][i] \/ Completes(done, c, i)]]
     /\ tuple' = [c \in Cores |-> [i \in Slots |->
          IF EdgesFor(done, c, i) = {} THEN tuple[c][i]
          ELSE CHOOSE e \in EdgesFor(done, c, i) : TRUE]]
     /\ IF EDGE_CACHE /\ \E c \in Cores, i \in Slots : Completes(done, c, i)
        THEN \E victims \in SUBSET cached : cached' = (cached \ victims) \cup {line}
        ELSE UNCHANGED cached
     /\ UNCHANGED <<build, push, pop, remaining, prefLsq, lsq, burst, issued, out>>

\* The edges among the n entries from the pop pointer on, in order.
Kept(tuples, n) ==
  LET kept[k \in 0 .. n] ==
        IF k = 0 THEN <<>>
        ELSE IF tuples[k] = Dummy THEN kept[k - 1] ELSE Append(kept[k - 1], tuples[k])
  IN kept[n]
Front(c, n) == Kept([k \in 1 .. n |-> tuple[c][Plus(pop[c], k - 1)]], n)

\* cb_to_lsq releases valid entries from the pop pointer on, once round at the
\* most, as long as the queue has room; dummy entries leave no trace.
CanReleaseUnready(c, n) ==  \* mutant
  \A k \in 1 .. n : /\ n <= COMPLETION_BUFFER_SIZE - remaining[c]
                    /\ Len(prefLsq[c]) + Len(Front(c, k - 1)) < FIFO_DEP_LEN
CanRelease(c, n) ==
  \A k \in 1 .. n : /\ valid[c][Plus(pop[c], k - 1)]
                    /\ Len(prefLsq[c]) + Len(Front(c, k - 1)) < FIFO_DEP_LEN
CbToLsq(c) ==
  /\ burst = NoCore
  /\ \E n \in 1 .. COMPLETION_BUFFER_SIZE :
       LET released == {Plus(pop[c], k) : k \in 0 .. n - 1}
       IN /\ CanRelease(c, n)
          /\ n = COMPLETION_BUFFER_SIZE \/ ~CanRelease(c, n + 1)
          /\ prefLsq' = [prefLsq EXCEPT ![c] = @ \o Front(c, n)]
          /\ remaining' = [remaining EXCEPT ![c] = @ + n]
          /\ pop' = [pop EXCEPT ![c] = Plus(@, n)]
          /\ valid' = [valid EXCEPT ![c] = [i \in Slots |-> @[i] /\ i \notin released]]
          /\ tuple' = [tuple EXCEPT ![c] =
               [i \in Slots |-> IF i \in released THEN Dummy ELSE @[i]]]
  /\ UNCHANGED <<build, push, waiting, outstanding, cached, lsq, burst, issued, out>>

\* sgu::cycle moves what fits from the buffer's queue to the core's.
MoveToCore(c) ==
  /\ burst = NoCore
  /\ prefLsq[c] # <<>>
  /\ Len(lsq[c]) < AGG_FIFO_DEP_LEN
  /\ LET room == AGG_FIFO_DEP_LEN - Len(lsq[c])
         n == IF room < Len(prefLsq[c]) THEN room ELSE Len(prefLsq[c])
     IN /\ lsq' = [lsq EXCEPT ![c] = @ \o SubSeq(prefLsq[c], 1, n)]
        /\ prefLsq' = [prefLsq EXCEPT ![c] = SubSeq(@, n + 1, Len(@))]
  /\ UNCHANGED <<build, ringVars, outstanding, cached, burst, issued, out>>

\* One iteration of consume_lsq_responses.
Consume(c) ==
  /\ burst = NoCore
  /\ lsq[c] # <<>>
  /\ out' = [out EXCEPT ![c] = Head(lsq[c])]
  /\ lsq' = [lsq EXCEPT ![c] = Tail(@)]
  /\ issued' = [issued EXCEPT ![c] = IF @ = <<>> THEN @ ELSE Tail(@)]
  /\ UNCHANGED <<build, ringVars, outstanding, cached, prefLsq, burst>>

Next ==
  \/ \E c \in Cores, e \in Edges, first \in BOOLEAN, vline \in VertexLines, S \in SUBSET EdgeLines :
       AccessEdge(c, e, first, vline, S)
  \/ \E line \in Lines : ReadComplete(line)
  \/ \E c \in Cores : CbToLsq(c) \/ MoveToCore(c) \/ Consume(c)

\* DRAM answers every transaction; dispatch's loop goes on to the next edge of
\* its task; sgu::cycle runs every stage in every cycle.
Fairness ==
  /\ \A line \in Lines : WF_vars(ReadComplete(line))
  /\ \A c \in Cores :
       /\ WF_vars(burst = c /\ \E e \in Edges, vline \in VertexLines, S \in SUBSET EdgeLines :
                                  AccessEdge(c, e, FALSE, vline, S))
       /\ WF_vars(CbToLsq(c))
       /\ WF_vars(MoveToCore(c))
       /\ WF_vars(Consume(c))

Spec == Init /\ [][Next]_vars /\ Fairness

-----------------------------------------------------------------------------
(* Properties                                                               *)

Used(c) == COMPLETION_BUFFER_SIZE - remaining[c]
InUse(c) == {Plus(pop[c], k) : k \in 0 .. Used(c) - 1}

\* The entries between the pointers are the ones the free-entry counter misses,
\* and only they are valid or waited for: allocate_cb_entry's assertions hold
\* round the wrap.  One entry always stays free, so equal pointers mean an
\* empty buffer, as pipeline_inactive reads them.
RingExact ==
  \A c \in Cores :
    /\ remaining[c] \in 1 .. COMPLETION_BUFFER_SIZE
    /\ push[c] = Plus(pop[c], Used(c))
    /\ \A i \in Slots \ InUse(c) : ~valid[c][i] /\ For(outstanding, c, i) = {}

\* An entry waits for exactly the requests that are outstanding for it, however
\* they were coalesced with other reads of their lines (read_complete asserts
\* waiting_addr > 0 and an entry that is not valid yet), and it is valid, so that
\* cb_to_lsq can release it, exactly when it waits for none: "the computation
\* should start when the required number of elements have arrived" (asic.hh:68).
WaitingExact ==
  \A c \in Cores : \A i \in InUse(c) :
    /\ waiting[c][i] = Cardinality(For(outstanding, c, i))
    /\ valid[c][i] <=> waiting[c][i] = 0

\* What the entries hold or are going to hold.
Coming(c, i) == {r.tuple : r \in For(outstanding, c, i)} \ {Dummy}
Contents(c) ==
  [i \in Slots |->
     IF Coming(c, i) = {} THEN tuple[c][i] ELSE CHOOSE e \in Coming(c, i) : TRUE]
Pipeline(c) ==
  lsq[c] \o prefLsq[c] \o
    Kept([k \in 1 .. Used(c) |-> Contents(c)[Plus(pop[c], k - 1)]], Used(c))

\* The edges a core asked for, and no others, are on their way to its process
\* stage in the order it asked for them: reads that return out of order, the
\* wrap of the buffer and full queues neither lose, repeat nor reorder one.
Ordered == \A c \in Cores : issued[c] = Pipeline(c)

\* The buffers implement ordered reads: each edge comes back, once, in order.
Reads == INSTANCE OrderedReads WITH asked <- issued, got <- out, Nothing <- Dummy
OrderedReadsSpec == Reads!Spec
=============================================================================
