------------------------------ MODULE Preparation ------------------------------
(***************************************************************************)
(* What main (asic.cpp) does with the graph before call_simulate: read the *)
(* edge file into the offset and neighbor arrays, renumber the vertices by *)
(* the METIS slices, count the vertices with copies in other slices, place *)
(* the vertices of each slice on the cores (scratch_controller), renumber  *)
(* them again along a depth-first search, and compute the answer that      *)
(* correctness_check compares with.                                        *)
(*                                                                         *)
(* The loops with an order of their own (lines of the file, slices, the    *)
(* stack of DFS, the heap of fill_correct_vertex_data) are one step per    *)
(* iteration; a function that fills an array is one step.  Modelled: push  *)
(* mode, sssp, a file sorted by source, slices that divide the vertices    *)
(* and METIS parts of equal size.  Not modelled: formats of the file,      *)
(* RANDOM_SPATIAL, DFSMAP and BFS_MAP, the statistics that are printed.    *)
(*                                                                         *)
(* Build.part is _spatial_part, with "balanced" for the values that the    *)
(* switch of perform_spatial_part leaves to its default: bbfs (the branch  *)
(* for it in perform_bdfs_load_balancing is never reached), blocked_dfs    *)
(* and noload.  Build.blocked and Build.noload are the macros BLOCKED_DFS  *)
(* and NOLOAD, which mean something beside BDFS too.                       *)
(***************************************************************************)
EXTENDS Integers, Sequences, FiniteSets, SequencesExt, FiniteSetsExt

CONSTANTS
  NumVertices,            \* _graph_vertices
  NumRows,                \* num_rows; main asserts core_cnt = num_rows^2
  Stride,                 \* process_thr * SPATIAL_STRIDE_FACTOR
  LowDegree, MediumDegree,\* the thresholds 10 and 50 of perform_load_balancing2
  Infinity,               \* MAX_TIMESTAMP - 1
  Files,                  \* edge files: sequences of edges, sorted by source
  Sources,                \* values of _src_vid
  Metis,                  \* METIS partitions into two slices
  Builds

Vertices == 0 .. NumVertices - 1
core_cnt == NumRows * NumRows
Cores == 0 .. core_cnt - 1
Edge == [src : Vertices, dst : Vertices, wgt : Nat \ {0}]
Build == [exec : {"async", "async_slicing", "sync_slicing"}, slices : {1, 2},
          metis : BOOLEAN, part : {"linear", "modulo", "bdfs", "balanced"},
          noload : BOOLEAN, blocked : BOOLEAN, hilbert : BOOLEAN]

ASSUME SizesAssumption ==
  /\ {NumVertices, NumRows, Stride, Infinity} \subseteq Nat \ {0}
  /\ {LowDegree, MediumDegree} \subseteq Nat /\ LowDegree <= MediumDegree
  /\ NumVertices % (2 * core_cnt) = 0
ASSUME FilesAssumption ==   \* the first edge does not also start the last source
  \A f \in Files : /\ f \in Seq(Edge) /\ f # <<>>
                   /\ \A i, j \in DOMAIN f : i <= j => f[i].src <= f[j].src
                   /\ f[1].src = 0 \/ f[1].src # f[Len(f)].src
ASSUME InputsAssumption ==
  /\ Sources \subseteq Vertices
  /\ Metis \subseteq {p \in [Vertices -> 0 .. 1] :
                      Cardinality({v \in Vertices : p[v] = 0}) = NumVertices \div 2}
  /\ Builds \subseteq Build

VARIABLES
  build,      \* fixed at compile time
  pc,         \* what main does next
  file,       \* the edge file
  part,       \* the METIS file: the slice of each vertex
  source,     \* history: the first value of _src_vid
  neighbor,   \* _neighbor
  offset,     \* _offset
  prevV,      \* prev_v of read_graph_structure
  srcVid,     \* _src_vid
  scratch,    \* _scratch: initial values
  name,       \* history: the vertex of the file that each vertex stands for
  boundary,   \* _num_boundary_nodes_per_slice
  copyLoc,    \* _old_vertex_to_copy_location of each slice
  copies,     \* _num_slices_it_is_copy_vertex
  mapping,    \* _mapping
  newToOld,   \* _mapping_new_to_old, as the sequence of ids given so far
  visited,    \* _visited
  stack,      \* stack of DFS
  slice,      \* loop variable over slices
  correct,    \* _correct_vertex_data
  heap,       \* pq of fill_correct_vertex_data
  done        \* _is_visited

input == <<build, file, part, source>>
graph == <<neighbor, offset, prevV, srcVid, scratch, name>>
counts == <<boundary, copyLoc, copies>>
search == <<newToOld, visited, stack>>
answer == <<correct, heap, done>>
vars == <<input, pc, graph, counts, mapping, search, slice, answer>>

-----------------------------------------------------------------------------
(* The graph                                                                *)

Slices == 0 .. build.slices - 1
Sliced == build.exec # "async"
SliceSize == IF Sliced THEN NumVertices \div build.slices ELSE NumVertices
get_slice_num(v) == v \div SliceSize
SliceOf(i) == [j \in 1 .. SliceSize |-> i * SliceSize + j - 1]

Degree(v) == offset[v + 1] - offset[v]
OutEdges(v) == SubSeq(neighbor, offset[v] + 1, offset[v + 1])
EdgesOf(vs) == FlattenSeq([i \in DOMAIN vs |-> OutEdges(vs[i])])

InitScratch(s) == [v \in Vertices |-> IF v = s THEN 0 ELSE Infinity]

\* mutant: the vertices that the file leaves out get no offset
BackfilledNever(o, last, e) == o

\* The vertices up to `last` without an offset yet, which have no edges.
Backfilled(o, last, e) ==
  [v \in DOMAIN o |->
     IF v \in 1 .. last /\ \A k \in v .. last : o[k] = 0 THEN e ELSE o[v]]

\* Vertex i of the renumbered graph is vertex order[i + 1] of this one.
Renumbered(order, new) ==
  LET Renamed(i) == LET out == OutEdges(order[i]) IN
        [k \in DOMAIN out |-> [src |-> i - 1, dst |-> new[out[k].dst],
                               wgt |-> out[k].wgt]]
  IN  FlattenSeq([i \in DOMAIN order |-> Renamed(i)])
RenumberedOffset(order) ==
  LET o[v \in 0 .. NumVertices] ==
        IF v = 0 THEN 0 ELSE o[v - 1] + Degree(order[v])
  IN  o

Init ==
  /\ build \in Builds /\ file \in Files /\ srcVid \in Sources
  /\ part \in IF build.metis THEN Metis ELSE {[v \in Vertices |-> 0]}
  /\ source = srcVid
  /\ pc = "read"
  /\ neighbor = <<>> /\ offset = [v \in 0 .. NumVertices |-> 0] /\ prevV = -1
  /\ scratch = <<>> /\ name = [v \in Vertices |-> v]
  /\ boundary = <<>> /\ copyLoc = <<>> /\ copies = <<>>
  /\ mapping = <<>> /\ newToOld = <<>> /\ visited = {} /\ stack = <<>>
  /\ slice = 0 /\ correct = <<>> /\ heap = {} /\ done = {}

\* read_graph_structure: one line of the file.
ReadLine ==
  /\ pc = "read" /\ Len(neighbor) < Len(file)
  /\ LET e == Len(neighbor)
         f == file[e + 1]
     IN  /\ neighbor' = Append(neighbor, f)
         /\ offset' = IF f.src = prevV THEN offset
                      ELSE Backfilled([offset EXCEPT ![prevV + 1] = e], f.src, e)
         /\ prevV' = f.src
  /\ UNCHANGED <<input, pc, srcVid, scratch, name, counts, mapping, search, slice,
                 answer>>

\* The end of read_graph_structure, and init_vertex_data.
EndOfFile ==
  /\ pc = "read" /\ Len(neighbor) = Len(file)
  /\ offset' = Backfilled([offset EXCEPT ![NumVertices] = Len(file)],
                          NumVertices - 1, Len(file))
  /\ scratch' = InitScratch(srcVid)
  /\ pc' = "count"
  /\ UNCHANGED <<input, neighbor, prevV, srcVid, name, counts, mapping, search,
                 slice, answer>>

-----------------------------------------------------------------------------
(* METIS slices and the vertices with copies in other slices                *)

\* read_metis_slicing: _slice_vids.
SliceVids(i) == SelectSeq([v \in 1 .. NumVertices |-> v - 1], LAMBDA v : part[v] = i)

Foreign(vs, i, SliceNum(_)) ==
  SelectSeq([k \in DOMAIN EdgesOf(vs) |-> EdgesOf(vs)[k].dst],
            LAMBDA d : SliceNum(d) # i)

\* get_linear_sgu_boundary_vertices raises v before it uses it: it looks at the
\* vertices after the first of the slice and at the first of the next one.  (The
\* last slice reads the offset after the last one; taken to be no edges.)
AfterEach(i) == SelectSeq([j \in 1 .. SliceSize |-> i * SliceSize + j],
                          LAMBDA v : v < NumVertices)
LinearBoundary(i) == Cardinality(ToSet(Foreign(AfterEach(i), i, get_slice_num)))

\* get_slice_boundary_nodes stops before the last vertex of the slice: its
\* _slice_size_exact is the index of the last one.
MetisForeign(i) == Foreign(Front(SliceVids(i)), i, LAMBDA d : part[d])

\* mutant: counts an edge each time, without _node_done
MetisBoundaryEdges(i) == Len(MetisForeign(i))

MetisBoundary(i) == Cardinality(ToSet(MetisForeign(i)))

CountBoundary ==
  /\ pc = "count"
  /\ boundary' = IF build.metis THEN [i \in Slices |-> MetisBoundary(i)]
                 ELSE IF build.exec = "async_slicing"
                      THEN [i \in Slices |-> LinearBoundary(i)]
                 ELSE boundary
  /\ pc' = IF build.metis THEN "rename" ELSE "sync"
  /\ UNCHANGED <<input, graph, copyLoc, copies, mapping, search, slice, answer>>

\* _mapping_old_to_new
OldToNew(order) == [v \in Vertices |-> SelectInSeq(order, LAMBDA w : w = v) - 1]

\* The copies of slice i are numbered from 1 in each destination slice, in the
\* order in which its edges meet them.  (The running sum of positions adds what
\* it has just overwritten and stays 0.)
CopyLocation(i) ==
  LET met == MetisForeign(i)
      First(d) == SelectInSeq(met, LAMBDA x : x = d)
  IN  [d \in ToSet(met) |->
         Cardinality({x \in ToSet(met) : part[x] = part[d] /\ First(x) <= First(d)})]

\* The rest of get_slice_boundary_nodes: number the vertices slice by slice.
RenameBySlice ==
  /\ pc = "rename"
  /\ LET order == FlattenSeq([i \in 1 .. build.slices |-> SliceVids(i - 1)])
         new == OldToNew(order)
     IN  /\ copyLoc' = [i \in Slices |->
                          [d \in {new[x] : x \in DOMAIN CopyLocation(i)} |->
                             CopyLocation(i)[order[d + 1]]]]
         /\ neighbor' = Renumbered(order, new)
         /\ offset' = RenumberedOffset(order)
         /\ srcVid' = new[srcVid]
         /\ scratch' = InitScratch(new[srcVid])
         /\ name' = [v \in Vertices |-> name[order[v + 1]]]
  /\ pc' = "sync"
  /\ UNCHANGED <<input, prevV, boundary, copies, mapping, search, slice, answer>>

\* The slices other than its own that vertex v has edges to, each counted once:
\* get_sync_boundary_nodes borrows the presence bits of the task queues.
CopySlices(v) ==
  ToSet([k \in DOMAIN OutEdges(v) |-> get_slice_num(OutEdges(v)[k].dst)])
    \ {get_slice_num(v)}

get_sync_boundary_nodes ==
  /\ pc = "sync"
  /\ copies' = IF build.exec = "sync_slicing"
               THEN [v \in Vertices |-> Cardinality(CopySlices(v))] ELSE copies
  /\ pc' = "linear"
  /\ UNCHANGED <<input, graph, boundary, copyLoc, mapping, search, slice, answer>>

-----------------------------------------------------------------------------
(* Placing the vertices on the cores                                        *)

rot(n, p, rx, ry) ==
  IF ry # 0 THEN p
  ELSE IF rx = 1 THEN <<n - 1 - p[2], n - 1 - p[1]>>
  ELSE <<p[2], p[1]>>

\* The place of cluster d on a mesh of 2^levels rows: two bits of d per level.
HilbertPlace(levels, d) ==
  LET place[k \in 0 .. levels] ==
        IF k = 0 THEN <<0, 0>>
        ELSE LET s == 2 ^ (k - 1)
                 t == d \div 4 ^ (k - 1)
                 rx == (t \div 2) % 2
                 ry == (t + rx) % 2
                 p == rot(s, place[k - 1], rx, ry)
             IN  <<p[1] + s * rx, p[2] + s * ry>>
  IN  place[levels]
Levels == CHOOSE k \in 0 .. NumRows : 2 ^ k >= NumRows
get_hilbert_core(cluster) ==
  LET p == HilbertPlace(Levels, cluster % core_cnt) IN p[1] * NumRows + p[2]

\* mutant: the cores' parts of the graph, not of the slice
get_grp_idOfGraph(m, v) ==
  LET core == m[v] \div (NumVertices \div core_cnt)
  IN  IF core < core_cnt THEN core ELSE 0

get_grp_id(m, v) ==
  LET core == m[v] \div (SliceSize \div core_cnt)
  IN  IF core < core_cnt THEN core ELSE 0

\* get_local_scratch_id: the core of a vertex, under mapping m.
get_local_scratch_id(m, v) ==
  LET cluster == m[v] \div Stride
      mod == cluster % core_cnt
      back == cluster % (2 * core_cnt) >= core_cnt
  IN  IF build.blocked
      THEN IF ~build.hilbert THEN mod
           ELSE get_hilbert_core(IF back THEN core_cnt - mod ELSE mod)
      ELSE IF build.hilbert THEN get_hilbert_core(get_grp_id(m, v)) ELSE get_grp_id(m, v)

\* locality_test: assert(0 && "mapping is incorrect") when no edge of the slice
\* leads to another core.
Located(m, i, next) ==
  IF /\ Sliced /\ core_cnt # 1
     /\ \A e \in ToSet(EdgesOf(SliceOf(i))) :
          get_local_scratch_id(m, e.src) = get_local_scratch_id(m, e.dst)
  THEN "aborted" ELSE next

linear_mapping ==
  /\ pc = "linear"
  /\ mapping' = [v \in Vertices |-> v]
  /\ slice' = 0
  /\ pc' = IF Sliced THEN "place" ELSE "optimize"
  /\ UNCHANGED <<input, graph, counts, search, answer>>

CeilDiv(a, b) == (a + b - 1) \div b
PerCore == SliceSize \div core_cnt

\* One class of vertices dealt to the cores in equal chunks, from slot `base` on.
Chunks(vs, base) ==
  LET size == CeilDiv(Len(vs), core_cnt) IN
  [v \in ToSet(vs) |->
     LET i == SelectInSeq(vs, LAMBDA w : w = v) - 1
     IN  (i \div size) * PerCore + (i % size) + base]

Low(i) == SelectSeq(SliceOf(i), LAMBDA v : Degree(v) < LowDegree)
Medium(i) == SelectSeq(SliceOf(i), LAMBDA v : Degree(v) \in LowDegree .. MediumDegree - 1)
High(i) == SelectSeq(SliceOf(i), LAMBDA v : Degree(v) >= MediumDegree)

perform_load_balancing2(i) ==
  LET low == Low(i)
      medium == Medium(i)
      lows == CeilDiv(Len(low), core_cnt)
      mediums == CeilDiv(Len(medium), core_cnt)
      slot == [c \in {"low", "medium", "high"} |->
                 CASE c = "low" -> Chunks(low, 0)
                   [] c = "medium" -> Chunks(medium, lows)
                   [] c = "high" -> Chunks(High(i), lows + mediums)]
      class(v) == IF v \in ToSet(low) THEN "low"
                  ELSE IF v \in ToSet(medium) THEN "medium" ELSE "high"
  IN  [v \in Vertices |->
         IF get_slice_num(v) = i THEN slot[class(v)][v] ELSE mapping[v]]

perform_linear_load_balancing(i) ==
  [v \in Vertices |->
     IF get_slice_num(v) = i THEN v - i * SliceSize ELSE mapping[v]]
perform_modulo_load_balancing(i) ==
  [v \in Vertices |->
     IF get_slice_num(v) = i
     THEN (v % core_cnt) * PerCore + (v - i * SliceSize) \div core_cnt
     ELSE mapping[v]]

NextSlice(next) ==
  /\ slice' = slice + 1
  /\ pc' = Located(mapping', slice, IF slice + 1 \in Slices THEN pc ELSE next)

\* One iteration of perform_spatial_part without a search.
Place ==
  /\ pc = "place" /\ build.part \in {"linear", "modulo", "balanced"}
  /\ mapping' = CASE build.part = "linear" -> perform_linear_load_balancing(slice)
                  [] build.part = "modulo" -> perform_modulo_load_balancing(slice)
                  [] build.part = "balanced" -> perform_load_balancing2(slice)
  /\ UNCHANGED <<input, graph, counts, search, answer>>
  /\ NextSlice("optimize")

\* perform_bdfs_load_balancing: one search, from the first vertex of the slice.
StartSearch ==
  /\ pc = "place" /\ build.part = "bdfs"
  /\ stack' = <<slice * SliceSize>>
  /\ pc' = "search"
  /\ UNCHANGED <<input, graph, counts, mapping, newToOld, visited, slice, answer>>

\* Vertices take the next values of _global_ind, which runs on over all slices.
Numbered(vs) ==
  /\ newToOld' = newToOld \o vs
  /\ visited' = visited \cup ToSet(vs)
  /\ mapping' = [v \in Vertices |->
       IF v \in ToSet(vs) THEN Len(newToOld) + SelectInSeq(vs, LAMBDA w : w = v) - 1
       ELSE mapping[v]]

\* mutant: the search leaves the slice
DFSEverywhere ==
  /\ pc = "search" /\ stack # <<>>
  /\ LET s == Last(stack)
         dsts == [k \in DOMAIN OutEdges(s) |-> OutEdges(s)[k].dst]
     IN  /\ Numbered(IF s \in visited THEN <<>> ELSE <<s>>)
         /\ stack' = Front(stack) \o SelectSeq(dsts, LAMBDA d : d \notin visited \cup {s})
  /\ UNCHANGED <<input, pc, graph, counts, slice, answer>>

\* DFS: one pop.  A vertex may be on the stack several times.
DFS ==
  /\ pc = "search" /\ stack # <<>>
  /\ LET s == Last(stack)
         dsts == [k \in DOMAIN OutEdges(s) |-> OutEdges(s)[k].dst]
     IN  /\ Numbered(IF s \in visited THEN <<>> ELSE <<s>>)
         /\ stack' = Front(stack) \o
              SelectSeq(dsts, LAMBDA d : /\ get_slice_num(d) = slice
                                         /\ d \notin visited \cup {s})
  /\ UNCHANGED <<input, pc, graph, counts, slice, answer>>

\* The vertices of the slice that the search has not met.
NumberRest ==
  /\ pc = "search" /\ stack = <<>>
  /\ Numbered(SelectSeq(SliceOf(slice), LAMBDA v : v \notin visited))
  /\ slice' = slice + 1
  /\ pc' = IF slice + 1 \in Slices THEN "place" ELSE "optimize"
  /\ UNCHANGED <<input, graph, counts, stack, answer>>

\* optimize_load looks for the source while it renames it: a vertex that comes
\* later and was called what the source is called now is taken for the source.
SourceAfter ==
  FoldLeft(LAMBDA s, i : IF newToOld[i] = s THEN i - 1 ELSE s,
                 srcVid, [i \in DOMAIN newToOld |-> i])

\* optimize_load: renumber along the search (only with a METIS file), then place
\* every slice with perform_load_balancing2.  (The answer that it computes is
\* computed again by main.)
optimize_load ==
  /\ pc = "optimize" /\ build.part = "bdfs" /\ ~build.noload
  /\ IF build.metis
     THEN /\ neighbor' = Renumbered(newToOld, mapping)
          /\ offset' = RenumberedOffset(newToOld)
          /\ srcVid' = SourceAfter
          /\ scratch' = InitScratch(SourceAfter)
          /\ name' = [v \in Vertices |-> name[newToOld[v + 1]]]
     ELSE UNCHANGED <<neighbor, offset, srcVid, scratch, name>>
  /\ mapping' = [v \in Vertices |-> v]
  /\ slice' = 0 /\ pc' = "balance"
  /\ UNCHANGED <<input, prevV, counts, search, answer>>

Balance ==
  /\ pc = "balance"
  /\ mapping' = perform_load_balancing2(slice)
  /\ UNCHANGED <<input, graph, counts, search, answer>>
  /\ NextSlice("test")

\* The last locality_test of perform_spatial_part, and the start of
\* fill_correct_vertex_data.
Placed ==
  /\ \/ pc = "optimize" /\ (build.part # "bdfs" \/ build.noload)
     \/ pc = "test"
  /\ correct' = InitScratch(srcVid)
  /\ heap' = {<<0, srcVid>>}
  /\ done' = {srcVid}
  /\ UNCHANGED <<input, graph, counts, mapping, search, slice>>
  /\ pc' = Located(mapping, 0, "answer")

-----------------------------------------------------------------------------
(* The answer                                                               *)

Lowest(h) == CHOOSE x \in h : \A y \in h : x[1] < y[1] \/ (x[1] = y[1] /\ x[2] <= y[2])

\* mutant: a vertex that has a value is not improved
RelaxedOnce(a, e) ==
  LET dist == a.correct[e.src] + e.wgt IN
  IF e.dst \in done' \/ a.correct[e.dst] < Infinity THEN a
  ELSE [correct |-> [a.correct EXCEPT ![e.dst] = dist],
        heap |-> a.heap \cup {<<dist, e.dst>>}]

Relaxed(a, e) ==
  LET dist == a.correct[e.src] + e.wgt IN
  IF e.dst \in done' \/ a.correct[e.dst] <= dist THEN a
  ELSE [correct |-> [a.correct EXCEPT ![e.dst] = dist],
        heap |-> a.heap \cup {<<dist, e.dst>>}]

\* fill_correct_vertex_data: one pop.  Entries of older values stay in the heap.
PopHeap ==
  /\ pc = "answer" /\ heap # {}
  /\ LET top == Lowest(heap)
         a == FoldLeft(Relaxed, [correct |-> correct, heap |-> heap \ {top}],
                       OutEdges(top[2]))
     IN  /\ done' = done \cup {top[2]}
         /\ correct' = a.correct
         /\ heap' = a.heap
  /\ UNCHANGED <<input, pc, graph, counts, mapping, search, slice>>

Ready ==
  /\ pc = "answer" /\ heap = {}
  /\ pc' = "ready"
  /\ UNCHANGED <<input, graph, counts, mapping, search, slice, answer>>

Next ==
  \/ ReadLine \/ EndOfFile \/ CountBoundary \/ RenameBySlice
  \/ get_sync_boundary_nodes \/ linear_mapping \/ Place \/ StartSearch \/ DFS
  \/ NumberRest \/ optimize_load \/ Balance \/ Placed \/ PopHeap \/ Ready

Spec == Init /\ [][Next]_vars

-----------------------------------------------------------------------------
(* Properties                                                               *)

Original(e) == [src |-> name[e.src], dst |-> name[e.dst], wgt |-> e.wgt]
SourceMoves == build.part = "bdfs" /\ build.metis

\* The arrays always hold the graph of the file, through both renumberings: the
\* edges between two offsets are those of one vertex, every edge of the file is
\* there under its new names, and the source is the same vertex (except after
\* optimize_load, whose search for it may go astray).
SameGraph ==
  pc # "read" =>
    /\ \A v \in Vertices : \A k \in DOMAIN neighbor :
         neighbor[k].src = v <=> k \in offset[v] + 1 .. offset[v + 1]
    /\ {Original(neighbor[k]) : k \in DOMAIN neighbor} = ToSet(file)
    /\ Len(neighbor) = Len(file)
    /\ scratch = InitScratch(srcVid)
    /\ name[srcVid] = source \/ SourceMoves

\* A slice is what is in the scratchpad at a time.  Renumbering along the search
\* keeps every vertex in its slice: the numbers given so far are distinct, and
\* those of a finished slice are the slice's own.  So the vertices of a METIS
\* part make up the slice of that number, through both renumberings, the second
\* of which knows nothing of the parts.
SlicesKept ==
  /\ \A i, j \in DOMAIN newToOld : newToOld[i] = newToOld[j] => i = j
  /\ \A i \in DOMAIN newToOld : get_slice_num(i - 1) = get_slice_num(newToOld[i])
  /\ build.metis /\ pc \notin {"read", "count", "rename"} =>
       \A v \in Vertices : get_slice_num(v) = part[name[v]]

At(c, vs) == Cardinality({v \in ToSet(vs) : get_local_scratch_id(mapping, v) = c})
ByDegree == \/ build.part = "balanced" /\ Sliced
            \/ build.part = "bdfs" /\ ~build.noload

\* The vertices of slice i at core c, unless they are placed by degree.  With
\* BDFS and NOLOAD but without BLOCKED_DFS the numbers of the search, which run
\* on from slice to slice, are divided as if they started at 0 in each: get_grp_id
\* sends every slice but the first to core 0 altogether.
Share(i, c) ==
  IF build.part = "bdfs" /\ ~build.blocked /\ i > 0
  THEN IF c = 0 THEN SliceSize ELSE 0
  ELSE PerCore

\* Linear, modulo and clustered placement give every core the same part of every
\* slice (Stride divides it); what an unclustered search does instead is Share.
\* Placed by degree, asic.hh:286 "similar number of low, medium and high degree
\* vertices", no core gets more than its share of a class, although the chunks of
\* one class may reach into the slots of the next core, or past the last one.
\* Nothing is claimed of BLOCKED_DFS with placement by degree, whose chunks lie
\* one core's part of the slice apart and are then dealt out in strides: those
\* of a small class may all fall on one core.
EvenLoad ==
  pc \in {"answer", "ready"} /\ ~(ByDegree /\ build.blocked) =>
    \A i \in (IF Sliced THEN Slices ELSE {0}), c \in Cores :
      IF ByDegree
      THEN \A vs \in {Low(i), Medium(i), High(i)} : At(c, vs) <= CeilDiv(Len(vs), core_cnt)
      ELSE At(c, SliceOf(i)) = Share(i, c)

\* The vertices of other slices that slice i leads to, as the arrays are now; the
\* edges of the vertex that is last in its METIS part are not looked at.
LedTo(i) ==
  {e.dst : e \in {x \in ToSet(neighbor) :
    /\ get_slice_num(x.src) = i /\ name[x.src] # Last(SliceVids(i))
    /\ get_slice_num(x.dst) # i}}

\* check_async_slice_switch (SLICE_HRST=0) leaves a slice after SLICE_ITER times
\* the remote updates that get_slice_boundary_nodes has counted for it, before
\* the vertices got the numbers they have in the run.  The count still is that of
\* the graph that is run: two renumberings later it is the number of vertices of
\* other slices that the vertices counted (all but the last: asic.cpp:12064) lead to.
BoundaryCurrent ==
  pc = "ready" /\ build.metis =>
    \A i \in Slices : boundary[i] = Cardinality(LedTo(i))

\* The answer is the shortest distance from the source in the graph of the
\* file: no edge improves it, and every value is the end of a path.
AnswerExact ==
  pc = "ready" =>
    LET d == [v \in Vertices |-> correct[CHOOSE w \in Vertices : name[w] = v]]
        s == name[srcVid]
        Reached(v) == d[v] < Infinity
    IN  /\ d[s] = 0
        /\ \A e \in ToSet(file) : Reached(e.src) => d[e.dst] <= d[e.src] + e.wgt
        /\ \A v \in Vertices \ {s} : Reached(v) =>
             \E e \in ToSet(file) :
               e.dst = v /\ Reached(e.src) /\ d[v] = d[e.src] + e.wgt

=============================================================================
