---------------------------- MODULE NetworkProofs ----------------------------
(***************************************************************************)
(* Theorems about Network, for every size of the mesh and every list of    *)
(* destinations: the routers stay within the buffers, and every message is *)
(* handed on once, whatever splits, detours and answers lie on its way.    *)
(***************************************************************************)
EXTENDS Network, Numbers, TLAPS, FiniteSetTheorems, SequenceTheorems

\* What network.cpp:15 leaves in the words of _map_dest_buf that nothing sets is
\* the index of a buffer, so that a packet that crosses a link backwards stays
\* in the network.
JunkIsBuffer == \A b \in Builds : b.junk \in Bufs

(***************************************************************************)
(* Packets, and the buffers as one family.                                 *)
(***************************************************************************)

PacketType ==
  [type : {"vectorized", "scalarUpdate", "astarUpdate", "scalarResponse"},
   dests : Seq((Nat \X Nat) \X Cores), dest : Cores \cup {Nowhere},
   req : Cores \cup {Nowhere}, mc : Cores \cup {Nowhere}, label : Nat]

\* The packets of the build: a multicast packet has a list of destinations, a
\* scalar one a destination; a read knows whom to answer and which memory to ask.
Sendable(p) ==
  IF build.multicast
  THEN p.type = "vectorized" /\ p.dest = Nowhere /\ p.req = Nowhere
  ELSE /\ p.type # "vectorized" /\ p.dest \in Cores
       /\ p.req # Nowhere => p.mc \in Cores
Pkt == {p \in PacketType : p.dests # <<>> /\ Sendable(p)}

\* A packet that has crossed a horizontal link eastwards, or is about to come
\* back over it, has its destination further east: none turns back to the west.
East(x, d) == x[1] < NumHorizontal /\ x[2] \in {1, 2} => X(x[1]) < X(d)
Goals(p) == IF build.multicast THEN {p.dests[k][2] : k \in DOMAIN p.dests} ELSE {p.dest}
PktAt(x) == {p \in Pkt : \A d \in Goals(p) : East(x, d)}

TypeOK ==
  /\ build \in Builds
  /\ netIn \in [Cores -> Seq(Pkt)]
  /\ netOut \in [Cores -> Seq(Pkt)]
  /\ mcBuf \in [Cores -> Seq({p \in Pkt : p.req # Nowhere})]
  /\ internal \in [Slots -> Seq(Pkt)]
  /\ \A x \in Slots : internal[x] \in Seq(PktAt(x))
  /\ label \in Nat
  /\ wait \in [0 .. MAX_NET_LATENCY - 1 -> Seq(Nat \X Nat)]
  /\ ptr \in 0 .. MAX_NET_LATENCY - 1
  /\ at.pos \in 0 .. Idle
  /\ sent \in Nat
  /\ executed \in Seq(Nat \X Nat)

Names == ({"in", "out", "mc"} \X Cores) \cup ({"link"} \X Slots)
Buffer(a) ==
  IF a[1] = "in" THEN netIn[a[2]]
  ELSE IF a[1] = "out" THEN netOut[a[2]]
  ELSE IF a[1] = "mc" THEN mcBuf[a[2]]
  ELSE internal[a[2]]
Contents == [a \in Names |-> Buffer(a)]

(***************************************************************************)
(* The inductive invariant: no message is in two places.                   *)
(***************************************************************************)

\* No packet names a message twice, ...
Sound(p) == \A k, l \in DOMAIN p.dests : p.dests[k][1] = p.dests[l][1] => k = l

\* ... no two packets of a buffer share one, ...
Load(q) == UNION {Carried(q[i]) : i \in DOMAIN q}
Sep(q) ==
  /\ \A i \in DOMAIN q : Sound(q[i])
  /\ \A i, j \in DOMAIN q : i # j => Carried(q[i]) \cap Carried(q[j]) = {}

\* ... and no two buffers of a family do.
Total(N, C) == UNION {Load(C[b]) : b \in N}
Separate(N, C) ==
  /\ \A b \in N : Sep(C[b])
  /\ \A a, b \in N : a # b => Load(C[a]) \cap Load(C[b]) = {}

Carrying == Total(Names, Contents)

\* The same of the messages on the crossbar, and of those handed on.
Once(s) == \A i, j \in 1 .. Len(s) : s[i] = s[j] => i = j
Settled ==
  /\ Once(executed)
  /\ \A k \in DOMAIN wait : Once(wait[k])
  /\ \A k, l \in DOMAIN wait : k # l => ToSet(wait[k]) \cap ToSet(wait[l]) = {}
  /\ Waiting \cap ToSet(executed) = {}

\* Messages are in the buffers, on the crossbar or handed on, and were sent.
Elsewhere == Carrying \cap (Waiting \cup ToSet(executed)) = {}
WereSent == \A m \in Carrying \cup Waiting \cup ToSet(executed) : m[1] < sent

IInv ==
  /\ TypeOK
  /\ InBounds
  /\ Separate(Names, Contents)
  /\ Settled
  /\ Elsewhere
  /\ WereSent

\* What a step does in the abstract: the messages s are handed on, or new ones
\* are handed over.
Arrives(s) ==
  /\ executed' = executed \o s
  /\ Carrying \cup Waiting = ToSet(s) \cup Carrying' \cup Waiting'
  /\ ToSet(s) \cap (Carrying' \cup Waiting') = {}
Delivers == \E s \in Seq(Nat \X Nat) : Arrives(s)
Sends == executed' = executed /\ Carrying \cup Waiting \subseteq Carrying' \cup Waiting'

(***************************************************************************)
(* Geometry: rows and columns.                                             *)
(***************************************************************************)

Sizes == build \in Builds

\* A number written with a quotient and a remainder.
LEMMA Division ==
  ASSUME NEW r \in Nat \ {0}, NEW c \in Nat
  PROVE  c \div r \in Nat /\ c % r \in 0 .. r - 1 /\ c = r * (c \div r) + (c % r)
OBVIOUS

\* There is one way to.
LEMMA DivisionUnique ==
  ASSUME NEW r \in Nat \ {0}, NEW q \in Int, NEW x \in 0 .. r - 1, NEW c \in Nat, c = r * q + x
  PROVE  c \div r = q /\ c % r = x
<1> DEFINE p == c \div r
           y == c % r
<1>1. p \in Nat /\ y \in 0 .. r - 1 /\ c = r * p + y
  BY Division
<1> HIDE DEF p, y
<1>2. r * (p - q) = x - y
  BY <1>1
<1>3. CASE p - q >= 1
  <2> DEFINE d == p - q
  <2>1. d \in Int /\ d >= 1 /\ r * d = x - y
    BY <1>1, <1>2, <1>3
  <2> HIDE DEF d
  <2>2. r * d >= r
    BY <2>1
  <2>3. QED
    BY <1>1, <2>1, <2>2
<1>4. CASE p - q <= -1
  <2> DEFINE d == q - p
  <2>1. d \in Int /\ d >= 1 /\ r * d = y - x
    BY <1>1, <1>2, <1>4
  <2> HIDE DEF d
  <2>2. r * d >= r
    BY <2>1
  <2>3. QED
    BY <1>1, <2>1, <2>2
<1>5. p = q /\ y = x
  BY <1>1, <1>2, <1>3, <1>4
<1>6. QED
  BY <1>5 DEF p, y

\* The constants of the mesh.
LEMMA Mesh ==
  ASSUME Sizes
  PROVE  /\ num_rows \in Nat /\ num_rows >= 2
         /\ NumHorizontal \in Nat /\ NumHorizontal >= num_rows
         /\ NumCores \in Nat /\ NumCores = NumHorizontal + num_rows
         /\ Cores = 0 .. NumCores - 1
<1> DEFINE r == num_rows
<1>1. r \in Nat /\ r >= 2
  BY BuildsAssumption DEF Sizes, num_rows, Build
<1> HIDE DEF r
<1>2. r * (r - 1) = r * r - r /\ r * r \in Nat /\ r * r >= 2 * r
  BY <1>1
<1>3. QED
  BY <1>1, <1>2 DEF r, NumHorizontal, NumCores, Cores

\* Every core is in a row and in a column, ...
LEMMA CoreIsAt ==
  ASSUME Sizes, NEW c \in Cores
  PROVE  /\ X(c) \in 0 .. num_rows - 1
         /\ Y(c) \in 0 .. num_rows - 1
         /\ c = num_rows * Y(c) + X(c)
<1> DEFINE r == num_rows
           q == Y(c)
           x == X(c)
<1>1. r \in Nat /\ r >= 2 /\ c \in Nat /\ c <= r * r - 1
  BY Mesh DEF Cores
<1>2. q = c \div r /\ x = c % r
  BY DEF X, Y
<1> HIDE DEF r, q, x
<1>3. q \in Nat /\ x \in 0 .. r - 1 /\ c = r * q + x
  <2>1. r \in Nat \ {0} /\ c \in Nat
    BY <1>1
  <2>2. c \div r \in Nat /\ c % r \in 0 .. r - 1 /\ c = r * (c \div r) + (c % r)
    BY <2>1, Division, Zenon
  <2>3. QED
    BY <1>2, <2>2, Zenon
<1>4. CASE q >= r
  <2>1. r * q >= r * r
    BY <1>1, <1>3, <1>4
  <2>2. QED
    BY <1>1, <1>3, <2>1
<1>5. q \in 0 .. r - 1
  BY <1>1, <1>3, <1>4
<1>6. QED
  BY <1>3, <1>5 DEF r, q, x

\* ... and there is a core in every row and every column.
LEMMA CoreAt ==
  ASSUME Sizes, NEW q \in 0 .. num_rows - 1, NEW x \in 0 .. num_rows - 1,
         NEW c \in Int, c = num_rows * q + x
  PROVE  c \in Cores /\ X(c) = x /\ Y(c) = q
<1> DEFINE r == num_rows
<1>1. r \in Nat /\ r >= 2
  BY Mesh
<1>2. q \in 0 .. r - 1 /\ x \in 0 .. r - 1 /\ c = r * q + x
  OBVIOUS
<1>3. Cores = 0 .. r * r - 1 /\ X(c) = c % r /\ Y(c) = c \div r
  BY DEF Cores, X, Y
<1> HIDE DEF r
<1>4. r * q >= 0 /\ r * q <= r * (r - 1)
  BY <1>1, <1>2
<1>5. r * (r - 1) = r * r - r /\ r * r \in Nat
  BY <1>1
<1>6. c \in Nat /\ c <= r * r - 1
  BY <1>1, <1>2, <1>4, <1>5
<1>7. c \div r = q /\ c % r = x
  BY <1>1, <1>2, <1>6, DivisionUnique
<1>8. QED
  BY <1>3, <1>6, <1>7

\* A core has a neighbour on each side on which there is a row or a column.
LEMMA Neighbours ==
  ASSUME Sizes, NEW c \in Cores
  PROVE  /\ X(c) < num_rows - 1 => c + 1 \in Cores /\ X(c + 1) = X(c) + 1 /\ Y(c + 1) = Y(c)
         /\ X(c) > 0 => c - 1 \in Cores /\ X(c - 1) = X(c) - 1 /\ Y(c - 1) = Y(c)
         /\ Y(c) < num_rows - 1 =>
              c + num_rows \in Cores /\ X(c + num_rows) = X(c) /\ Y(c + num_rows) = Y(c) + 1
         /\ Y(c) > 0 =>
              c - num_rows \in Cores /\ X(c - num_rows) = X(c) /\ Y(c - num_rows) = Y(c) - 1
<1> DEFINE r == num_rows
           q == Y(c)
           x == X(c)
<1>1. r \in Nat /\ r >= 2
  BY Mesh
<1>2. x \in 0 .. r - 1 /\ q \in 0 .. r - 1 /\ c = r * q + x
  BY CoreIsAt
<1>3. \A p \in 0 .. r - 1, y \in 0 .. r - 1, d \in Int :
        d = r * p + y => d \in Cores /\ X(d) = y /\ Y(d) = p
  BY CoreAt, Zenon
<1> HIDE DEF r, q, x
<1>4. c \in Int /\ c + 1 \in Int /\ c - 1 \in Int /\ c + r \in Int /\ c - r \in Int
  BY <1>1, <1>2
<1>5. ASSUME x < r - 1 PROVE c + 1 \in Cores /\ X(c + 1) = x + 1 /\ Y(c + 1) = q
  <2>1. x + 1 \in 0 .. r - 1 /\ c + 1 = r * q + (x + 1)
    BY <1>1, <1>2, <1>5
  <2>2. QED
    BY <1>2, <1>3, <1>4, <2>1, Zenon
<1>6. ASSUME x > 0 PROVE c - 1 \in Cores /\ X(c - 1) = x - 1 /\ Y(c - 1) = q
  <2>1. x - 1 \in 0 .. r - 1 /\ c - 1 = r * q + (x - 1)
    BY <1>1, <1>2, <1>6
  <2>2. QED
    BY <1>2, <1>3, <1>4, <2>1, Zenon
<1>7. ASSUME q < r - 1 PROVE c + r \in Cores /\ X(c + r) = x /\ Y(c + r) = q + 1
  <2>1. q + 1 \in 0 .. r - 1 /\ r * (q + 1) = r * q + r
    BY <1>1, <1>2, <1>7
  <2>2. c + r = r * (q + 1) + x
    <3>1. r * q \in Int
      BY <1>1, <1>2
    <3>2. QED
      BY <1>1, <1>2, <2>1, <3>1
  <2>3. QED
    BY <1>2, <1>3, <1>4, <2>1, <2>2, ZenonT(60)
<1>8. ASSUME q > 0 PROVE c - r \in Cores /\ X(c - r) = x /\ Y(c - r) = q - 1
  <2>1. q - 1 \in 0 .. r - 1 /\ r * (q - 1) = r * q - r
    BY <1>1, <1>2, <1>8
  <2>2. c - r = r * (q - 1) + x
    <3>1. r * q \in Int
      BY <1>1, <1>2
    <3>2. QED
      BY <1>1, <1>2, <2>1, <3>1
  <2>3. QED
    BY <1>2, <1>3, <1>4, <2>1, <2>2, ZenonT(60)
<1>9. QED
  BY <1>5, <1>6, <1>7, <1>8 DEF r, q, x

\* Different cores differ in their row or in their column.
LEMMA CoresDiffer ==
  ASSUME Sizes, NEW c \in Cores, NEW d \in Cores, c # d
  PROVE  X(c) # X(d) \/ Y(c) # Y(d)
<1>1. c = num_rows * Y(c) + X(c) /\ d = num_rows * Y(d) + X(d)
  BY CoreIsAt
<1>2. QED
  BY <1>1, Zenon

\* Who sends a packet on to whom: towards the destination.
Eastward(c, d, n) == n = c + 1 /\ X(c) < X(d)
Westward(c, d, n) == n = c - 1 /\ X(d) < X(c)
Southward(c, d, n) == n = c + num_rows /\ Y(c) < Y(d)
Northward(c, d, n) == n = c - num_rows /\ Y(d) < Y(c)

\* The routing table takes a packet to a neighbour, one step nearer in a row or
\* in a column.
LEMMA RouteIs ==
  ASSUME Sizes, NEW c \in Cores, NEW d \in Cores, c # d, NEW n, n = Route(c, d)
  PROVE  /\ \/ Eastward(c, d, n)
            \/ Westward(c, d, n)
            \/ Southward(c, d, n)
            \/ Northward(c, d, n)
         /\ n \in Cores /\ n # c
<1> DEFINE r == num_rows
<1>1. r \in Nat /\ r >= 2 /\ c \in Int
  BY Mesh DEF Cores
<1>2. /\ X(c) \in 0 .. r - 1 /\ Y(c) \in 0 .. r - 1
      /\ X(d) \in 0 .. r - 1 /\ Y(d) \in 0 .. r - 1
  BY CoreIsAt
<1>3. \/ n = c + Step(X(c), X(d)) /\ X(c) # X(d)
      \/ n = c + Step(Y(c), Y(d)) * r /\ Y(c) # Y(d)
  <2>1. CASE X(c) # X(d) /\ (X(c) # r - 1 \/ Y(c) = Y(d))
    <3>1. n = c + Step(X(c), X(d))
      BY <2>1 DEF Route
    <3>2. QED
      BY <2>1, <3>1
  <2>2. CASE ~ (X(c) # X(d) /\ (X(c) # r - 1 \/ Y(c) = Y(d)))
    <3>1. n = c + Step(Y(c), Y(d)) * r
      BY <2>2 DEF Route
    <3>2. Y(c) # Y(d)
      BY <2>2, CoresDiffer, Zenon
    <3>3. QED
      BY <3>1, <3>2
  <2>3. QED
    BY <2>1, <2>2
<1>4. CASE n = c + Step(X(c), X(d)) /\ X(c) # X(d)
  <2>1. CASE X(c) < X(d)
    <3>1. n = c + 1
      BY <1>2, <1>4, <2>1 DEF Step
    <3>2. X(c) < num_rows - 1
      BY <1>1, <1>2, <2>1
    <3>3. QED
      BY <1>1, <2>1, <3>1, <3>2, Neighbours DEF Eastward
  <2>2. CASE X(d) < X(c)
    <3>1. n = c - 1
      <4>1. Step(X(c), X(d)) = -1
        BY <1>2, <2>2 DEF Step
      <4>2. QED
        BY <1>1, <1>4, <4>1
    <3>2. X(c) > 0
      BY <1>1, <1>2, <2>2
    <3>3. QED
      BY <1>1, <2>2, <3>1, <3>2, Neighbours DEF Westward
  <2>3. QED
    BY <1>2, <1>4, <2>1, <2>2
<1>5. CASE n = c + Step(Y(c), Y(d)) * r /\ Y(c) # Y(d)
  <2>1. CASE Y(c) < Y(d)
    <3>1. n = c + num_rows
      <4>1. Step(Y(c), Y(d)) = 1
        BY <1>2, <2>1 DEF Step
      <4>2. QED
        BY <1>1, <1>5, <4>1
    <3>2. Y(c) < num_rows - 1
      BY <1>1, <1>2, <2>1
    <3>3. QED
      BY <1>1, <2>1, <3>1, <3>2, Neighbours DEF Southward
  <2>2. CASE Y(d) < Y(c)
    <3>1. n = c - num_rows
      <4>1. Step(Y(c), Y(d)) = -1
        BY <1>2, <2>2 DEF Step
      <4> HIDE DEF r
      <4>2. (-1) * r = -r
        BY <1>1
      <4>3. QED
        BY <1>1, <1>5, <4>1, <4>2 DEF r
    <3>2. Y(c) > 0
      BY <1>1, <1>2, <2>2
    <3>3. QED
      BY <1>1, <2>2, <3>1, <3>2, Neighbours DEF Northward
  <2>3. QED
    BY <1>2, <1>5, <2>1, <2>2
<1>6. QED
  BY <1>3, <1>4, <1>5

\* The link between neighbours: of a row ...
LEMMA LinkInRow ==
  ASSUME Sizes, NEW c \in Cores, X(c) < num_rows - 1
  PROVE  c - Y(c) \in 0 .. NumHorizontal - 1
<1> DEFINE r == num_rows
           q == Y(c)
           x == X(c)
<1>1. r \in Nat /\ r >= 2 /\ NumHorizontal = r * (r - 1)
  BY Mesh DEF NumHorizontal
<1>2. x \in 0 .. r - 1 /\ q \in 0 .. r - 1 /\ c = r * q + x /\ x < r - 1
  BY CoreIsAt
<1> HIDE DEF r, q, x
<1> DEFINE e == r - 1
<1>3. e \in Nat /\ r = e + 1
  BY <1>1
<1> HIDE DEF e
<1>4. r * q = e * q + q
  BY <1>2, <1>3
<1>5. e * q \in Nat /\ e * q <= e * e
  BY <1>2, <1>3
<1>6. r * (r - 1) = e * e + e
  BY <1>3
<1>7. c - q = e * q + x /\ e * q + x < e * e + e
  BY <1>2, <1>3, <1>4, <1>5
<1>8. c - q \in 0 .. (e * e + e) - 1
  BY <1>2, <1>3, <1>5, <1>7
<1>9. QED
  BY <1>1, <1>6, <1>8 DEF q

\* ... and of a column.
LEMMA LinkInColumn ==
  ASSUME Sizes, NEW c \in Cores, c + num_rows \in Cores
  PROVE  c \in 0 .. NumHorizontal - 1
<1>1. num_rows \in Nat /\ NumHorizontal \in Nat /\ Cores = 0 .. (NumHorizontal + num_rows) - 1
  BY Mesh
<1>2. QED
  BY <1>1

\* A packet leaves a core by a buffer of a link next to it: for every
\* destination the routing table leads on to a link that exists.
LEMMA ExitIs ==
  ASSUME Sizes, NEW c \in Cores, NEW d \in Cores, c # d
  PROVE  Exit(c, d) \in Slots /\ Exit(c, d)[2] \in {0, 3}
<1> DEFINE n == Route(c, d)
           h == NumHorizontal
           link == LinkMap(c, n)
<1>1. /\ \/ Eastward(c, d, n)
         \/ Westward(c, d, n)
         \/ Southward(c, d, n)
         \/ Northward(c, d, n)
      /\ n \in Cores /\ n # c
  BY RouteIs
<1>2. /\ X(c) \in 0 .. num_rows - 1 /\ Y(c) \in 0 .. num_rows - 1
      /\ X(d) \in 0 .. num_rows - 1 /\ Y(d) \in 0 .. num_rows - 1
  BY CoreIsAt
<1>3. h \in Nat /\ num_rows \in Nat /\ num_rows >= 2 /\ Cores \subseteq Nat
  BY Mesh
<1>4. link = IF Y(c) = Y(n) THEN (IF c < n THEN c ELSE n) - Y(IF c < n THEN c ELSE n)
             ELSE h + (IF c < n THEN c ELSE n)
  BY DEF LinkMap
<1> HIDE DEF n, h, link
<1>5. ASSUME Eastward(c, d, n) PROVE link \in 0 .. 2 * h - 1
  <2>1. X(c) < num_rows - 1 /\ n = c + 1 /\ c < n
    BY <1>2, <1>3, <1>5 DEF Eastward
  <2>2. Y(n) = Y(c)
    BY <2>1, Neighbours
  <2>3. link = c - Y(c)
    BY <1>4, <2>1, <2>2
  <2>4. c - Y(c) \in 0 .. h - 1
    BY <2>1, LinkInRow DEF h
  <2>5. QED
    BY <1>3, <2>3, <2>4
<1>6. ASSUME Westward(c, d, n) PROVE link \in 0 .. 2 * h - 1
  <2>1. X(c) > 0 /\ n = c - 1 /\ ~(c < n)
    BY <1>2, <1>3, <1>6 DEF Westward
  <2>2. Y(n) = Y(c) /\ X(n) = X(c) - 1
    BY <2>1, Neighbours
  <2>3. link = n - Y(n)
    BY <1>4, <2>1, <2>2
  <2>4. X(n) < num_rows - 1
    BY <1>2, <1>3, <2>2
  <2>5. n - Y(n) \in 0 .. h - 1
    BY <1>1, <2>4, LinkInRow DEF h
  <2>6. QED
    BY <1>3, <2>3, <2>5
<1>7. ASSUME Southward(c, d, n) PROVE link \in 0 .. 2 * h - 1
  <2>1. Y(c) < num_rows - 1 /\ n = c + num_rows /\ c < n
    BY <1>2, <1>3, <1>7 DEF Southward
  <2>2. Y(n) = Y(c) + 1
    BY <2>1, Neighbours
  <2>3. link = h + c
    BY <1>2, <1>4, <2>1, <2>2
  <2>4. c \in 0 .. h - 1
    BY <1>1, <2>1, LinkInColumn DEF h
  <2>5. QED
    BY <1>3, <2>3, <2>4
<1>8. ASSUME Northward(c, d, n) PROVE link \in 0 .. 2 * h - 1
  <2>1. Y(c) > 0 /\ n = c - num_rows /\ ~(c < n) /\ n + num_rows = c
    BY <1>2, <1>3, <1>8 DEF Northward
  <2>2. Y(n) = Y(c) - 1
    BY <2>1, Neighbours
  <2>3. link = h + n
    BY <1>2, <1>4, <2>1, <2>2
  <2>4. n \in 0 .. h - 1
    BY <1>1, <2>1, LinkInColumn DEF h
  <2>5. QED
    BY <1>3, <2>3, <2>4
<1>9. link \in 0 .. 2 * h - 1
  BY <1>1, <1>5, <1>6, <1>7, <1>8
<1>10. Exit(c, d) = <<link, IF n > c THEN 0 ELSE 3>>
  BY DEF Exit, n, link
<1>11. QED
  BY <1>9, <1>10 DEF Slots, Links, Bufs, h

\* What internal_routing takes for the two ends of link i.
LEMMA Ends ==
  ASSUME Sizes, NEW i \in Links
  PROVE  /\ get_core_id(i) = IF i < NumHorizontal THEN i ELSE i - NumHorizontal
         /\ get_core_id(i) \in 0 .. NumHorizontal - 1
         /\ get_link_dest_id(i) = get_core_id(i) + IF i < NumHorizontal THEN 1 ELSE num_rows
         /\ get_core_id(i) \in Cores
         /\ get_link_dest_id(i) \in Cores
<1> DEFINE h == NumHorizontal
           a == get_core_id(i)
           b == get_link_dest_id(i)
<1>1. h \in Nat /\ num_rows \in Nat /\ num_rows >= 2 /\ h >= num_rows /\ Cores = 0 .. (h + num_rows) - 1
  BY Mesh
<1>2. i \in 0 .. 2 * h - 1
  BY DEF Links
<1>3. a = i % h /\ b = a + IF i < h THEN 1 ELSE num_rows
  BY DEF get_core_id, get_link_dest_id
<1> HIDE DEF h, a, b
<1>4. h \in Nat \ {0}
  BY <1>1
<1>5. a = IF i < h THEN i ELSE i - h
  BY <1>2, <1>3, <1>4, RingStep, Zenon
<1>6. a \in 0 .. h - 1
  BY <1>1, <1>2, <1>5
<1>7. a \in Cores /\ b \in Cores
  BY <1>1, <1>3, <1>6
<1>8. QED
  BY <1>3, <1>5, <1>6, <1>7 DEF h, a, b

\* The core at which a buffer is.
LEMMA CoreOfIs ==
  ASSUME Sizes, NEW i \in Links, NEW j \in Bufs
  PROVE  CoreOf(i, j) \in Cores
BY Ends DEF CoreOf

\* The router's next buffer exists, and a packet that moves east stays on
\* course: over the link, ...
LEMMA OnwardOver ==
  ASSUME Sizes, JunkIsBuffer, NEW x \in Slots, NEW c, c = CoreOf(x[1], x[2]),
         NEW d \in Cores, c # d, East(x, d),
         Route(c, d) = get_link_dest_id(x[1])
  PROVE  /\ Onward(x, c, Route(c, d)) \in Slots
         /\ East(Onward(x, c, Route(c, d)), d)
<1> DEFINE i == x[1]
           j == x[2]
           n == Route(c, d)
           y == Onward(x, c, n)
<1>1. i \in Links /\ j \in Bufs /\ x = <<i, j>>
  BY DEF Slots
<1>2. c \in Cores
  BY <1>1, CoreOfIs
<1>3. /\ \/ Eastward(c, d, n)
         \/ Westward(c, d, n)
         \/ Southward(c, d, n)
         \/ Northward(c, d, n)
      /\ n # c
  BY <1>2, RouteIs
<1>4. n = get_link_dest_id(i)
  OBVIOUS
<1>5. j \in {0, 3} /\ c = get_core_id(i)
  BY <1>1, <1>3, <1>4 DEF CoreOf
<1>6. y = <<i, MapDestBuf(j)>>
  BY <1>4 DEF Onward
<1>7. MapDestBuf(j) \in Bufs
  <2>1. build.junk \in Bufs
    BY DEF JunkIsBuffer, Sizes
  <2>2. QED
    BY <1>5, <2>1 DEF MapDestBuf, Bufs
<1>8. num_rows \in Nat /\ num_rows >= 2 /\ c \in Int
  BY <1>2, Mesh DEF Cores
<1> HIDE DEF n, y
<1>9. i < NumHorizontal => X(i) < X(d)
  <2> SUFFICES ASSUME i < NumHorizontal PROVE X(i) < X(d)
    OBVIOUS
  <2>1. c = i /\ n = c + 1
    BY <1>1, <1>4, <1>5, Ends
  <2>2. Eastward(c, d, n)
    BY <1>3, <1>8, <2>1 DEF Westward, Southward, Northward
  <2>3. QED
    BY <2>1, <2>2 DEF Eastward
<1>10. y \in Slots /\ East(y, d)
  BY <1>1, <1>6, <1>7, <1>9 DEF Slots, East
<1>11. QED
  BY <1>10 DEF y, n

\* ... or to another link of the router.
LEMMA OnwardSwitch ==
  ASSUME Sizes, NEW x \in Slots, NEW c, c = CoreOf(x[1], x[2]),
         NEW d \in Cores, c # d, East(x, d),
         Route(c, d) # get_link_dest_id(x[1])
  PROVE  /\ Onward(x, c, Route(c, d)) \in Slots
         /\ East(Onward(x, c, Route(c, d)), d)
<1> DEFINE i == x[1]
           j == x[2]
           n == Route(c, d)
           r == num_rows
           h == NumHorizontal
           y == Onward(x, c, n)
<1>1. i \in Links /\ j \in Bufs /\ x = <<i, j>>
  BY DEF Slots
<1>2. c \in Cores
  BY <1>1, CoreOfIs
<1>3. /\ \/ Eastward(c, d, n)
         \/ Westward(c, d, n)
         \/ Southward(c, d, n)
         \/ Northward(c, d, n)
      /\ n \in Cores /\ n # c
  BY <1>2, RouteIs
<1>4. n # get_link_dest_id(i)
  OBVIOUS
<1>5. y = Switch(i, c, n)
  BY <1>4 DEF Onward
<1>6. r \in Nat /\ r >= 2 /\ h \in Nat /\ h >= r /\ Cores = 0 .. (h + r) - 1
  BY Mesh
<1>7. /\ i \in 0 .. 2 * h - 1
      /\ c \in 0 .. (h + r) - 1
      /\ n \in 0 .. (h + r) - 1
  BY <1>1, <1>2, <1>3, <1>6 DEF Links
<1>8. \/ /\ i < h /\ c = i /\ n # i + 1
      \/ /\ i < h /\ c = i + 1 /\ X(i) < X(d)
      \/ /\ i >= h /\ c = i - h /\ n # (i - h) + r
      \/ /\ i >= h /\ c = (i - h) + r
  <2>1. /\ get_core_id(i) = IF i < h THEN i ELSE i - h
        /\ get_link_dest_id(i) = get_core_id(i) + IF i < h THEN 1 ELSE r
    BY <1>1, Ends
  <2>2. CASE j \in {0, 3}
    <3>1. c = get_core_id(i)
      BY <2>2 DEF CoreOf
    <3>2. QED
      BY <1>4, <1>6, <1>7, <2>1, <3>1
  <2>3. CASE j \notin {0, 3}
    <3>1. c = get_link_dest_id(i)
      BY <2>3 DEF CoreOf
    <3>2. j \in {1, 2}
      BY <1>1, <2>3 DEF Bufs
    <3>3. i < h => X(i) < X(d)
      BY <3>2 DEF East
    <3>4. QED
      BY <1>6, <1>7, <2>1, <3>1, <3>3
  <2>4. QED
    BY <2>2, <2>3
<1>9. /\ X(c) \in 0 .. r - 1 /\ X(d) \in 0 .. r - 1
      /\ Y(c) \in 0 .. r - 1 /\ Y(d) \in 0 .. r - 1
  BY <1>2, CoreIsAt
<1>10. X(0) = 0 /\ X(1) = 1 /\ X(r - 1) = r - 1 /\ X((h + r) - 1) = r - 1 /\ X(h - 1) = r - 1
  <2>1. \A p \in 0 .. r - 1, z \in 0 .. r - 1, e \in Int : e = r * p + z => X(e) = z
    BY CoreAt, Zenon
  <2>2. h = r * (r - 1)
    BY DEF NumHorizontal
  <2> HIDE DEF r, h
  <2>3. 0 = r * 0 + 0 /\ 1 = r * 0 + 1 /\ r - 1 = r * 0 + (r - 1)
    BY <1>6
  <2>4. (h + r) - 1 = r * (r - 1) + (r - 1)
    BY <1>6, <2>2
  <2>5. h - 1 = r * (r - 2) + (r - 1)
    <3>1. r * (r - 1) = r * (r - 2) + r
      BY <1>6
    <3>2. r * (r - 2) \in Int
      BY <1>6
    <3>3. QED
      BY <1>6, <2>2, <3>1, <3>2
  <2>6. /\ 0 \in 0 .. r - 1 /\ 1 \in 0 .. r - 1 /\ r - 1 \in 0 .. r - 1 /\ r - 2 \in 0 .. r - 1
        /\ 0 \in Int /\ 1 \in Int /\ r - 1 \in Int /\ (h + r) - 1 \in Int /\ h - 1 \in Int
    BY <1>6
  <2>7. X(0) = 0 /\ X(1) = 1
    <3>1. X(0) = 0
      BY <2>1, <2>3, <2>6
    <3>2. X(1) = 1
      BY <2>1, <2>3, <2>6
    <3>3. QED
      BY <3>1, <3>2
  <2>8. X(r - 1) = r - 1
    BY <2>1, <2>3, <2>6, ZenonT(60)
  <2>9. X((h + r) - 1) = r - 1
    BY <2>1, <2>4, <2>6
  <2>10. X(h - 1) = r - 1
    BY <2>1, <2>5, <2>6, ZenonT(60)
  <2>11. QED
    BY <2>7, <2>8, <2>9, <2>10
<1> DEFINE fits == y \in Slots /\ y[2] \in {0, 3}
<1> HIDE DEF i, j, n, y, r, h, fits
<1>11. ASSUME Eastward(c, d, n) PROVE fits
  <2>1. n = c + 1 /\ X(c) < r - 1 /\ n # c - 1 /\ n # c + r
    BY <1>6, <1>7, <1>9, <1>11 DEF Eastward
  <2>2. y = <<i + 1, 0>>
    BY <1>5, <2>1 DEF Switch, r
  <2>3. i # 2 * h - 1
    <3> SUFFICES ASSUME i = 2 * h - 1 PROVE FALSE
      OBVIOUS
    <3>1. ~ (i < h)
      BY <1>6, <1>7
    <3>2. c = h - 1 \/ c = (h + r) - 1
      BY <1>6, <1>7, <1>8, <3>1
    <3>3. X(c) = r - 1
      BY <1>10, <3>2
    <3>4. QED
      BY <1>6, <2>1, <3>3
  <2>4. i + 1 \in 0 .. 2 * h - 1
    BY <1>6, <1>7, <2>3
  <2>5. QED
    BY <2>2, <2>4 DEF Slots, Links, Bufs, h, fits
<1>12. ASSUME Westward(c, d, n) PROVE fits
  <2>1. n = c - 1 /\ X(d) < X(c) /\ n # c + 1 /\ n # c + r
    BY <1>6, <1>7, <1>12 DEF Westward
  <2>2. y = <<i - 1, 3>>
    BY <1>5, <2>1 DEF Switch, r
  <2>3. i # 0
    <3> SUFFICES ASSUME i = 0 PROVE FALSE
      OBVIOUS
    <3>1. i < h
      BY <1>6, <1>7
    <3>2. c = 0 \/ (c = 1 /\ X(0) < X(d))
      BY <1>6, <1>7, <1>8, <3>1
    <3>3. CASE c = 0
      <4>1. X(c) = 0
        BY <1>10, <3>3
      <4>2. QED
        BY <1>9, <2>1, <4>1
    <3>4. CASE c = 1 /\ X(0) < X(d)
      <4>1. X(c) = 1 /\ 0 < X(d)
        BY <1>10, <3>4
      <4>2. QED
        BY <1>9, <2>1, <4>1
    <3>5. QED
      BY <3>2, <3>3, <3>4
  <2>4. i - 1 \in 0 .. 2 * h - 1
    BY <1>6, <1>7, <2>3
  <2>5. QED
    BY <2>2, <2>4 DEF Slots, Links, Bufs, h, fits
<1>13. ASSUME Southward(c, d, n) PROVE fits
  <2>1. n = c + r /\ n # c + 1 /\ n # c - 1
    BY <1>6, <1>7, <1>13 DEF Southward, r
  <2>2. y = <<i + r, 0>>
    BY <1>5, <2>1 DEF Switch, r
  <2>3. i + r \in 0 .. 2 * h - 1
    BY <1>6, <1>7, <1>8, <2>1
  <2>4. QED
    BY <2>2, <2>3 DEF Slots, Links, Bufs, h, fits
<1>14. ASSUME Northward(c, d, n) PROVE fits
  <2>1. n = c - r /\ n # c + 1 /\ n # c - 1 /\ n # c + r
    BY <1>6, <1>7, <1>14 DEF Northward, r
  <2>2. y = <<i - r, 3>>
    BY <1>5, <2>1 DEF Switch, r
  <2>3. i >= r
    <3>1. c >= r
      BY <1>6, <1>7, <2>1
    <3>2. i # r - 1 \/ c = i
      BY <1>6, <1>7, <1>8, <1>9, <1>10
    <3>3. QED
      BY <1>6, <1>7, <1>8, <3>1, <3>2
  <2>4. i - r \in 0 .. 2 * h - 1
    BY <1>6, <1>7, <2>3
  <2>5. QED
    BY <2>2, <2>4 DEF Slots, Links, Bufs, h, fits
<1>15. fits
  BY <1>3, <1>11, <1>12, <1>13, <1>14
<1>16. y \in Slots /\ East(y, d)
  BY <1>15 DEF fits, East
<1>17. QED
  BY <1>16 DEF y, n, i, j

\* The buffer the router chooses exists, and keeps a packet on its course.
LEMMA OnwardIs ==
  ASSUME Sizes, JunkIsBuffer, NEW x \in Slots, NEW c, c = CoreOf(x[1], x[2]),
         NEW d \in Cores, c # d, East(x, d)
  PROVE  /\ Onward(x, c, Route(c, d)) \in Slots
         /\ East(Onward(x, c, Route(c, d)), d)
BY OnwardOver, OnwardSwitch, Zenon

(***************************************************************************)
(* Packets and their parts.                                                *)
(***************************************************************************)

\* What a packet carries, by the positions of its list.
LEMMA CarriedIs ==
  ASSUME NEW p
  PROVE  Carried(p) = {p.dests[k][1] : k \in DOMAIN p.dests}
BY DEF Carried, Messages, ToSet

\* The part of a packet at the positions I of its list.
LEMMA OnlyIs ==
  ASSUME NEW p \in PacketType, NEW I \in SUBSET DOMAIN p.dests
  PROVE  /\ Only(p, I) \in PacketType
         /\ Only(p, I) = [p EXCEPT !.dests = Only(p, I).dests]
         /\ Only(p, I).dests = <<>> <=> I = {}
         /\ Carried(Only(p, I)) = {p.dests[k][1] : k \in I}
         /\ {Only(p, I).dests[k][2] : k \in DOMAIN Only(p, I).dests} = {p.dests[k][2] : k \in I}
         /\ Sound(p) => Sound(Only(p, I))
<1> DEFINE s == p.dests
           t == Selected(s, I)
           Dests == (Nat \X Nat) \X Cores
           q == Only(p, I)
<1>1. s \in Seq(Dests) /\ p \in PacketType /\ DOMAIN s = 1 .. Len(s) /\ Len(s) \in Nat
  BY DEF PacketType
<1>2. I \in SUBSET (1 .. Len(s))
  BY <1>1
<1>3. q = [p EXCEPT !.dests = t]
  BY DEF Only
<1> HIDE DEF s, Dests
<1>4. t \in Seq(Dests) /\ \E f : Picks(t, s, I, f)
  <2>1. Selected(s, I) \in Seq(Dests) /\ \E f : Picks(Selected(s, I), s, I, f)
    BY <1>1, <1>2, SelectedIs, Zenon
  <2>2. QED
    BY <2>1
<1> HIDE DEF t, q
<1>5. q \in PacketType /\ q.dests = t
  BY <1>1, <1>3, <1>4 DEF PacketType, Dests
<1>6. PICK f : Picks(t, s, I, f)
  BY <1>4
<1>7. /\ DOMAIN t = 1 .. Len(t) /\ Len(t) \in Nat
      /\ \A k \in DOMAIN t : f[k] \in I /\ t[k] = s[f[k]]
      /\ \A k, l \in DOMAIN t : k < l => f[k] < f[l]
      /\ \A i \in I : \E k \in DOMAIN t : f[k] = i
  <2>1. DOMAIN t = 1 .. Len(t) /\ Len(t) \in Nat
    BY <1>4
  <2>2. QED
    BY <1>6, <2>1 DEF Picks
<1>8. t = <<>> <=> I = {}
  <2>1. ASSUME t = <<>> PROVE I = {}
    BY <1>7, <2>1
  <2>2. ASSUME I = {} PROVE t = <<>>
    <3>1. DOMAIN t = {}
      BY <1>7, <2>2
    <3>2. Len(t) = 0
      BY <1>7, <3>1
    <3>3. QED
      BY <1>4, <3>2
  <2>3. QED
    BY <2>1, <2>2
<1>9. Carried(q) = {s[k][1] : k \in I}
  <2>1. Carried(q) = {t[k][1] : k \in DOMAIN t}
    BY <1>5, CarriedIs
  <2>2. {t[k][1] : k \in DOMAIN t} = {s[k][1] : k \in I}
    BY <1>7
  <2>3. QED
    BY <2>1, <2>2
<1>10. {t[k][2] : k \in DOMAIN t} = {s[k][2] : k \in I}
  BY <1>7
<1>11. Sound(p) => Sound(q)
  <2> SUFFICES ASSUME Sound(p), NEW k \in DOMAIN t, NEW l \in DOMAIN t, t[k][1] = t[l][1]
               PROVE  k = l
    BY <1>5 DEF Sound
  <2>1. f[k] \in I /\ f[l] \in I /\ s[f[k]][1] = s[f[l]][1]
    BY <1>7
  <2>2. f[k] = f[l]
    BY <1>1, <1>2, <2>1 DEF Sound, s
  <2>3. f[k] \in Int /\ f[l] \in Int /\ k \in Int /\ l \in Int
    BY <1>1, <1>2, <1>7, <2>1
  <2>4. ~ (k < l) /\ ~ (l < k)
    BY <1>7, <2>2, <2>3
  <2>5. QED
    BY <2>3, <2>4
<1>12. q = [p EXCEPT !.dests = q.dests]
  BY <1>3, <1>5
<1>13. QED
  BY <1>5, <1>8, <1>9, <1>10, <1>11, <1>12 DEF s, q

\* Parts at different positions share no message.
LEMMA OnlyApart ==
  ASSUME NEW p \in PacketType, Sound(p),
         NEW I \in SUBSET DOMAIN p.dests, NEW J \in SUBSET DOMAIN p.dests, I \cap J = {}
  PROVE  Carried(Only(p, I)) \cap Carried(Only(p, J)) = {}
<1>1. Carried(Only(p, I)) = {p.dests[k][1] : k \in I}
  BY OnlyIs
<1>2. Carried(Only(p, J)) = {p.dests[k][1] : k \in J}
  BY OnlyIs
<1>3. QED
  BY <1>1, <1>2 DEF Sound

\* What goes to buffer x of the packets ps: f says which of them.
Sorts(f, x, ps) ==
  /\ f \in [DOMAIN For(x, ps) -> {k \in DOMAIN ps : ps[k][1] = x}]
  /\ \A k \in DOMAIN For(x, ps) : For(x, ps)[k] = ps[f[k]][2]
  /\ \A k, l \in DOMAIN For(x, ps) : k # l => f[k] # f[l]
  /\ \A i \in DOMAIN ps : ps[i][1] = x => \E k \in DOMAIN For(x, ps) : f[k] = i

\* The packets for buffer x are those of ps that are, in their order.
LEMMA ForIs ==
  ASSUME NEW A, NEW P, NEW ps \in Seq(A \X P), NEW x
  PROVE  For(x, ps) \in Seq(P) /\ \E f : Sorts(f, x, ps)
<1> DEFINE I == {k \in DOMAIN ps : ps[k][1] = x}
           t == Selected(ps, I)
           R == A \X P
           u == For(x, ps)
<1>1. DOMAIN ps = 1 .. Len(ps) /\ Len(ps) \in Nat /\ I \in SUBSET (1 .. Len(ps)) /\ ps \in Seq(R)
  OBVIOUS
<1>2. u = [k \in DOMAIN t |-> t[k][2]]
  BY DEF For
<1> HIDE DEF R
<1>3. t \in Seq(R) /\ \E f : Picks(t, ps, I, f)
  <2> HIDE DEF I
  <2>1. Selected(ps, I) \in Seq(R) /\ \E f : Picks(Selected(ps, I), ps, I, f)
    BY <1>1, SelectedIs, Zenon
  <2>2. QED
    BY <2>1
<1> HIDE DEF t, u
<1>4. PICK f : Picks(t, ps, I, f)
  BY <1>3
<1>5. DOMAIN t = 1 .. Len(t) /\ Len(t) \in Nat /\ \A k \in 1 .. Len(t) : t[k] \in A \X P
  BY <1>3 DEF R
<1>6. DOMAIN u = DOMAIN t /\ \A k \in DOMAIN t : u[k] = t[k][2]
  BY <1>2
<1>7. u \in Seq(P)
  <2>1. \A k \in 1 .. Len(t) : t[k][2] \in P
    BY <1>5
  <2>2. u = [k \in 1 .. Len(t) |-> t[k][2]]
    BY <1>2, <1>5
  <2>3. QED
    BY <1>5, <2>1, <2>2
<1>8. /\ f \in [1 .. Len(t) -> I]
      /\ \A k \in 1 .. Len(t) : t[k] = ps[f[k]]
      /\ \A k, l \in 1 .. Len(t) : k < l => f[k] < f[l]
      /\ \A i \in I : \E k \in 1 .. Len(t) : f[k] = i
  BY <1>4 DEF Picks
<1>9. \A k, l \in 1 .. Len(t) : k # l => f[k] # f[l]
  <2> SUFFICES ASSUME NEW k \in 1 .. Len(t), NEW l \in 1 .. Len(t), k # l PROVE f[k] # f[l]
    OBVIOUS
  <2>1. f[k] \in Int /\ f[l] \in Int /\ k \in Int /\ l \in Int
    BY <1>1, <1>8
  <2>2. k < l \/ l < k
    BY <2>1
  <2>3. QED
    BY <1>8, <2>1, <2>2
<1>10. Sorts(f, x, ps)
  BY <1>5, <1>6, <1>8, <1>9 DEF Sorts, u
<1>11. For(x, ps) \in Seq(P)
  BY <1>7 DEF u
<1>12. QED
  BY <1>10, <1>11, Zenon

(***************************************************************************)
(* Buffers: what they carry, and that it is in one place.                  *)
(***************************************************************************)

\* One buffer: a packet joins, ...
LEMMA LoadOne ==
  ASSUME NEW P, NEW p \in P
  PROVE  /\ <<p>> \in Seq(P) /\ Load(<<p>>) = Carried(p) /\ (Sound(p) => Sep(<<p>>))
         /\ <<>> \in Seq(P) /\ Load(<<>>) = {} /\ Sep(<<>>)
<1>1. DOMAIN <<p>> = {1} /\ <<p>>[1] = p /\ DOMAIN <<>> = {}
  OBVIOUS
<1>2. QED
  BY <1>1 DEF Load, Sep

\* ... and buffers are put together.
LEMMA LoadConcat ==
  ASSUME NEW P, NEW q \in Seq(P), NEW r \in Seq(P)
  PROVE  /\ q \o r \in Seq(P)
         /\ Load(q \o r) = Load(q) \cup Load(r)
         /\ Sep(q) /\ Sep(r) /\ Load(q) \cap Load(r) = {} => Sep(q \o r)
<1> DEFINE s == q \o r
           m == Len(q)
           n == Len(r)
<1>1. /\ s \in Seq(P) /\ m \in Nat /\ n \in Nat /\ Len(s) = m + n
      /\ DOMAIN q = 1 .. m /\ DOMAIN r = 1 .. n /\ DOMAIN s = 1 .. m + n
      /\ \A i \in 1 .. m : s[i] = q[i]
      /\ \A i \in 1 .. n : s[m + i] = r[i]
  BY ConcatProperties
<1> HIDE DEF s, m, n
<1>2. \A i \in DOMAIN s : i \in DOMAIN q \/ (i - m \in DOMAIN r /\ i = m + (i - m))
  BY <1>1
<1>3. \A i \in DOMAIN r : m + i \in DOMAIN s
  BY <1>1
<1>4. \A i \in DOMAIN q : i \in DOMAIN s
  BY <1>1
<1>5. Load(s) = Load(q) \cup Load(r)
  <2>1. ASSUME NEW a \in Load(s) PROVE a \in Load(q) \cup Load(r)
    <3>1. PICK i \in DOMAIN s : a \in Carried(s[i])
      BY DEF Load
    <3>2. CASE i \in DOMAIN q
      <4>1. s[i] = q[i]
        BY <1>1, <3>2
      <4>2. QED
        BY <3>1, <3>2, <4>1 DEF Load
    <3>3. CASE i - m \in DOMAIN r /\ i = m + (i - m)
      <4>1. s[i] = r[i - m]
        BY <1>1, <3>3
      <4>2. QED
        BY <3>1, <3>3, <4>1 DEF Load
    <3>4. QED
      BY <1>2, <3>2, <3>3
  <2>2. ASSUME NEW a \in Load(q) PROVE a \in Load(s)
    <3>1. PICK i \in DOMAIN q : a \in Carried(q[i])
      BY DEF Load
    <3>2. s[i] = q[i] /\ i \in DOMAIN s
      BY <1>1, <1>4
    <3>3. QED
      BY <3>1, <3>2 DEF Load
  <2>3. ASSUME NEW a \in Load(r) PROVE a \in Load(s)
    <3>1. PICK i \in DOMAIN r : a \in Carried(r[i])
      BY DEF Load
    <3>2. s[m + i] = r[i] /\ m + i \in DOMAIN s
      BY <1>1, <1>3
    <3>3. QED
      BY <3>1, <3>2 DEF Load
  <2>4. QED
    BY <2>1, <2>2, <2>3
<1>6. ASSUME Sep(q), Sep(r), Load(q) \cap Load(r) = {} PROVE Sep(s)
  <2>1. \A i \in DOMAIN q : Carried(q[i]) \subseteq Load(q)
    BY DEF Load
  <2>2. \A i \in DOMAIN r : Carried(r[i]) \subseteq Load(r)
    BY DEF Load
  <2>3. ASSUME NEW i \in DOMAIN s PROVE Sound(s[i])
    <3>1. CASE i \in DOMAIN q
      BY <1>1, <1>6, <3>1 DEF Sep
    <3>2. CASE i - m \in DOMAIN r /\ i = m + (i - m)
      <4>1. s[i] = r[i - m]
        BY <1>1, <3>2
      <4>2. QED
        BY <1>6, <3>2, <4>1 DEF Sep
    <3>3. QED
      BY <1>2, <3>1, <3>2
  <2>4. ASSUME NEW i \in DOMAIN s, NEW j \in DOMAIN s, i # j
        PROVE  Carried(s[i]) \cap Carried(s[j]) = {}
    <3>1. CASE i \in DOMAIN q /\ j \in DOMAIN q
      <4>1. s[i] = q[i] /\ s[j] = q[j]
        BY <1>1, <3>1
      <4>2. QED
        BY <1>6, <2>4, <3>1, <4>1 DEF Sep
    <3>2. CASE i \in DOMAIN q /\ j - m \in DOMAIN r /\ j = m + (j - m)
      <4>1. s[i] = q[i] /\ s[j] = r[j - m]
        BY <1>1, <3>2
      <4>2. QED
        BY <1>6, <2>1, <2>2, <3>2, <4>1
    <3>3. CASE j \in DOMAIN q /\ i - m \in DOMAIN r /\ i = m + (i - m)
      <4>1. s[j] = q[j] /\ s[i] = r[i - m]
        BY <1>1, <3>3
      <4>2. QED
        BY <1>6, <2>1, <2>2, <3>3, <4>1
    <3>4. CASE /\ i - m \in DOMAIN r /\ i = m + (i - m)
               /\ j - m \in DOMAIN r /\ j = m + (j - m)
      <4>1. s[i] = r[i - m] /\ s[j] = r[j - m] /\ i - m # j - m
        BY <1>1, <2>4, <3>4
      <4>2. QED
        BY <1>6, <3>4, <4>1 DEF Sep
    <3>5. QED
      BY <1>2, <3>1, <3>2, <3>3, <3>4
  <2>5. QED
    BY <2>3, <2>4 DEF Sep
<1>7. QED
  BY <1>1, <1>5, <1>6 DEF s

\* The front packet and the rest.
LEMMA HeadTail ==
  ASSUME NEW P, NEW q \in Seq(P), q # <<>>
  PROVE  /\ Head(q) \in P /\ Tail(q) \in Seq(P)
         /\ Load(q) = Carried(Head(q)) \cup Load(Tail(q))
         /\ Sep(q) => Sound(Head(q)) /\ Sep(Tail(q)) /\ Carried(Head(q)) \cap Load(Tail(q)) = {}
<1> DEFINE p == Head(q)
           t == Tail(q)
           n == Len(t)
<1>1. /\ p \in P /\ t \in Seq(P) /\ n \in Nat
      /\ DOMAIN q = 1 .. n + 1 /\ DOMAIN t = 1 .. n
      /\ q[1] = p /\ \A i \in 1 .. n : t[i] = q[i + 1]
  BY HeadTailProperties
<1> HIDE DEF p, t, n
<1>2. 1 \in DOMAIN q /\ \A i \in DOMAIN t : i + 1 \in DOMAIN q /\ i + 1 # 1
  BY <1>1
<1>3. \A i \in DOMAIN q : i = 1 \/ (i - 1 \in DOMAIN t /\ i = (i - 1) + 1)
  BY <1>1
<1>4. Load(q) = Carried(p) \cup Load(t)
  <2>1. ASSUME NEW a \in Load(q) PROVE a \in Carried(p) \cup Load(t)
    <3>1. PICK i \in DOMAIN q : a \in Carried(q[i])
      BY DEF Load
    <3>2. CASE i = 1
      BY <1>1, <3>1, <3>2
    <3>3. CASE i - 1 \in DOMAIN t /\ i = (i - 1) + 1
      <4>1. q[i] = t[i - 1]
        BY <1>1, <3>3
      <4>2. QED
        BY <3>1, <3>3, <4>1 DEF Load
    <3>4. QED
      BY <1>3, <3>2, <3>3
  <2>2. Carried(p) \subseteq Load(q)
    BY <1>1, <1>2 DEF Load
  <2>3. ASSUME NEW a \in Load(t) PROVE a \in Load(q)
    <3>1. PICK i \in DOMAIN t : a \in Carried(t[i])
      BY DEF Load
    <3>2. t[i] = q[i + 1] /\ i + 1 \in DOMAIN q
      BY <1>1, <1>2
    <3>3. QED
      BY <3>1, <3>2 DEF Load
  <2>4. QED
    BY <2>1, <2>2, <2>3
<1>5. ASSUME Sep(q) PROVE Sound(p) /\ Sep(t) /\ Carried(p) \cap Load(t) = {}
  <2>1. Sound(p)
    BY <1>1, <1>2, <1>5 DEF Sep
  <2>2. Sep(t)
    <3>1. \A i \in DOMAIN t : t[i] = q[i + 1] /\ i + 1 \in DOMAIN q
      BY <1>1, <1>2
    <3>2. \A i, j \in DOMAIN t : i # j => i + 1 # j + 1
      BY <1>1
    <3>3. QED
      BY <1>5, <3>1, <3>2 DEF Sep
  <2>3. ASSUME NEW a \in Carried(p), a \in Load(t) PROVE FALSE
    <3>1. PICK i \in DOMAIN t : a \in Carried(t[i])
      BY <2>3 DEF Load
    <3>2. t[i] = q[i + 1] /\ i + 1 \in DOMAIN q /\ i + 1 # 1 /\ q[1] = p
      BY <1>1, <1>2
    <3>3. Carried(q[1]) \cap Carried(q[i + 1]) = {}
      BY <1>2, <1>5, <3>2 DEF Sep
    <3>4. QED
      BY <2>3, <3>1, <3>2, <3>3
  <2>4. QED
    BY <2>1, <2>2, <2>3
<1>6. QED
  BY <1>1, <1>4, <1>5 DEF p, t

\* Packets on their way to buffers that share nothing: no buffer gets two that do.
Spread(ps) ==
  /\ \A k \in DOMAIN ps : Sound(ps[k][2])
  /\ \A k, l \in DOMAIN ps : k # l => Carried(ps[k][2]) \cap Carried(ps[l][2]) = {}

\* What the packets for a buffer carry, and that they share nothing.
LEMMA ForLoad ==
  ASSUME NEW A, NEW P, NEW ps \in Seq(A \X P), NEW x
  PROVE  /\ Load(For(x, ps)) = UNION {Carried(ps[k][2]) : k \in {k \in DOMAIN ps : ps[k][1] = x}}
         /\ Spread(ps) => Sep(For(x, ps))
<1> DEFINE u == For(x, ps)
<1>1. PICK f : Sorts(f, x, ps)
  BY ForIs, Zenon
<1>2. /\ \A k \in DOMAIN u : f[k] \in DOMAIN ps /\ ps[f[k]][1] = x /\ u[k] = ps[f[k]][2]
      /\ \A k, l \in DOMAIN u : k # l => f[k] # f[l]
      /\ \A i \in DOMAIN ps : ps[i][1] = x => \E k \in DOMAIN u : f[k] = i
  BY <1>1 DEF Sorts
<1> HIDE DEF u
<1>3. Load(u) = UNION {Carried(ps[k][2]) : k \in {k \in DOMAIN ps : ps[k][1] = x}}
  BY <1>2 DEF Load
<1>4. ASSUME Spread(ps) PROVE Sep(u)
  <2>1. \A k \in DOMAIN u : Sound(u[k])
    BY <1>2, <1>4 DEF Spread
  <2>2. ASSUME NEW k \in DOMAIN u, NEW l \in DOMAIN u, k # l
        PROVE  Carried(u[k]) \cap Carried(u[l]) = {}
    <3>1. f[k] \in DOMAIN ps /\ f[l] \in DOMAIN ps /\ f[k] # f[l]
      BY <1>2, <2>2
    <3>2. Carried(ps[f[k]][2]) \cap Carried(ps[f[l]][2]) = {}
      BY <1>4, <3>1, Zenon DEF Spread
    <3>3. QED
      BY <1>2, <3>2
  <2>3. QED
    BY <2>1, <2>2 DEF Sep
<1>5. QED
  BY <1>3, <1>4 DEF u

\* Nothing is for a buffer that no packet of ps names.
LEMMA ForNone ==
  ASSUME NEW A, NEW P, NEW ps \in Seq(A \X P), NEW x, \A k \in DOMAIN ps : ps[k][1] # x
  PROVE  For(x, ps) = <<>>
<1> DEFINE u == For(x, ps)
<1>1. PICK f : Sorts(f, x, ps)
  BY ForIs, Zenon
<1>2. u \in Seq(P) /\ \A k \in DOMAIN u : f[k] \in DOMAIN ps /\ ps[f[k]][1] = x
  BY <1>1, ForIs DEF Sorts
<1> HIDE DEF u
<1>3. DOMAIN u = 1 .. Len(u) /\ Len(u) \in Nat /\ DOMAIN u = {}
  <2>1. DOMAIN u = {}
    <3>1. \A k : k \notin DOMAIN u
      BY <1>2, Zenon
    <3>2. QED
      BY <3>1
  <2>2. QED
    BY <1>2, <2>1
<1>4. Len(u) = 0
  BY <1>3
<1>5. u = <<>>
  BY <1>2, <1>4
<1>6. QED
  BY <1>5 DEF u

(***************************************************************************)
(* Families of buffers.                                                    *)
(***************************************************************************)

\* The family C after a pop from its buffer b, and with the buffers of E behind.
Popped(C, b) == [a \in DOMAIN C |-> IF a = b THEN Tail(C[a]) ELSE C[a]]
Joined(C, E) == [a \in DOMAIN C |-> C[a] \o E[a]]

\* What a pop from buffer b takes from the family.
LEMMA PoppedIs ==
  ASSUME NEW N, NEW P, NEW C \in [N -> Seq(P)], NEW b \in N, C[b] # <<>>
  PROVE  /\ Popped(C, b) \in [N -> Seq(P)]
         /\ Head(C[b]) \in P
         /\ Total(N, C) = Carried(Head(C[b])) \cup Total(N, Popped(C, b))
         /\ Separate(N, C) => /\ Sound(Head(C[b]))
                              /\ Separate(N, Popped(C, b))
                              /\ Carried(Head(C[b])) \cap Total(N, Popped(C, b)) = {}
<1> DEFINE R == Popped(C, b)
           p == Head(C[b])
<1>1. C[b] \in Seq(P) /\ \A a \in N : C[a] \in Seq(P)
  OBVIOUS
<1>2. R = [a \in N |-> IF a = b THEN Tail(C[b]) ELSE C[a]]
  BY DEF Popped
<1>3. /\ p \in P /\ Tail(C[b]) \in Seq(P)
      /\ Load(C[b]) = Carried(p) \cup Load(Tail(C[b]))
      /\ Sep(C[b]) => Sound(p) /\ Sep(Tail(C[b])) /\ Carried(p) \cap Load(Tail(C[b])) = {}
  BY <1>1, HeadTail
<1> HIDE DEF R, p
<1>4. R \in [N -> Seq(P)] /\ R[b] = Tail(C[b]) /\ \A a \in N : a # b => R[a] = C[a]
  BY <1>1, <1>2, <1>3
<1>5. Total(N, C) = Carried(p) \cup Total(N, R)
  BY <1>3, <1>4 DEF Total
<1>6. ASSUME Separate(N, C)
      PROVE  Sound(p) /\ Separate(N, R) /\ Carried(p) \cap Total(N, R) = {}
  <2>1. \A a \in N : Sep(C[a])
    BY <1>6 DEF Separate
  <2>2. \A a \in N : Load(R[a]) \subseteq Load(C[a]) /\ Sep(R[a])
    BY <1>3, <1>4, <2>1
  <2>3. \A a1, a2 \in N : a1 # a2 => Load(R[a1]) \cap Load(R[a2]) = {}
    BY <1>6, <2>2 DEF Separate
  <2>4. \A a \in N : Carried(p) \cap Load(R[a]) = {}
    <3> SUFFICES ASSUME NEW a \in N PROVE Carried(p) \cap Load(R[a]) = {}
      OBVIOUS
    <3>1. CASE a = b
      BY <1>3, <1>4, <2>1, <3>1
    <3>2. CASE a # b
      <4>1. Load(C[a]) \cap Load(C[b]) = {}
        BY <1>6, <3>2 DEF Separate
      <4>2. QED
        BY <1>3, <1>4, <3>2, <4>1
    <3>3. QED
      BY <3>1, <3>2
  <2>5. Carried(p) \cap Total(N, R) = {}
    BY <2>4 DEF Total
  <2>6. QED
    BY <1>3, <2>1, <2>2, <2>3, <2>5 DEF Separate
<1>7. QED
  BY <1>3, <1>4, <1>5, <1>6 DEF R, p

\* What a family carries after pushes, and when it shares nothing.
LEMMA JoinedIs ==
  ASSUME NEW N, NEW P, NEW C \in [N -> Seq(P)], NEW E \in [N -> Seq(P)]
  PROVE  /\ Joined(C, E) \in [N -> Seq(P)]
         /\ Total(N, Joined(C, E)) = Total(N, C) \cup Total(N, E)
         /\ Separate(N, C) /\ Separate(N, E) /\ Total(N, C) \cap Total(N, E) = {}
              => Separate(N, Joined(C, E))
<1> DEFINE R == Joined(C, E)
<1>1. R = [a \in N |-> C[a] \o E[a]]
  BY DEF Joined
<1>2. \A a \in N : /\ C[a] \o E[a] \in Seq(P)
                   /\ Load(C[a] \o E[a]) = Load(C[a]) \cup Load(E[a])
                   /\ Sep(C[a]) /\ Sep(E[a]) /\ Load(C[a]) \cap Load(E[a]) = {}
                        => Sep(C[a] \o E[a])
  <2> SUFFICES ASSUME NEW a \in N
               PROVE  /\ C[a] \o E[a] \in Seq(P)
                      /\ Load(C[a] \o E[a]) = Load(C[a]) \cup Load(E[a])
                      /\ Sep(C[a]) /\ Sep(E[a]) /\ Load(C[a]) \cap Load(E[a]) = {}
                           => Sep(C[a] \o E[a])
    OBVIOUS
  <2>1. C[a] \in Seq(P) /\ E[a] \in Seq(P)
    OBVIOUS
  <2>2. QED
    BY <2>1, LoadConcat
<1> HIDE DEF R
<1>3. \A a \in N : R[a] = C[a] \o E[a]
  BY <1>1
<1>4. R \in [N -> Seq(P)]
  BY <1>1, <1>2
<1>5. \A a \in N : Load(R[a]) = Load(C[a]) \cup Load(E[a])
  BY <1>2, <1>3
<1>6. Total(N, R) = Total(N, C) \cup Total(N, E)
  BY <1>5 DEF Total
<1>7. ASSUME Separate(N, C), Separate(N, E), Total(N, C) \cap Total(N, E) = {}
      PROVE  Separate(N, R)
  <2>1. \A a1, a2 \in N : Load(C[a1]) \cap Load(E[a2]) = {}
    BY <1>7 DEF Total
  <2>2. \A a \in N : Sep(R[a])
    BY <1>2, <1>3, <1>7, <2>1 DEF Separate
  <2>3. ASSUME NEW a1 \in N, NEW a2 \in N, a1 # a2 PROVE Load(R[a1]) \cap Load(R[a2]) = {}
    <3>1. Load(C[a1]) \cap Load(C[a2]) = {} /\ Load(E[a1]) \cap Load(E[a2]) = {}
      BY <1>7, <2>3 DEF Separate
    <3>2. Load(C[a1]) \cap Load(E[a2]) = {} /\ Load(C[a2]) \cap Load(E[a1]) = {}
      BY <2>1
    <3>3. QED
      BY <1>5, <3>1, <3>2
  <2>4. QED
    BY <2>2, <2>3 DEF Separate
<1>8. QED
  BY <1>4, <1>6, <1>7 DEF R

\* A family that has one packet only.
Single(N, b, p) == [a \in N |-> IF a = b THEN <<p>> ELSE <<>>]

\* The family with one packet carries what that packet does.
LEMMA SingleIs ==
  ASSUME NEW N, NEW P, NEW b \in N, NEW p \in P
  PROVE  /\ Single(N, b, p) \in [N -> Seq(P)]
         /\ Total(N, Single(N, b, p)) = Carried(p)
         /\ Sound(p) => Separate(N, Single(N, b, p))
<1> DEFINE E == Single(N, b, p)
<1>1. /\ <<p>> \in Seq(P) /\ Load(<<p>>) = Carried(p) /\ (Sound(p) => Sep(<<p>>))
      /\ <<>> \in Seq(P) /\ Load(<<>>) = {} /\ Sep(<<>>)
  BY LoadOne
<1>2. E = [a \in N |-> IF a = b THEN <<p>> ELSE <<>>]
  BY DEF Single
<1> HIDE DEF E
<1>3. E \in [N -> Seq(P)]
  BY <1>1, <1>2
<1>4. E[b] = <<p>> /\ \A a \in N : a # b => E[a] = <<>>
  BY <1>2
<1>5. Load(E[b]) = Carried(p) /\ \A a \in N : a # b => Load(E[a]) = {}
  BY <1>1, <1>4
<1>6. Total(N, E) = Carried(p)
  BY <1>5 DEF Total
<1>7. ASSUME Sound(p) PROVE Separate(N, E)
  <2>1. \A a \in N : Sep(E[a])
    BY <1>1, <1>4, <1>7
  <2>2. \A a1, a2 \in N : a1 # a2 => Load(E[a1]) \cap Load(E[a2]) = {}
    BY <1>5
  <2>3. QED
    BY <2>1, <2>2 DEF Separate
<1>8. QED
  BY <1>3, <1>6, <1>7 DEF E

\* What a router sends out: the packets out to core c itself, ps to the links.
Spreading(c, out, ps) ==
  [a \in Names |-> IF a[1] = "link" THEN For(a[2], ps)
                   ELSE IF a = <<"out", c>> THEN out ELSE <<>>]
Brought(ps) == UNION {Carried(ps[k][2]) : k \in DOMAIN ps}

\* The buffers, by kind and by place.
LEMMA NamesAre ==
  /\ \A c \in Cores : <<"in", c>> \in Names /\ <<"out", c>> \in Names /\ <<"mc", c>> \in Names
  /\ \A x \in Slots : <<"link", x>> \in Names
  /\ \A a \in Names : /\ a = <<a[1], a[2]>>
                      /\ \/ a[1] \in {"in", "out", "mc"} /\ a[2] \in Cores
                         \/ a[1] = "link" /\ a[2] \in Slots
BY DEF Names

\* A family of what a router sends out carries what the packets do.
LEMMA SpreadingIs ==
  ASSUME NEW P, NEW c \in Cores, NEW out \in Seq(P), NEW ps \in Seq(Slots \X P)
  PROVE  /\ Spreading(c, out, ps) \in [Names -> Seq(P)]
         /\ Total(Names, Spreading(c, out, ps)) = Load(out) \cup Brought(ps)
         /\ Sep(out) /\ Spread(ps) /\ Load(out) \cap Brought(ps) = {}
              => Separate(Names, Spreading(c, out, ps))
<1> DEFINE E == Spreading(c, out, ps)
           o == <<"out", c>>
<1>1. E = [a \in Names |-> IF a[1] = "link" THEN For(a[2], ps) ELSE IF a = o THEN out ELSE <<>>]
  BY DEF Spreading
<1>2. \A x : /\ For(x, ps) \in Seq(P)
             /\ Load(For(x, ps)) = UNION {Carried(ps[k][2]) : k \in {k \in DOMAIN ps : ps[k][1] = x}}
             /\ Spread(ps) => Sep(For(x, ps))
  BY ForIs, ForLoad, Zenon
<1>3. <<>> \in Seq(P) /\ Load(<<>>) = {} /\ Sep(<<>>)
  BY DEF Load, Sep
<1>4. o \in Names /\ o[1] # "link"
  BY NamesAre
<1> HIDE DEF E, o
<1>5. /\ E[o] = out
      /\ \A a \in Names : a[1] = "link" => E[a] = For(a[2], ps)
      /\ \A a \in Names : a[1] # "link" /\ a # o => E[a] = <<>>
  BY <1>1, <1>4
<1>6. E \in [Names -> Seq(P)]
  <2>1. \A a \in Names : (IF a[1] = "link" THEN For(a[2], ps) ELSE IF a = o THEN out ELSE <<>>) \in Seq(P)
    BY <1>2, <1>3
  <2>2. QED
    BY <1>1, <2>1
<1>7. \A k \in DOMAIN ps : ps[k][1] \in Slots
  OBVIOUS
<1>8. Total(Names, E) = Load(out) \cup Brought(ps)
  <2>1. ASSUME NEW m \in Total(Names, E) PROVE m \in Load(out) \cup Brought(ps)
    <3>1. PICK a \in Names : m \in Load(E[a])
      BY DEF Total
    <3>2. CASE a[1] = "link"
      <4>1. m \in Load(For(a[2], ps))
        BY <1>5, <3>1, <3>2
      <4>2. m \in UNION {Carried(ps[k][2]) : k \in {k \in DOMAIN ps : ps[k][1] = a[2]}}
        BY <1>2, <4>1
      <4>3. QED
        BY <4>2 DEF Brought
    <3>3. CASE a[1] # "link" /\ a # o
      BY <1>3, <1>5, <3>1, <3>3
    <3>4. QED
      BY <1>4, <1>5, <3>1, <3>2, <3>3
  <2>2. Load(out) \subseteq Total(Names, E)
    BY <1>4, <1>5 DEF Total
  <2>3. ASSUME NEW m \in Brought(ps) PROVE m \in Total(Names, E)
    <3>1. PICK k \in DOMAIN ps : m \in Carried(ps[k][2])
      BY DEF Brought
    <3> DEFINE x == ps[k][1]
               a == <<"link", x>>
    <3>2. a \in Names /\ a[1] = "link" /\ a[2] = x
      BY <1>7, NamesAre
    <3>3. m \in Load(For(x, ps))
      BY <1>2, <3>1
    <3> HIDE DEF x, a
    <3>4. m \in Load(E[a])
      BY <1>5, <3>2, <3>3
    <3>5. QED
      BY <3>2, <3>4 DEF Total
  <2>4. QED
    BY <2>1, <2>2, <2>3
<1>9. ASSUME Sep(out), Spread(ps), Load(out) \cap Brought(ps) = {} PROVE Separate(Names, E)
  <2>1. \A a \in Names : Sep(E[a])
    BY <1>2, <1>3, <1>5, <1>9
  <2>2. \A a \in Names : a[1] = "link" =>
          Load(E[a]) = UNION {Carried(ps[k][2]) : k \in {k \in DOMAIN ps : ps[k][1] = a[2]}}
    BY <1>2, <1>5
  <2>3. \A a \in Names : a[1] # "link" => Load(E[a]) \subseteq Load(out)
    BY <1>3, <1>5
  <2>4. ASSUME NEW a1 \in Names, NEW a2 \in Names, a1 # a2
        PROVE  Load(E[a1]) \cap Load(E[a2]) = {}
    <3>1. CASE a1[1] = "link" /\ a2[1] = "link"
      <4>1. a1[2] # a2[2]
        BY <2>4, <3>1, NamesAre
      <4>2. \A k, l \in DOMAIN ps : ps[k][1] = a1[2] /\ ps[l][1] = a2[2]
                                      => Carried(ps[k][2]) \cap Carried(ps[l][2]) = {}
        BY <1>9, <4>1 DEF Spread
      <4>3. ASSUME NEW m \in Load(E[a1]), m \in Load(E[a2]) PROVE FALSE
        <5>1. PICK k \in DOMAIN ps : ps[k][1] = a1[2] /\ m \in Carried(ps[k][2])
          <6>1. Load(E[a1]) = UNION {Carried(ps[k][2]) : k \in {k \in DOMAIN ps : ps[k][1] = a1[2]}}
            BY <2>2, <3>1, Zenon
          <6>2. QED
            BY <4>3, <6>1
        <5>2. PICK l \in DOMAIN ps : ps[l][1] = a2[2] /\ m \in Carried(ps[l][2])
          <6>1. Load(E[a2]) = UNION {Carried(ps[j][2]) : j \in {j \in DOMAIN ps : ps[j][1] = a2[2]}}
            BY <2>2, <3>1, Zenon
          <6>2. QED
            BY <4>3, <6>1
        <5>3. QED
          BY <4>2, <5>1, <5>2
      <4>4. QED
        BY <4>3
    <3>2. \A a \in Names : a[1] = "link" => Load(E[a]) \subseteq Brought(ps)
      BY <2>2 DEF Brought
    <3>3. CASE a1[1] = "link" /\ a2[1] # "link"
      BY <1>9, <2>3, <3>2, <3>3
    <3>4. CASE a1[1] # "link" /\ a2[1] = "link"
      BY <1>9, <2>3, <3>2, <3>4
    <3>5. CASE a1[1] # "link" /\ a2[1] # "link"
      <4>1. a1 # o \/ a2 # o
        BY <2>4
      <4>2. Load(E[a1]) = {} \/ Load(E[a2]) = {}
        BY <1>3, <1>5, <3>5, <4>1
      <4>3. QED
        BY <4>2
    <3>6. QED
      BY <3>1, <3>3, <3>4, <3>5
  <2>5. QED
    BY <2>1, <2>4 DEF Separate
<1>10. QED
  BY <1>6, <1>8, <1>9 DEF E

(***************************************************************************)
(* What the routers make of a packet: parts that carry all of it, once.    *)
(***************************************************************************)

\* The packets out for the core itself and ps for the links are p, in parts.
Parted(p, out, ps) ==
  /\ out \in Seq(Pkt)
  /\ ps \in Seq(Slots \X Pkt)
  /\ \A k \in DOMAIN ps : ps[k][2] \in PktAt(ps[k][1])
  /\ Load(out) \cup Brought(ps) = Carried(p)
  /\ Sound(p) => Sep(out) /\ Spread(ps) /\ Load(out) \cap Brought(ps) = {}

\* HandOut pushes this.
Handed(q) == IF q.dests = <<>> THEN <<>> ELSE <<q>>

\* What a packet carries is its list.
LEMMA SameList ==
  ASSUME NEW p, NEW q, p.dests = q.dests
  PROVE  Carried(p) = Carried(q) /\ (Sound(p) <=> Sound(q))
<1>1. Carried(p) = {p.dests[k][1] : k \in DOMAIN p.dests}
      /\ Carried(q) = {q.dests[k][1] : k \in DOMAIN q.dests}
  BY CarriedIs
<1>2. QED
  BY <1>1 DEF Sound

\* A packet that has arrived.
LEMMA PartedHere ==
  ASSUME NEW p \in Pkt
  PROVE  Parted(p, <<p>>, <<>>)
<1>1. /\ <<p>> \in Seq(Pkt) /\ Load(<<p>>) = Carried(p) /\ (Sound(p) => Sep(<<p>>))
  BY LoadOne
<1>2. <<>> \in Seq(Slots \X Pkt) /\ DOMAIN <<>> = {}
  OBVIOUS
<1>3. Brought(<<>>) = {} /\ Spread(<<>>)
  BY <1>2 DEF Brought, Spread
<1>4. QED
  BY <1>1, <1>2, <1>3 DEF Parted

\* A packet that goes on whole.
LEMMA PartedWhole ==
  ASSUME NEW p, NEW y \in Slots, NEW q \in PktAt(y), q.dests = p.dests
  PROVE  Parted(p, <<>>, <<<<y, q>>>>)
<1> DEFINE ps == <<<<y, q>>>>
<1>1. Carried(p) = Carried(q) /\ (Sound(p) <=> Sound(q))
  BY SameList
<1>2. q \in Pkt
  BY DEF PktAt
<1>3. ps \in Seq(Slots \X Pkt) /\ DOMAIN ps = {1} /\ ps[1][1] = y /\ ps[1][2] = q
  BY <1>2
<1> HIDE DEF ps
<1>4. <<>> \in Seq(Pkt) /\ Load(<<>>) = {} /\ Sep(<<>>)
  BY DEF Load, Sep
<1>5. Brought(ps) = Carried(q) /\ (Sound(q) => Spread(ps))
  BY <1>3 DEF Brought, Spread
<1>6. \A k \in DOMAIN ps : ps[k][2] \in PktAt(ps[k][1])
  BY <1>3
<1>7. QED
  BY <1>1, <1>3, <1>4, <1>5, <1>6 DEF Parted, ps

\* The part of a packet for the core itself.
LEMMA HandedIs ==
  ASSUME NEW q, q.dests # <<>> => q \in Pkt
  PROVE  /\ Handed(q) \in Seq(Pkt)
         /\ Load(Handed(q)) = Carried(q)
         /\ Sound(q) => Sep(Handed(q))
<1>1. CASE q.dests = <<>>
  <2>1. Handed(q) = <<>> /\ Carried(q) = {}
    BY <1>1, CarriedIs DEF Handed
  <2>2. <<>> \in Seq(Pkt) /\ Load(<<>>) = {} /\ Sep(<<>>)
    BY DEF Load, Sep
  <2>3. QED
    BY <2>1, <2>2
<1>2. CASE q.dests # <<>>
  <2>1. Handed(q) = <<q>> /\ q \in Pkt
    BY <1>2 DEF Handed
  <2>2. QED
    BY <2>1, LoadOne
<1>3. QED
  BY <1>1, <1>2

\* The part of a multicast packet that has the goals at I is a packet.
LEMMA OnlyMulticast ==
  ASSUME NEW p \in Pkt, build.multicast, NEW I \in SUBSET DOMAIN p.dests
  PROVE  /\ Only(p, I) \in PacketType
         /\ I # {} => Only(p, I) \in Pkt
         /\ Goals(Only(p, I)) = {p.dests[k][2] : k \in I}
         /\ Goals(p) = {p.dests[k][2] : k \in DOMAIN p.dests}
<1> DEFINE q == Only(p, I)
<1>1. p \in PacketType /\ Sendable(p)
  BY DEF Pkt
<1>2. /\ q \in PacketType
      /\ q = [p EXCEPT !.dests = q.dests]
      /\ q.dests = <<>> <=> I = {}
      /\ {q.dests[k][2] : k \in DOMAIN q.dests} = {p.dests[k][2] : k \in I}
  BY <1>1, OnlyIs
<1> HIDE DEF q
<1>3. q.type = p.type /\ q.dest = p.dest /\ q.req = p.req
  BY <1>1, <1>2 DEF PacketType
<1>4. Sendable(q)
  BY <1>1, <1>3 DEF Sendable
<1>5. I # {} => q \in Pkt
  BY <1>2, <1>4 DEF Pkt
<1>6. Goals(q) = {p.dests[k][2] : k \in I} /\ Goals(p) = {p.dests[k][2] : k \in DOMAIN p.dests}
  BY <1>2 DEF Goals
<1>7. QED
  BY <1>2, <1>5, <1>6 DEF q

\* The destinations of a packet are cores.
LEMMA DestsAreCores ==
  ASSUME NEW p \in Pkt, NEW k \in DOMAIN p.dests
  PROVE  p.dests[k][2] \in Cores /\ p.dests[k][1] \in Nat \X Nat
<1>1. p.dests \in Seq((Nat \X Nat) \X Cores)
  BY DEF Pkt, PacketType
<1>2. p.dests[k] \in (Nat \X Nat) \X Cores
  BY <1>1
<1>3. QED
  BY <1>2

\* The directions in which a multicast packet goes on are different, and every
\* destination elsewhere is in one of them.
LEMMA WaysAre ==
  ASSUME Sizes, NEW i \in Links, NEW c \in Cores, NEW p \in Pkt
  PROVE  /\ Ways(i, c, p) \in Seq(Int)
         /\ \A k \in DOMAIN Ways(i, c, p) : Towards(p, c, Ways(i, c, p)[k]) # {}
         /\ \A k, l \in DOMAIN Ways(i, c, p) : Ways(i, c, p)[k] = Ways(i, c, p)[l] => k = l
         /\ \A k \in DOMAIN p.dests : p.dests[k][2] # c =>
              \E w \in DOMAIN Ways(i, c, p) : Ways(i, c, p)[w] = Route(c, p.dests[k][2])
<1> DEFINE r == num_rows
           a == get_link_dest_id(i)
           next == <<a, c + 1, c - 1, c + r, c - r>>
           I == {k \in DOMAIN next : /\ k > 1 => next[k] # next[1]
                                     /\ Towards(p, c, next[k]) # {}}
           ways == Ways(i, c, p)
<1>1. r \in Nat /\ r >= 2 /\ c \in Int /\ a \in Int
  BY Mesh, Ends DEF Cores
<1>2. ways = Selected(next, I)
  BY DEF Ways
<1> HIDE DEF r, a
<1>3. /\ DOMAIN next = 1 .. 5 /\ Len(next) = 5 /\ next \in Seq(Int)
      /\ next[1] = a /\ next[2] = c + 1 /\ next[3] = c - 1
      /\ next[4] = c + r /\ next[5] = c - r
  <2>1. a \in Int /\ c + 1 \in Int /\ c - 1 \in Int /\ c + r \in Int /\ c - r \in Int
    BY <1>1
  <2>2. QED
    BY <2>1
<1> HIDE DEF next, ways
<1>4. I \in SUBSET (1 .. Len(next))
  BY <1>3
<1>5. ways \in Seq(Int) /\ \E f : Picks(ways, next, I, f)
  <2> HIDE DEF I
  <2>1. Selected(next, I) \in Seq(Int) /\ \E f : Picks(Selected(next, I), next, I, f)
    BY <1>3, <1>4, SelectedIs, Zenon
  <2>2. QED
    BY <1>2, <2>1
<1>6. PICK f : Picks(ways, next, I, f)
  BY <1>5
<1>7. /\ DOMAIN ways = 1 .. Len(ways) /\ Len(ways) \in Nat
      /\ \A k \in DOMAIN ways : f[k] \in I /\ ways[k] = next[f[k]]
      /\ \A k, l \in DOMAIN ways : k < l => f[k] < f[l]
      /\ \A j \in I : \E k \in DOMAIN ways : f[k] = j
  <2>1. DOMAIN ways = 1 .. Len(ways) /\ Len(ways) \in Nat
    BY <1>5
  <2>2. QED
    BY <1>6, <2>1 DEF Picks
<1>8. \A j, l \in I : next[j] = next[l] => j = l
  <2> SUFFICES ASSUME NEW j \in I, NEW l \in I, next[j] = next[l] PROVE j = l
    OBVIOUS
  <2>1. /\ j \in 1 .. 5 /\ (j > 1 => next[j] # next[1])
        /\ l \in 1 .. 5 /\ (l > 1 => next[l] # next[1])
    BY <1>3
  <2>2. (j = 1 /\ l = 1) \/ (j \in 2 .. 5 /\ l \in 2 .. 5)
    BY <2>1
  <2>3. QED
    BY <1>1, <1>3, <2>2
<1>9. \A k, l \in DOMAIN ways : ways[k] = ways[l] => k = l
  <2> SUFFICES ASSUME NEW k \in DOMAIN ways, NEW l \in DOMAIN ways, ways[k] = ways[l] PROVE k = l
    OBVIOUS
  <2>1. f[k] = f[l] /\ f[k] \in Int /\ k \in Int /\ l \in Int
    <3>1. f[k] \in I /\ f[l] \in I /\ next[f[k]] = next[f[l]]
      BY <1>7
    <3>2. k \in Int /\ l \in Int /\ f[k] \in Int
      BY <1>3, <1>7, <3>1
    <3> HIDE DEF I
    <3>3. f[k] = f[l]
      BY <1>8, <3>1, Zenon
    <3>4. QED
      BY <3>2, <3>3
  <2>2. ~ (k < l) /\ ~ (l < k)
    BY <1>7, <2>1
  <2>3. QED
    BY <2>1, <2>2
<1>10. \A k \in DOMAIN ways : Towards(p, c, ways[k]) # {}
  BY <1>7
<1>11. ASSUME NEW k \in DOMAIN p.dests, p.dests[k][2] # c
       PROVE  \E w \in DOMAIN ways : ways[w] = Route(c, p.dests[k][2])
  <2> DEFINE d == p.dests[k][2]
             n == Route(c, d)
  <2>1. d \in Cores
    BY DestsAreCores
  <2>2. k \in Towards(p, c, n)
    BY <1>11 DEF Towards
  <2>3. n = c + 1 \/ n = c - 1 \/ n = c + r \/ n = c - r
    BY <1>11, <2>1, RouteIs DEF Eastward, Westward, Southward, Northward, r
  <2> HIDE DEF d, n
  <2>4. PICK j \in 2 .. 5 : next[j] = n
    BY <1>3, <2>3
  <2>5. \E l \in I : next[l] = n
    <3>1. CASE next[1] = n
      <4>1. 1 \in I
        BY <1>3, <2>2, <3>1
      <4>2. QED
        BY <3>1, <4>1
    <3>2. CASE next[1] # n
      <4>1. j \in I
        BY <1>3, <2>2, <2>4, <3>2
      <4>2. QED
        BY <2>4, <4>1
    <3>3. QED
      BY <3>1, <3>2
  <2>6. PICK l \in I : next[l] = n
    BY <2>5
  <2>7. PICK w \in DOMAIN ways : f[w] = l
    BY <1>7
  <2>8. ways[w] = n
    BY <1>7, <2>6, <2>7
  <2>9. QED
    BY <2>8 DEF n, d
<1>12. QED
  BY <1>5, <1>9, <1>10, <1>11 DEF ways

\* A packet split at the positions H of its list and J[k], for each k.
LEMMA PartedSplit ==
  ASSUME NEW p \in Pkt, build.multicast,
         NEW H \in SUBSET DOMAIN p.dests,
         NEW q, q.dests = Only(p, H).dests, q.dests # <<>> => q \in Pkt,
         NEW ps \in Seq(Slots \X Pkt),
         NEW J \in [DOMAIN ps -> SUBSET DOMAIN p.dests],
         \A k \in DOMAIN ps : /\ ps[k][2] \in PktAt(ps[k][1])
                              /\ ps[k][2].dests = Only(p, J[k]).dests
                              /\ J[k] \cap H = {},
         \A k, l \in DOMAIN ps : k # l => J[k] \cap J[l] = {},
         \A i \in DOMAIN p.dests : i \in H \/ \E k \in DOMAIN ps : i \in J[k]
  PROVE  Parted(p, Handed(q), ps)
<1> DEFINE N == DOMAIN ps
           Has(I) == {p.dests[i][1] : i \in I}
<1>1. p \in PacketType
  BY DEF Pkt
<1>2. Carried(q) = Has(H) /\ (Sound(p) => Sound(q))
  <2>1. Carried(Only(p, H)) = Has(H) /\ (Sound(p) => Sound(Only(p, H)))
    BY <1>1, OnlyIs
  <2>2. Carried(q) = Carried(Only(p, H)) /\ (Sound(q) <=> Sound(Only(p, H)))
    BY SameList
  <2>3. QED
    BY <2>1, <2>2
<1>3. ASSUME NEW k \in N
      PROVE  Carried(ps[k][2]) = Has(J[k]) /\ (Sound(p) => Sound(ps[k][2]))
  <2> DEFINE I == J[k]
  <2>1. I \in SUBSET DOMAIN p.dests /\ ps[k][2].dests = Only(p, I).dests
    OBVIOUS
  <2> HIDE DEF I
  <2>2. Carried(Only(p, I)) = Has(I) /\ (Sound(p) => Sound(Only(p, I)))
    BY <1>1, <2>1, OnlyIs
  <2>3. Carried(ps[k][2]) = Carried(Only(p, I)) /\ (Sound(ps[k][2]) <=> Sound(Only(p, I)))
    BY <2>1, SameList
  <2>4. QED
    BY <2>2, <2>3 DEF I
<1>4. Carried(p) = Has(DOMAIN p.dests)
  BY CarriedIs
<1>5. Handed(q) \in Seq(Pkt) /\ Load(Handed(q)) = Has(H) /\ (Sound(p) => Sep(Handed(q)))
  <2>1. /\ Handed(q) \in Seq(Pkt)
        /\ Load(Handed(q)) = Carried(q)
        /\ Sound(q) => Sep(Handed(q))
    BY HandedIs
  <2>2. QED
    BY <1>2, <2>1
<1>6. Has(H) \cup Brought(ps) = Carried(p)
  <2>1. Brought(ps) = UNION {Has(J[k]) : k \in N}
    <3>1. \A k \in N : Carried(ps[k][2]) = Has(J[k])
      BY <1>3
    <3> HIDE DEF Has
    <3>2. QED
      BY <3>1 DEF Brought
  <2>2. \A i \in DOMAIN p.dests : i \in H \/ \E k \in N : i \in J[k]
    OBVIOUS
  <2>3. \A k \in N : J[k] \subseteq DOMAIN p.dests
    OBVIOUS
  <2>4. ASSUME NEW m \in Carried(p) PROVE m \in Has(H) \cup Brought(ps)
    <3>1. PICK i \in DOMAIN p.dests : m = p.dests[i][1]
      BY <1>4
    <3>2. i \in H \/ \E k \in N : i \in J[k]
      BY <2>2
    <3>3. QED
      BY <2>1, <3>1, <3>2
  <2>5. Has(H) \subseteq Carried(p)
    BY <1>4
  <2>6. \A k \in N : Has(J[k]) \subseteq Carried(p)
    BY <1>4, <2>3
  <2>7. QED
    BY <2>1, <2>4, <2>5, <2>6
<1>7. ASSUME Sound(p) PROVE Spread(ps) /\ Has(H) \cap Brought(ps) = {}
  <2>1. \A I1, I2 \in SUBSET DOMAIN p.dests : I1 \cap I2 = {} => Has(I1) \cap Has(I2) = {}
    BY <1>7 DEF Sound
  <2>2. \A k \in N : J[k] \in SUBSET DOMAIN p.dests /\ Has(J[k]) \cap Has(H) = {}
    BY <2>1
  <2>3. \A k, l \in N : k # l => Has(J[k]) \cap Has(J[l]) = {}
    BY <2>1, <2>2
  <2> HIDE DEF Has
  <2>4. Spread(ps)
    BY <1>3, <1>7, <2>3 DEF Spread
  <2>5. Has(H) \cap Brought(ps) = {}
    BY <1>3, <2>2 DEF Brought
  <2>6. QED
    BY <2>4, <2>5
<1>8. QED
  BY <1>5, <1>6, <1>7 DEF Parted

\* transfer_multicast_packet
Onwards(x, c, p) ==
  [k \in DOMAIN Ways(x[1], c, p) |->
     <<Onward(x, c, Ways(x[1], c, p)[k]), Only(p, Towards(p, c, Ways(x[1], c, p)[k]))>>]

\* transfer_multicast_packet parts a packet into what stays here and what goes on.
LEMMA PartedRoute ==
  ASSUME Sizes, JunkIsBuffer, build.multicast,
         NEW x \in Slots, NEW p \in PktAt(x), NEW c, c = CoreOf(x[1], x[2])
  PROVE  /\ Parted(p, Handed(Only(p, Here(p, c))), Onwards(x, c, p))
         /\ Only(p, Here(p, c)) \in PacketType
<1> DEFINE H == Here(p, c)
           T(n) == Towards(p, c, n)
           q == Only(p, H)
           ways == Ways(x[1], c, p)
           J == [k \in DOMAIN ways |-> T(ways[k])]
           ps == Onwards(x, c, p)
           i == x[1]
<1>1. p \in Pkt /\ (\A d \in Goals(p) : East(x, d)) /\ i \in Links /\ c \in Cores
  BY CoreOfIs DEF PktAt, Slots
<1>2. /\ ways \in Seq(Int)
      /\ \A k \in DOMAIN ways : T(ways[k]) # {}
      /\ \A k, l \in DOMAIN ways : ways[k] = ways[l] => k = l
      /\ \A k \in DOMAIN p.dests : p.dests[k][2] # c =>
           \E w \in DOMAIN ways : ways[w] = Route(c, p.dests[k][2])
  BY <1>1, WaysAre
<1>0. ps = [k \in DOMAIN ways |-> <<Onward(x, c, ways[k]), Only(p, T(ways[k]))>>]
  BY DEF Onwards
<1> HIDE DEF ps, ways
<1>3. H \in SUBSET DOMAIN p.dests /\ \A n : T(n) \in SUBSET DOMAIN p.dests /\ T(n) \cap H = {}
  BY DEF Here, Towards
<1>4. q \in PacketType /\ (H # {} => q \in Pkt) /\ q.dests = Only(p, H).dests
  BY <1>1, <1>3, OnlyMulticast
<1>5. q.dests # <<>> => q \in Pkt
  <2>1. p \in PacketType
    BY <1>1 DEF Pkt
  <2>2. q.dests = <<>> <=> H = {}
    BY <1>3, <2>1, OnlyIs
  <2>3. QED
    BY <1>4, <2>2
<1>6. ASSUME NEW n, T(n) # {}
      PROVE  /\ Onward(x, c, n) \in Slots
             /\ Only(p, T(n)) \in PktAt(Onward(x, c, n))
  <2>1. /\ Only(p, T(n)) \in Pkt
        /\ Goals(Only(p, T(n))) = {p.dests[k][2] : k \in T(n)}
        /\ Goals(p) = {p.dests[k][2] : k \in DOMAIN p.dests}
    BY <1>1, <1>3, <1>6, OnlyMulticast
  <2>2. ASSUME NEW k \in T(n)
        PROVE  Onward(x, c, n) \in Slots /\ East(Onward(x, c, n), p.dests[k][2])
    <3> DEFINE d == p.dests[k][2]
    <3>1. k \in DOMAIN p.dests /\ d # c /\ Route(c, d) = n
      BY DEF Towards
    <3>2. d \in Cores /\ d \in Goals(p)
      BY <1>1, <2>1, <3>1, DestsAreCores
    <3>3. East(x, d)
      BY <1>1, <3>2
    <3> HIDE DEF d
    <3>4. Onward(x, c, Route(c, d)) \in Slots /\ East(Onward(x, c, Route(c, d)), d)
      BY <3>1, <3>2, <3>3, OnwardIs
    <3>5. QED
      BY <3>1, <3>4 DEF d
  <2>3. QED
    BY <1>6, <2>1, <2>2 DEF PktAt
<1>7. /\ ps \in Seq(Slots \X Pkt) /\ DOMAIN ps = DOMAIN ways
      /\ \A k \in DOMAIN ps : ps[k][2] \in PktAt(ps[k][1]) /\ ps[k][2] = Only(p, J[k])
  <2>1. DOMAIN ways = 1 .. Len(ways) /\ Len(ways) \in Nat
    BY <1>2
  <2>2. \A k \in DOMAIN ways : /\ Onward(x, c, ways[k]) \in Slots
                               /\ Only(p, T(ways[k])) \in PktAt(Onward(x, c, ways[k]))
    BY <1>2, <1>6
  <2>3. \A y : PktAt(y) \subseteq Pkt
    BY DEF PktAt
  <2>4. ps = [k \in 1 .. Len(ways) |-> <<Onward(x, c, ways[k]), Only(p, T(ways[k]))>>]
    BY <1>0, <2>1
  <2>5. \A k \in 1 .. Len(ways) : <<Onward(x, c, ways[k]), Only(p, T(ways[k]))>> \in Slots \X Pkt
    BY <2>1, <2>2, <2>3
  <2>6. ps \in Seq(Slots \X Pkt)
    <3> HIDE DEF T
    <3> QED BY <2>1, <2>4, <2>5
  <2>7. DOMAIN ps = DOMAIN ways
    BY <2>1, <2>4
  <2>8. \A k \in DOMAIN ways : ps[k] = <<Onward(x, c, ways[k]), Only(p, T(ways[k]))>>
    BY <2>1, <2>4
  <2>9. QED
    BY <2>2, <2>6, <2>7, <2>8
<1> HIDE DEF T, H, q
<1>8. J \in [DOMAIN ps -> SUBSET DOMAIN p.dests]
  BY <1>3, <1>7
<1>9. \A k, l \in DOMAIN ps : k # l => J[k] \cap J[l] = {}
  <2>1. \A n1, n2 : n1 # n2 => T(n1) \cap T(n2) = {}
    BY DEF T, Towards
  <2>2. QED
    BY <1>2, <1>7, <2>1
<1>10. \A k \in DOMAIN ps : J[k] \cap H = {}
  BY <1>3, <1>7
<1>11. \A k \in DOMAIN p.dests : k \in H \/ \E w \in DOMAIN ps : k \in J[w]
  <2> SUFFICES ASSUME NEW k \in DOMAIN p.dests, k \notin H PROVE \E w \in DOMAIN ps : k \in J[w]
    OBVIOUS
  <2>1. p.dests[k][2] # c
    BY DEF H, Here
  <2>2. PICK w \in DOMAIN ways : ways[w] = Route(c, p.dests[k][2])
    BY <1>2, <2>1
  <2>3. k \in T(ways[w])
    BY <2>1, <2>2 DEF T, Towards
  <2>4. QED
    BY <1>7, <2>3
<1>12. Parted(p, Handed(q), ps)
  <2> HIDE DEF J
  <2>1. \A k \in DOMAIN ps : /\ ps[k][2] \in PktAt(ps[k][1])
                             /\ ps[k][2].dests = Only(p, J[k]).dests
                             /\ J[k] \cap H = {}
    BY <1>7, <1>10
  <2>2. H \in SUBSET DOMAIN p.dests
    BY <1>3
  <2>3. QED
    BY <1>1, <1>4, <1>5, <1>7, <1>8, <1>9, <1>11, <2>1, <2>2, PartedSplit
<1>13. QED
  BY <1>4, <1>12 DEF q, H, ps

\* encode_real_multicast
Sides(c, p) ==
  <<Only(p, UNION {Towards(p, c, n) : n \in {n \in Cores : n > c}}),
    Only(p, UNION {Towards(p, c, n) : n \in {n \in Cores : n < c}})>>
Remote(c, p) == Selected(Sides(c, p), {k \in DOMAIN Sides(c, p) : Sides(c, p)[k].dests # <<>>})
Leaving(c, p, first) ==
  [k \in DOMAIN Remote(c, p) |->
     <<Exit(c, Remote(c, p)[k].dests[1][2]),
       [Remote(c, p)[k] EXCEPT !.label = (first + k - 1) % MAX_LABEL]>>]

\* encode_real_multicast parts a packet into the local part and at most two others.
LEMMA PartedEncode ==
  ASSUME Sizes, build.multicast, NEW c \in Cores, NEW p \in Pkt, NEW l0 \in Nat, NEW first \in Nat
  PROVE  /\ Parted(p, Handed([Only(p, Here(p, c)) EXCEPT !.label = l0]), Leaving(c, p, first))
         /\ [Only(p, Here(p, c)) EXCEPT !.label = l0] \in PacketType
         /\ Len(Remote(c, p)) \in Nat
<1> DEFINE H == Here(p, c)
           K == <<UNION {Towards(p, c, n) : n \in {n \in Cores : n > c}},
                  UNION {Towards(p, c, n) : n \in {n \in Cores : n < c}}>>
           q0 == Only(p, H)
           q == [q0 EXCEPT !.label = l0]
           parts == Sides(c, p)
           remote == Remote(c, p)
           ps == Leaving(c, p, first)
           I == {k \in DOMAIN parts : parts[k].dests # <<>>}
           y(k) == Exit(c, remote[k].dests[1][2])
           z(k) == [remote[k] EXCEPT !.label = (first + k - 1) % MAX_LABEL]
<1>0. p \in PacketType
  BY DEF Pkt
<1>1. H \in SUBSET DOMAIN p.dests
  BY DEF Here
<1>2. /\ K[1] \in SUBSET DOMAIN p.dests /\ K[2] \in SUBSET DOMAIN p.dests
      /\ K[1] \cap H = {} /\ K[2] \cap H = {} /\ K[1] \cap K[2] = {}
      /\ \A k \in DOMAIN p.dests : k \in H \/ k \in K[1] \/ k \in K[2]
  <2>1. \A k \in DOMAIN p.dests : p.dests[k][2] # c =>
          Route(c, p.dests[k][2]) \in Cores /\ Route(c, p.dests[k][2]) # c
    BY DestsAreCores, RouteIs
  <2>2. \A n \in Cores : n \in Int
    BY Mesh
  <2>3. /\ \A k \in K[1] : /\ k \in DOMAIN p.dests /\ p.dests[k][2] # c
                           /\ Route(c, p.dests[k][2]) > c
        /\ \A k \in K[2] : /\ k \in DOMAIN p.dests /\ p.dests[k][2] # c
                           /\ Route(c, p.dests[k][2]) < c
    BY DEF Towards
  <2>4. \A k \in DOMAIN p.dests : k \in H \/ k \in K[1] \/ k \in K[2]
    <3> SUFFICES ASSUME NEW k \in DOMAIN p.dests, p.dests[k][2] # c PROVE k \in K[1] \/ k \in K[2]
      BY DEF Here
    <3> DEFINE n == Route(c, p.dests[k][2])
    <3>1. n \in Cores /\ (n > c \/ n < c) /\ k \in Towards(p, c, n)
      BY <2>1, <2>2 DEF Towards
    <3> HIDE DEF n
    <3>2. QED
      BY <3>1
  <2>5. K[1] \cap K[2] = {}
    <3> HIDE DEF K
    <3> SUFFICES ASSUME NEW k \in K[1], k \in K[2] PROVE FALSE
      OBVIOUS
    <3>1. Route(c, p.dests[k][2]) > c /\ Route(c, p.dests[k][2]) < c
      BY <2>3
    <3>2. Route(c, p.dests[k][2]) \in Int /\ c \in Int
      BY <2>1, <2>2, <2>3
    <3>3. QED
      BY <3>1, <3>2
  <2>6. QED
    <3> HIDE DEF K
    <3> QED BY <2>3, <2>4, <2>5 DEF Here
<1>3. parts = <<Only(p, K[1]), Only(p, K[2])>>
  BY DEF Sides
<1>3a. remote = Selected(parts, I)
  BY DEF Remote
<1>3b. ps = [k \in DOMAIN remote |-> <<y(k), z(k)>>]
  BY DEF Leaving
<1> HIDE DEF K, parts, remote, ps, y, z
<1>4. /\ q0 \in PacketType /\ (H # {} => q0 \in Pkt)
      /\ q0.dests = <<>> <=> H = {}
  <2> HIDE DEF H
  <2> QED BY <1>0, <1>1, OnlyMulticast, OnlyIs
<1>5. \A k \in {1, 2} : /\ Only(p, K[k]) \in PacketType
                        /\ K[k] # {} => Only(p, K[k]) \in Pkt
                        /\ Goals(Only(p, K[k])) = {p.dests[j][2] : j \in K[k]}
                        /\ Only(p, K[k]).dests = <<>> <=> K[k] = {}
  <2> SUFFICES ASSUME NEW S \in SUBSET DOMAIN p.dests
               PROVE  /\ Only(p, S) \in PacketType
                      /\ S # {} => Only(p, S) \in Pkt
                      /\ Goals(Only(p, S)) = {p.dests[j][2] : j \in S}
                      /\ Only(p, S).dests = <<>> <=> S = {}
    BY <1>2
  <2>1. QED
    BY <1>0, OnlyMulticast, OnlyIs
<1>6. \A pp \in PacketType, l \in Nat :
        /\ [pp EXCEPT !.label = l] \in PacketType
        /\ [pp EXCEPT !.label = l].dests = pp.dests
        /\ pp \in Pkt => [pp EXCEPT !.label = l] \in Pkt
  <2> SUFFICES ASSUME NEW pp \in PacketType, NEW l \in Nat
               PROVE  /\ [pp EXCEPT !.label = l] \in PacketType
                      /\ [pp EXCEPT !.label = l].dests = pp.dests
                      /\ pp \in Pkt => [pp EXCEPT !.label = l] \in Pkt
    OBVIOUS
  <2> DEFINE qq == [pp EXCEPT !.label = l]
  <2>1. qq \in PacketType
    BY DEF PacketType
  <2>2. qq.dests = pp.dests /\ qq.type = pp.type /\ qq.dest = pp.dest /\ qq.req = pp.req /\ qq.mc = pp.mc
    BY DEF PacketType
  <2> HIDE DEF qq
  <2>3. pp \in Pkt => qq \in Pkt
    BY <2>1, <2>2 DEF Pkt, Sendable
  <2>4. QED
    BY <2>1, <2>2, <2>3 DEF qq
<1>7. q \in PacketType /\ q.dests = Only(p, H).dests /\ (q.dests # <<>> => q \in Pkt)
  BY <1>4, <1>6
<1>8. /\ Len(parts) = 2 /\ DOMAIN parts = 1 .. 2 /\ parts \in Seq(PacketType)
      /\ parts[1] = Only(p, K[1]) /\ parts[2] = Only(p, K[2])
  BY <1>3, <1>5
<1>9. I \in SUBSET (1 .. Len(parts)) /\ \A k \in I : k \in {1, 2} /\ K[k] # {} /\ parts[k] = Only(p, K[k])
  BY <1>5, <1>8
<1>10. remote \in Seq(PacketType) /\ \E f : Picks(remote, parts, I, f)
  <2> HIDE DEF I
  <2>1. Selected(parts, I) \in Seq(PacketType) /\ \E f : Picks(Selected(parts, I), parts, I, f)
    BY <1>8, <1>9, SelectedIs, Zenon
  <2>2. QED
    BY <1>3a, <2>1
<1>11. PICK f : Picks(remote, parts, I, f)
  BY <1>10
<1> HIDE DEF I, H, q, q0
<1>12. /\ DOMAIN remote = 1 .. Len(remote) /\ Len(remote) \in Nat
       /\ \A k \in DOMAIN remote : f[k] \in I /\ remote[k] = parts[f[k]]
       /\ \A k, l \in DOMAIN remote : k < l => f[k] < f[l]
       /\ \A j \in I : \E k \in DOMAIN remote : f[k] = j
  <2>1. DOMAIN remote = 1 .. Len(remote) /\ Len(remote) \in Nat
    BY <1>10
  <2>2. QED
    BY <1>11, <2>1 DEF Picks
<1> DEFINE J == [k \in DOMAIN remote |-> K[f[k]]]
<1>13. ASSUME NEW k \in DOMAIN remote
       PROVE  /\ remote[k] = Only(p, J[k]) /\ remote[k] \in Pkt
              /\ J[k] \in SUBSET DOMAIN p.dests /\ J[k] \cap H = {}
              /\ y(k) \in Slots /\ y(k)[2] \in {0, 3}
              /\ z(k) \in Pkt /\ z(k).dests = remote[k].dests
  <2>1. f[k] \in {1, 2} /\ K[f[k]] # {} /\ remote[k] = Only(p, K[f[k]])
    BY <1>9, <1>12
  <2>2. remote[k] = Only(p, J[k]) /\ J[k] \in SUBSET DOMAIN p.dests /\ J[k] \cap H = {} /\ J[k] = K[f[k]]
    BY <1>2, <2>1
  <2> HIDE DEF J
  <2>3. remote[k] \in Pkt /\ remote[k] \in PacketType
        /\ Goals(remote[k]) = {p.dests[j][2] : j \in J[k]}
    BY <1>5, <2>1, <2>2
  <2>4. Goals(remote[k]) = {remote[k].dests[j][2] : j \in DOMAIN remote[k].dests}
    BY DEF Goals
  <2>5. remote[k].dests # <<>> /\ remote[k].dests \in Seq((Nat \X Nat) \X Cores)
    BY <2>3 DEF Pkt, PacketType
  <2>6. 1 \in DOMAIN remote[k].dests
    BY <2>5
  <2>7. PICK j \in J[k] : remote[k].dests[1][2] = p.dests[j][2]
    BY <2>3, <2>4, <2>6
  <2>8. j \in DOMAIN p.dests /\ p.dests[j][2] # c
    BY <2>2, <2>7 DEF H, Here
  <2>9. p.dests[j][2] \in Cores
    BY <2>8, DestsAreCores
  <2>10. y(k) \in Slots /\ y(k)[2] \in {0, 3}
    BY <2>7, <2>8, <2>9, ExitIs DEF y
  <2>11. (first + k - 1) % MAX_LABEL \in Nat
    <3>1. MAX_LABEL \in Nat \ {0} /\ first + k - 1 \in Nat
      BY <1>12, SizesAssumption
    <3>2. QED
      BY <3>1
  <2>12. z(k) \in Pkt /\ z(k).dests = remote[k].dests
    BY <1>6, <2>3, <2>11 DEF z
  <2>13. QED
    BY <2>2, <2>3, <2>10, <2>12
<1>14. \A k \in DOMAIN remote : z(k) \in PktAt(y(k))
  <2>1. \A k \in DOMAIN remote : \A d \in Goals(z(k)) : East(y(k), d)
    BY <1>13 DEF East
  <2>2. QED
    BY <1>13, <2>1 DEF PktAt
<1>15. ps = [k \in 1 .. Len(remote) |-> <<y(k), z(k)>>]
  BY <1>3b, <1>12
<1>16. /\ ps \in Seq(Slots \X Pkt) /\ DOMAIN ps = DOMAIN remote
       /\ \A k \in DOMAIN ps : ps[k] = <<y(k), z(k)>>
  <2>1. \A k \in 1 .. Len(remote) : <<y(k), z(k)>> \in Slots \X Pkt
    BY <1>12, <1>13
  <2>2. ps \in Seq(Slots \X Pkt)
    BY <1>12, <1>15, <2>1
  <2>3. DOMAIN ps = DOMAIN remote
    BY <1>12, <1>15
  <2>4. QED
    BY <1>12, <1>15, <2>2, <2>3
<1>17. J \in [DOMAIN ps -> SUBSET DOMAIN p.dests]
  BY <1>13, <1>16
<1>18. ASSUME NEW k \in DOMAIN ps, NEW l \in DOMAIN ps, k # l PROVE J[k] \cap J[l] = {}
  <2>1. f[k] \in {1, 2} /\ f[l] \in {1, 2} /\ J[k] = K[f[k]] /\ J[l] = K[f[l]]
    BY <1>9, <1>12, <1>16
  <2>2. k \in Int /\ l \in Int
    BY <1>12, <1>16
  <2>3. f[k] # f[l]
    <3>1. k < l \/ l < k
      BY <1>18, <2>2
    <3>2. f[k] < f[l] \/ f[l] < f[k]
      BY <1>12, <1>16, <3>1
    <3>3. QED
      BY <2>1, <3>2
  <2>4. (f[k] = 1 /\ f[l] = 2) \/ (f[k] = 2 /\ f[l] = 1)
    BY <2>1, <2>3
  <2>5. QED
    BY <1>2, <2>1, <2>4
<1>19. ASSUME NEW i \in DOMAIN p.dests, i \notin H PROVE \E k \in DOMAIN ps : i \in J[k]
  <2>1. PICK j \in {1, 2} : i \in K[j]
    BY <1>2, <1>19
  <2>2. j \in I
    BY <1>5, <1>8, <2>1 DEF I
  <2>3. PICK k \in DOMAIN remote : f[k] = j
    BY <1>12, <2>2
  <2>4. QED
    BY <1>16, <2>1, <2>3
<1>20. Parted(p, Handed(q), ps)
  <2>1. \A k \in DOMAIN ps : /\ ps[k][2] \in PktAt(ps[k][1])
                             /\ ps[k][2].dests = Only(p, J[k]).dests
                             /\ J[k] \cap H = {}
    BY <1>13, <1>14, <1>16
  <2>2. \A k, l \in DOMAIN ps : k # l => J[k] \cap J[l] = {}
    BY <1>18
  <2>3. \A i \in DOMAIN p.dests : i \in H \/ \E k \in DOMAIN ps : i \in J[k]
    BY <1>19
  <2>4. H \in SUBSET DOMAIN p.dests
    BY <1>1
  <2> HIDE DEF J
  <2>5. QED
    BY <1>7, <1>16, <1>17, <2>1, <2>2, <2>3, <2>4, PartedSplit
<1>21. QED
  BY <1>7, <1>12, <1>20 DEF H, q, q0, ps, remote

(***************************************************************************)
(* The position in the cycle.                                              *)
(***************************************************************************)

\* The loops that have turns left are at positions of the cycle; Now is one of
\* them, and its buffer has a packet.
LEMMA NowIs ==
  ASSUME Sizes, at.pos \in 0 .. Idle, NEW pos \in {Now} \ {Idle}
  PROVE  pos \in 0 .. Idle - 1 /\ QueueAt(pos) # <<>>
<1>1. Left # {} /\ pos = Min(Left)
  BY DEF Now
<1>2. Left \in SUBSET Nat
  BY DEF Left
<1>3. \E k \in Left : \A m \in Left : k <= m
  BY <1>1, <1>2, NatLeast
<1>4. Min(Left) \in Left
  BY <1>3 DEF Min
<1>5. QED
  BY <1>1, <1>4 DEF Left

\* Whose buffer it is.
LEMMA TurnOf ==
  ASSUME Sizes, NEW pos \in 0 .. Idle - 1
  PROVE  /\ pos < FirstSlot /\ pos % 2 = 0 =>
              pos \div 2 \in Cores /\ QueueAt(pos) = netIn[pos \div 2]
         /\ pos < FirstSlot /\ pos % 2 = 1 =>
              pos \div 2 \in Cores /\ QueueAt(pos) = netOut[pos \div 2]
         /\ pos - FirstSlot \in 0 .. NumSlots - 1 =>
              /\ SlotAt(pos - FirstSlot) \in Slots
              /\ QueueAt(pos) = internal[SlotAt(pos - FirstSlot)]
         /\ pos >= FirstSlot + NumSlots =>
              /\ pos - FirstSlot - NumSlots \in Cores
              /\ QueueAt(pos) = mcBuf[pos - FirstSlot - NumSlots]
<1> DEFINE n == NumCores
           h == NumHorizontal
           f == FirstSlot
           g == NumSlots
<1>1. n \in Nat /\ h \in Nat /\ Cores = 0 .. n - 1 /\ Links = 0 .. 2 * h - 1
  BY Mesh DEF Links
<1>2. f = 2 * n /\ g = 8 * h /\ Idle = 3 * n + g /\ pos \in 0 .. Idle - 1
  BY DEF FirstSlot, NumSlots, Idle
<1> HIDE DEF n, h, f, g
<1>3. ASSUME pos < f PROVE pos \div 2 \in Cores
  <2>1. pos \in Nat /\ pos < 2 * n
    BY <1>1, <1>2, <1>3
  <2>2. pos \div 2 \in 0 .. n - 1
    BY <1>1, <2>1
  <2>3. QED
    BY <1>1, <2>2
<1>4. ASSUME pos - f \in 0 .. g - 1 PROVE SlotAt(pos - f) \in Slots
  <2> DEFINE k == pos - f
  <2>1. k \in Nat /\ k < 8 * h
    BY <1>1, <1>2, <1>4
  <2> HIDE DEF k
  <2>2. k \div 4 \in 0 .. 2 * h - 1 /\ k % 4 \in 0 .. 3
    BY <1>1, <2>1
  <2>3. SlotAt(k) \in Slots
    BY <1>1, <2>2 DEF SlotAt, Slots, Bufs
  <2>4. QED
    BY <2>3 DEF k
<1>5. ASSUME pos >= f + g PROVE pos - f - g \in Cores
  BY <1>1, <1>2, <1>5
<1>6. ASSUME pos < f, pos % 2 = 0 PROVE QueueAt(pos) = netIn[pos \div 2]
  <2>1. ~ (pos \in f .. f + g - 1) /\ ~ (pos % 2 = 1)
    BY <1>1, <1>2, <1>6
  <2>2. QED
    BY <1>6, <2>1 DEF QueueAt, f, g
<1>7. ASSUME pos < f, pos % 2 = 1 PROVE QueueAt(pos) = netOut[pos \div 2]
  <2>1. ~ (pos \in f .. f + g - 1) /\ ~ (pos % 2 = 0)
    BY <1>1, <1>2, <1>7
  <2>2. QED
    BY <1>7, <2>1 DEF QueueAt, f, g
<1>8. ASSUME pos - f \in 0 .. g - 1 PROVE QueueAt(pos) = internal[SlotAt(pos - f)]
  <2>1. pos \in f .. f + g - 1 /\ ~ (pos < f)
    BY <1>1, <1>2, <1>8
  <2>2. QED
    BY <2>1 DEF QueueAt, f, g
<1>9. ASSUME pos >= f + g PROVE QueueAt(pos) = mcBuf[pos - f - g]
  <2>1. ~ (pos \in f .. f + g - 1) /\ ~ (pos < f)
    BY <1>1, <1>2, <1>9
  <2>2. QED
    BY <2>1 DEF QueueAt, f, g
<1>10. QED
  BY <1>3, <1>4, <1>5, <1>6, <1>7, <1>8, <1>9 DEF f, g

(***************************************************************************)
(* Steps: what they leave alone, and the buffers after them.               *)
(***************************************************************************)

\* The mesh is the same after every step.
LEMMA Fixed ==
  ASSUME build' = build
  PROVE  /\ Cores' = Cores /\ Slots' = Slots /\ Names' = Names /\ Idle' = Idle /\ Pkt' = Pkt
         /\ \A x : PktAt(x)' = PktAt(x)
<1>1. Cores' = Cores /\ num_rows' = num_rows /\ NumHorizontal' = NumHorizontal
  BY DEF Cores, num_rows, NumHorizontal
<1>2. Slots' = Slots
  BY <1>1 DEF Slots, Links, Bufs
<1>3. Names' = Names
  BY <1>1, <1>2 DEF Names
<1>4. Idle' = Idle
  BY <1>1 DEF Idle, NumCores, NumSlots
<1>5. PacketType' = PacketType
  BY <1>1 DEF PacketType
<1>6. \A p : Sendable(p)' = Sendable(p)
  BY <1>1 DEF Sendable
<1>7. Pkt' = Pkt
  BY <1>5, <1>6 DEF Pkt
<1>8. \A p : Goals(p)' = Goals(p)
  BY DEF Goals
<1>9. \A x, d : East(x, d)' = East(x, d)
  BY <1>1 DEF East, X
<1>10. \A x : PktAt(x)' = PktAt(x)
  BY <1>7, <1>8, <1>9 DEF PktAt
<1>11. QED
  BY <1>1, <1>2, <1>3, <1>4, <1>7, <1>10

\* The family, buffer by buffer.
LEMMA ContentsIs ==
  ASSUME TypeOK
  PROVE  /\ Contents \in [Names -> Seq(Pkt)]
         /\ \A c \in Cores : /\ Contents[<<"in", c>>] = netIn[c]
                             /\ Contents[<<"out", c>>] = netOut[c]
                             /\ Contents[<<"mc", c>>] = mcBuf[c]
         /\ \A x \in Slots : Contents[<<"link", x>>] = internal[x]
<1>1. \A c \in Cores : netIn[c] \in Seq(Pkt) /\ netOut[c] \in Seq(Pkt)
  BY DEF TypeOK
<1>2. \A x \in Slots : internal[x] \in Seq(Pkt)
  BY DEF TypeOK
<1>3. \A c \in Cores : mcBuf[c] \in Seq(Pkt)
  <2> DEFINE P == {p \in Pkt : p.req # Nowhere}
  <2>1. \A c \in Cores : mcBuf[c] \in Seq(P)
    BY DEF TypeOK
  <2>2. P \subseteq Pkt
    OBVIOUS
  <2> HIDE DEF P
  <2>3. QED
    BY <2>1, <2>2
<1>4. \A a \in Names :
        /\ a[1] = "in" => Contents[a] = netIn[a[2]]
        /\ a[1] = "out" => Contents[a] = netOut[a[2]]
        /\ a[1] = "mc" => Contents[a] = mcBuf[a[2]]
        /\ a[1] = "link" => Contents[a] = internal[a[2]]
  BY DEF Contents, Buffer
<1>5. \A a \in Names : Contents[a] \in Seq(Pkt)
  BY <1>1, <1>2, <1>3, <1>4, NamesAre
<1>6. Contents \in [Names -> Seq(Pkt)]
  <2>1. Contents = [a \in Names |-> Contents[a]]
    BY DEF Contents
  <2>2. QED
    BY <1>5, <2>1
<1>7. QED
  BY <1>4, <1>6, NamesAre

\* The family after a step.
LEMMA ContentsAfter ==
  ASSUME build' = build, NEW C \in [Names -> Seq(Pkt)], NEW E \in [Names -> Seq(Pkt)],
         \A c \in Cores : /\ netIn'[c] = C[<<"in", c>>] \o E[<<"in", c>>]
                          /\ netOut'[c] = C[<<"out", c>>] \o E[<<"out", c>>]
                          /\ mcBuf'[c] = C[<<"mc", c>>] \o E[<<"mc", c>>],
         \A x \in Slots : internal'[x] = C[<<"link", x>>] \o E[<<"link", x>>]
  PROVE  Contents' = Joined(C, E)
<1>1. Names' = Names
  BY Fixed
<1>2. \A a \in Names :
        /\ a[1] = "in" => Contents'[a] = netIn'[a[2]]
        /\ a[1] = "out" => Contents'[a] = netOut'[a[2]]
        /\ a[1] = "mc" => Contents'[a] = mcBuf'[a[2]]
        /\ a[1] = "link" => Contents'[a] = internal'[a[2]]
  BY <1>1 DEF Contents, Buffer
<1>3. \A a \in Names : Contents'[a] = C[a] \o E[a]
  <2> SUFFICES ASSUME NEW a \in Names PROVE Contents'[a] = C[a] \o E[a]
    OBVIOUS
  <2>1. /\ a = <<a[1], a[2]>>
        /\ \/ a[1] \in {"in", "out", "mc"} /\ a[2] \in Cores
           \/ a[1] = "link" /\ a[2] \in Slots
    BY NamesAre
  <2>2. CASE a[1] = "in" /\ a[2] \in Cores
    BY <1>2, <2>1, <2>2
  <2>3. CASE a[1] = "out" /\ a[2] \in Cores
    BY <1>2, <2>1, <2>3
  <2>4. CASE a[1] = "mc" /\ a[2] \in Cores
    BY <1>2, <2>1, <2>4
  <2>5. CASE a[1] = "link" /\ a[2] \in Slots
    BY <1>2, <2>1, <2>5
  <2>6. QED
    BY <2>1, <2>2, <2>3, <2>4, <2>5
<1>4. Contents' = [a \in Names |-> Contents'[a]]
  <2>1. Contents' = [a \in Names' |-> Contents'[a]]
    BY DEF Contents
  <2>2. QED
    BY <1>1, <2>1
<1>5. QED
  BY <1>3, <1>4 DEF Joined

\* What the front packet of buffer b carries goes elsewhere: no message of
\* another packet moves.
LEMMA MovedFamily ==
  ASSUME NEW N, NEW P, NEW C \in [N -> Seq(P)], NEW b \in N, C[b] # <<>>,
         NEW E \in [N -> Seq(P)],
         Total(N, E) = Carried(Head(C[b])),
         Sound(Head(C[b])) => Separate(N, E)
  PROVE  /\ Total(N, Joined(Popped(C, b), E)) = Total(N, C)
         /\ Separate(N, C) => Separate(N, Joined(Popped(C, b), E))
<1> DEFINE R == Popped(C, b)
           p == Head(C[b])
<1>1. /\ R \in [N -> Seq(P)]
      /\ Total(N, C) = Carried(p) \cup Total(N, R)
      /\ Separate(N, C) => Sound(p) /\ Separate(N, R) /\ Carried(p) \cap Total(N, R) = {}
  BY PoppedIs
<1>2. Total(N, E) = Carried(p) /\ (Sound(p) => Separate(N, E))
  OBVIOUS
<1> HIDE DEF R, p
<1>3. /\ Total(N, Joined(R, E)) = Total(N, R) \cup Total(N, E)
      /\ Separate(N, R) /\ Separate(N, E) /\ Total(N, R) \cap Total(N, E) = {}
           => Separate(N, Joined(R, E))
  <2>1. R \in [N -> Seq(P)] /\ E \in [N -> Seq(P)]
    BY <1>1
  <2>2. /\ Joined(R, E) \in [N -> Seq(P)]
        /\ Total(N, Joined(R, E)) = Total(N, R) \cup Total(N, E)
        /\ Separate(N, R) /\ Separate(N, E) /\ Total(N, R) \cap Total(N, E) = {}
             => Separate(N, Joined(R, E))
    BY <2>1, JoinedIs, Zenon
  <2>3. QED
    BY <2>2
<1>4. Total(N, Joined(R, E)) = Total(N, C)
  BY <1>1, <1>2, <1>3
<1>5. Separate(N, C) => Separate(N, Joined(R, E))
  BY <1>1, <1>2, <1>3
<1>6. QED
  BY <1>4, <1>5 DEF R

\* The family after a step, and what it carries.
LEMMA Primed ==
  ASSUME build' = build, NEW After, Contents' = After
  PROVE  /\ Carrying' = Total(Names, After)
         /\ Separate(Names, Contents)' = Separate(Names, After)
<1>1. Names' = Names
  BY Fixed
<1>2. Carrying' = Total(Names, After)
  BY <1>1 DEF Carrying, Total, Load, Carried, Messages
<1>3. Separate(Names, Contents)' = Separate(Names, After)
  BY <1>1 DEF Separate, Sep, Sound, Load, Carried, Messages
<1>4. QED
  BY <1>2, <1>3

\* A packet that moves, in parts, changes nothing of what the buffers carry.
LEMMA Moved ==
  ASSUME build' = build, Contents \in [Names -> Seq(Pkt)], NEW b \in Names, Contents[b] # <<>>,
         NEW E \in [Names -> Seq(Pkt)], Contents' = Joined(Popped(Contents, b), E),
         Total(Names, E) = Carried(Head(Contents[b])),
         Sound(Head(Contents[b])) => Separate(Names, E)
  PROVE  /\ Carrying' = Carrying
         /\ Separate(Names, Contents) => Separate(Names, Contents)'
<1> DEFINE After == Joined(Popped(Contents, b), E)
<1>1. /\ Total(Names, After) = Total(Names, Contents)
      /\ Separate(Names, Contents) => Separate(Names, After)
  BY MovedFamily
<1>2. Contents' = After
  OBVIOUS
<1> HIDE DEF After
<1>3. Carrying' = Total(Names, After) /\ Separate(Names, Contents)' = Separate(Names, After)
  BY <1>2, Primed
<1>4. QED
  BY <1>1, <1>3 DEF Carrying

(***************************************************************************)
(* Messages out of the network: lists without repetition.                  *)
(***************************************************************************)

\* What a list of messages has after another was put behind it.
LEMMA OnceConcat ==
  ASSUME NEW M, NEW s \in Seq(M), NEW t \in Seq(M)
  PROVE  /\ s \o t \in Seq(M)
         /\ ToSet(s \o t) = ToSet(s) \cup ToSet(t)
         /\ Once(s) /\ Once(t) /\ ToSet(s) \cap ToSet(t) = {} => Once(s \o t)
<1> DEFINE u == s \o t
           m == Len(s)
           n == Len(t)
<1>1. /\ u \in Seq(M) /\ m \in Nat /\ n \in Nat /\ Len(u) = m + n
      /\ DOMAIN s = 1 .. m /\ DOMAIN t = 1 .. n /\ DOMAIN u = 1 .. m + n
  BY ConcatProperties
<1>2. \A i \in 1 .. m : u[i] = s[i]
  BY ConcatProperties
<1>3. \A i \in 1 .. m + n : i > m => u[i] = t[i - m]
  BY ConcatProperties
<1> HIDE DEF u, m, n
<1>4. \A i \in 1 .. m + n : (i \in 1 .. m) \/ (i > m /\ i - m \in 1 .. n)
  BY <1>1
<1>5. \A i \in 1 .. n : m + i \in 1 .. m + n /\ u[m + i] = t[i]
  <2> SUFFICES ASSUME NEW i \in 1 .. n PROVE m + i \in 1 .. m + n /\ u[m + i] = t[i]
    OBVIOUS
  <2> DEFINE l == m + i
  <2>1. l \in 1 .. m + n /\ l > m /\ l - m = i
    BY <1>1
  <2> HIDE DEF l
  <2>2. u[l] = t[i]
    BY <1>3, <2>1
  <2>3. QED
    BY <2>1, <2>2 DEF l
<1>6. ToSet(u) = ToSet(s) \cup ToSet(t)
  <2>1. \A i \in DOMAIN u : u[i] \in ToSet(s) \cup ToSet(t)
    BY <1>1, <1>2, <1>3, <1>4 DEF ToSet
  <2>2. \A i \in DOMAIN s : \E j \in DOMAIN u : u[j] = s[i]
    BY <1>1, <1>2
  <2>3. \A i \in DOMAIN t : \E j \in DOMAIN u : u[j] = t[i]
    BY <1>1, <1>5
  <2>4. QED
    BY <2>1, <2>2, <2>3 DEF ToSet
<1>7. ASSUME Once(s), Once(t), ToSet(s) \cap ToSet(t) = {}
      PROVE  Once(u)
  <2>1. \A i, j \in 1 .. m : s[i] = s[j] => i = j
    BY <1>7 DEF Once, m
  <2>2. \A i, j \in 1 .. n : t[i] = t[j] => i = j
    BY <1>7 DEF Once, n
  <2>3. \A i \in 1 .. m : \A j \in 1 .. n : s[i] # t[j]
    BY <1>1, <1>7 DEF ToSet
  <2>4. \A i, j \in 1 .. m + n : u[i] = u[j] => i = j
    <3> SUFFICES ASSUME NEW i \in 1 .. m + n, NEW j \in 1 .. m + n, u[i] = u[j] PROVE i = j
      OBVIOUS
    <3>1. CASE i \in 1 .. m /\ j \in 1 .. m
      BY <1>2, <2>1, <3>1
    <3>2. CASE i \in 1 .. m /\ j > m /\ j - m \in 1 .. n
      BY <1>2, <1>3, <2>3, <3>2
    <3>3. CASE i > m /\ i - m \in 1 .. n /\ j \in 1 .. m
      BY <1>2, <1>3, <2>3, <3>3
    <3>4. CASE i > m /\ i - m \in 1 .. n /\ j > m /\ j - m \in 1 .. n
      <4>1. i - m = j - m
        BY <1>3, <2>2, <3>4
      <4>2. QED
        BY <1>1, <4>1
    <3>5. QED
      BY <1>4, <3>1, <3>2, <3>3, <3>4
  <2>5. QED
    BY <1>1, <2>4 DEF Once
<1>8. QED
  BY <1>1, <1>6, <1>7 DEF u

\* The messages of a packet, as the list that is handed on.
LEMMA MessagesAre ==
  ASSUME NEW p \in Pkt
  PROVE  /\ Messages(p) \in Seq(Nat \X Nat)
         /\ ToSet(Messages(p)) = Carried(p)
         /\ Sound(p) => Once(Messages(p))
<1> DEFINE l == p.dests
<1>1. l \in Seq((Nat \X Nat) \X Cores)
  BY DEF Pkt, PacketType
<1>2. Len(l) \in Nat /\ DOMAIN l = 1 .. Len(l) /\ \A k \in DOMAIN l : l[k][1] \in Nat \X Nat
  BY <1>1
<1>3. Messages(p) = [k \in 1 .. Len(l) |-> l[k][1]]
  BY <1>2 DEF Messages
<1>4. Sound(p) <=> \A i, j \in DOMAIN l : l[i][1] = l[j][1] => i = j
  BY DEF Sound
<1> HIDE DEF l
<1>5. Messages(p) \in Seq(Nat \X Nat) /\ Len(Messages(p)) = Len(l)
  BY <1>2, <1>3
<1>6. \A i \in DOMAIN l : Messages(p)[i] = l[i][1]
  BY <1>2, <1>3
<1>7. Sound(p) => Once(Messages(p))
  <2> DEFINE t == Messages(p)
  <2>1. Len(t) = Len(l) /\ \A i \in 1 .. Len(l) : t[i] = l[i][1]
    BY <1>2, <1>5, <1>6
  <2> HIDE DEF t
  <2>2. Sound(p) => Once(t)
    BY <1>2, <1>4, <2>1 DEF Once
  <2>3. QED
    BY <2>2 DEF t
<1>8. QED
  BY <1>5, <1>7 DEF Carried

\* Lists aside, as those on the crossbar: what they have, and that no message is
\* in them twice.
Aside(w) == UNION {ToSet(w[k]) : k \in DOMAIN w}
Apart(w) ==
  /\ \A k \in DOMAIN w : Once(w[k])
  /\ \A k, l \in DOMAIN w : k # l => ToSet(w[k]) \cap ToSet(w[l]) = {}

\* Settled in those terms, before and after a step.
LEMMA SettledIs ==
  /\ Settled <=> Once(executed) /\ Apart(wait) /\ Aside(wait) \cap ToSet(executed) = {}
  /\ Waiting = Aside(wait)
  /\ Settled' <=> Once(executed') /\ Apart(wait') /\ Aside(wait') \cap ToSet(executed') = {}
  /\ Waiting' = Aside(wait')
BY DEF Settled, Once, Apart, Aside, Waiting

\* One of the lists gets longer.
Lengthens(v, w, k, s) == v = [w EXCEPT ![k] = @ \o s]

\* The lists then have more, and share nothing if what is new is new.
LEMMA AsideGrows ==
  ASSUME NEW K, NEW M, NEW w \in [K -> Seq(M)], NEW k \in K, NEW s \in Seq(M),
         NEW v, Lengthens(v, w, k, s)
  PROVE  /\ v \in [K -> Seq(M)]
         /\ Aside(v) = Aside(w) \cup ToSet(s)
         /\ Apart(w) /\ Once(s) /\ ToSet(s) \cap Aside(w) = {} => Apart(v)
<1>1. w[k] \in Seq(M)
  OBVIOUS
<1>2. /\ w[k] \o s \in Seq(M)
      /\ ToSet(w[k] \o s) = ToSet(w[k]) \cup ToSet(s)
      /\ Once(w[k]) /\ Once(s) /\ ToSet(w[k]) \cap ToSet(s) = {} => Once(w[k] \o s)
  BY <1>1, OnceConcat
<1>3. v \in [K -> Seq(M)] /\ DOMAIN w = K /\ DOMAIN v = K
  BY <1>2 DEF Lengthens
<1>4. v[k] = w[k] \o s /\ \A j \in K : j # k => v[j] = w[j]
  BY DEF Lengthens
<1>5. ToSet(v[k]) = ToSet(w[k]) \cup ToSet(s) /\ \A j \in K : j # k => ToSet(v[j]) = ToSet(w[j])
  BY <1>2, <1>4
<1>6. Aside(v) = Aside(w) \cup ToSet(s)
  BY <1>3, <1>5 DEF Aside
<1>7. ASSUME Apart(w), Once(s), ToSet(s) \cap Aside(w) = {}
      PROVE  Apart(v)
  <2>1. \A j \in K : ToSet(w[j]) \cap ToSet(s) = {}
    BY <1>3, <1>7 DEF Aside
  <2>2. \A j \in K : Once(v[j])
    BY <1>2, <1>3, <1>4, <1>7, <2>1 DEF Apart
  <2>3. \A i, j \in K : i # j => ToSet(w[i]) \cap ToSet(w[j]) = {}
    BY <1>3, <1>7 DEF Apart
  <2>4. \A i, j \in K : i # j => ToSet(v[i]) \cap ToSet(v[j]) = {}
    BY <1>5, <2>1, <2>3
  <2>5. QED
    BY <1>3, <2>2, <2>4 DEF Apart
<1>8. QED
  BY <1>3, <1>6, <1>7

\* One of the lists is emptied.
Empties(v, w, k) == v = [w EXCEPT ![k] = <<>>]

\* The lists then have what that one did not.
LEMMA AsideLoses ==
  ASSUME NEW K, NEW M, NEW w \in [K -> Seq(M)], NEW k \in K, NEW v, Empties(v, w, k)
  PROVE  /\ v \in [K -> Seq(M)]
         /\ Aside(w) = Aside(v) \cup ToSet(w[k])
         /\ Apart(w) => Apart(v) /\ Once(w[k]) /\ ToSet(w[k]) \cap Aside(v) = {}
<1>1. v \in [K -> Seq(M)] /\ DOMAIN w = K /\ DOMAIN v = K
  BY DEF Empties
<1>2. v[k] = <<>> /\ \A j \in K : j # k => v[j] = w[j]
  BY DEF Empties
<1>3. Once(<<>>) /\ ToSet(<<>>) = {}
  BY DEF Once, ToSet
<1>4. ToSet(v[k]) = {} /\ \A j \in K : j # k => ToSet(v[j]) = ToSet(w[j])
  BY <1>2, <1>3
<1>5. Aside(w) = Aside(v) \cup ToSet(w[k])
  BY <1>1, <1>4 DEF Aside
<1>6. ASSUME Apart(w)
      PROVE  Apart(v) /\ Once(w[k]) /\ ToSet(w[k]) \cap Aside(v) = {}
  <2>1. \A j \in K : Once(w[j])
    BY <1>1, <1>6 DEF Apart
  <2>2. \A j \in K : Once(v[j])
    BY <1>2, <1>3, <2>1
  <2>3. \A i, j \in K : i # j => ToSet(w[i]) \cap ToSet(w[j]) = {}
    BY <1>1, <1>6 DEF Apart
  <2>4. \A i, j \in K : i # j => ToSet(v[i]) \cap ToSet(v[j]) = {}
    BY <1>4, <2>3
  <2>5. \A j \in K : ToSet(w[k]) \cap ToSet(v[j]) = {}
    BY <1>4, <2>3
  <2>6. Apart(v)
    BY <1>1, <2>2, <2>4 DEF Apart
  <2>7. ToSet(w[k]) \cap Aside(v) = {}
    BY <1>1, <2>5 DEF Aside
  <2>8. QED
    BY <2>1, <2>6, <2>7
<1>7. QED
  BY <1>1, <1>5, <1>6

\* A step after which the messages s are handed on and no others, which were in
\* the buffers or on the crossbar.
LEMMA HandsOn ==
  ASSUME IInv, TypeOK', InBounds', Separate(Names, Contents)', sent' = sent,
         NEW s \in Seq(Nat \X Nat), Once(s), executed' = executed \o s,
         Carrying \cup Waiting = ToSet(s) \cup Carrying' \cup Waiting',
         ToSet(s) \cap (Carrying' \cup Waiting') = {},
         Carrying' \cap Waiting' = {}, Apart(wait')
  PROVE  IInv' /\ Delivers
<1>1. executed \in Seq(Nat \X Nat) /\ Elsewhere /\ WereSent
  BY DEF IInv, TypeOK
<1>2. Once(executed) /\ Waiting \cap ToSet(executed) = {}
  BY SettledIs DEF IInv
<1>3. (Carrying \cup Waiting) \cap ToSet(executed) = {}
  BY <1>1, <1>2 DEF Elsewhere
<1>4. ToSet(executed') = ToSet(executed) \cup ToSet(s) /\ Once(executed')
  BY <1>1, <1>2, <1>3, OnceConcat
<1>5. (Carrying' \cup Waiting') \cap ToSet(executed') = {}
  BY <1>3, <1>4
<1>6. Settled'
  BY <1>4, <1>5, SettledIs
<1>7. Elsewhere'
  BY <1>5 DEF Elsewhere
<1>8. Carrying' \cup Waiting' \cup ToSet(executed') = Carrying \cup Waiting \cup ToSet(executed)
  BY <1>4
<1>9. WereSent'
  BY <1>1, <1>8 DEF WereSent
<1>10. Delivers
  BY DEF Delivers, Arrives
<1>11. QED
  BY <1>6, <1>7, <1>9, <1>10 DEF IInv

(***************************************************************************)
(* The routers' steps.                                                     *)
(***************************************************************************)

\* No core is Nowhere.
LEMMA NowhereIsNoCore ==
  ASSUME Sizes
  PROVE  Nowhere \notin Cores
BY Mesh DEF Nowhere

\* A push at the end of buffer c of the buffers f.
Pushes(g, f, c, p) == g = [f EXCEPT ![c] = Append(@, p)]
AtEnd(f, A, c, s) == [d \in A |-> f[d] \o (IF d = c THEN s ELSE <<>>)]

\* A push puts the packet at the end of that buffer.
LEMMA Appended ==
  ASSUME NEW A, NEW P, NEW f \in [A -> Seq(P)], NEW c, NEW p \in P, NEW g, Pushes(g, f, c, p)
  PROVE  g = AtEnd(f, A, c, <<p>>)
<1>1. \A d \in A : f[d] \in Seq(P)
  OBVIOUS
<1>2. \A q \in Seq(P) : q \o <<>> = q /\ q \o <<p>> = Append(q, p)
  OBVIOUS
<1>3. g = [d \in A |-> IF d = c THEN Append(f[d], p) ELSE f[d]]
  BY DEF Pushes
<1>4. \A d \in A : f[d] \o (IF d = c THEN <<p>> ELSE <<>>) = IF d = c THEN Append(f[d], p) ELSE f[d]
  BY <1>1, <1>2
<1>5. QED
  BY <1>3, <1>4 DEF AtEnd

\* Without a push the buffers stay.
LEMMA NotAppended ==
  ASSUME NEW A, NEW P, NEW f \in [A -> Seq(P)], NEW c
  PROVE  f = AtEnd(f, A, c, <<>>)
<1>1. \A d \in A : f[d] \in Seq(P)
  OBVIOUS
<1>2. \A q \in Seq(P) : q \o <<>> = q
  OBVIOUS
<1>3. \A d \in A : f[d] \o (IF d = c THEN <<>> ELSE <<>>) = f[d]
  BY <1>1, <1>2
<1>4. f = [d \in A |-> f[d]]
  OBVIOUS
<1>5. QED
  BY <1>3, <1>4 DEF AtEnd

\* What the fields of a packet tell.
LEMMA Kinds ==
  ASSUME Sizes, NEW p \in Pkt
  PROVE  /\ p.type # "scalarRequest"
         /\ IsMulticast(p) <=> build.multicast
         /\ build.multicast => p.dest = Nowhere /\ p.dest \notin Cores /\ p.req = Nowhere
         /\ ~build.multicast => p.dest \in Cores /\ Goals(p) = {p.dest}
         /\ p.req # Nowhere => ~build.multicast /\ p.mc \in Cores /\ p.req \in Cores
<1>1. p \in PacketType /\ Sendable(p)
  BY DEF Pkt
<1>2. p.type # "scalarRequest" /\ p.req \in Cores \cup {Nowhere}
  BY <1>1 DEF PacketType
<1>3. build.multicast \in BOOLEAN
  BY BuildsAssumption DEF Sizes, Build
<1>4. CASE build.multicast
  <2>1. p.type = "vectorized" /\ p.dest = Nowhere /\ p.req = Nowhere
    BY <1>1, <1>4 DEF Sendable
  <2>2. QED
    BY <1>2, <1>4, <2>1, NowhereIsNoCore DEF IsMulticast, is_remote_read
<1>5. CASE ~build.multicast
  <2>1. p.dest \in Cores /\ (p.req # Nowhere => p.mc \in Cores)
    BY <1>1, <1>5 DEF Sendable
  <2>2. QED
    BY <1>2, <1>5, <2>1 DEF IsMulticast, Goals
<1>6. QED
  BY <1>4, <1>5

\* A push of the packets ps into buffers that exist.
LEMMA PushIs ==
  ASSUME TypeOK, NEW xs \in SUBSET Slots, \A x \in xs : internal[x] # <<>>,
         NEW ps \in Seq(Slots \X Pkt), \A k \in DOMAIN ps : ps[k][2] \in PktAt(ps[k][1]),
         internal' = [x \in Slots |->
                        (IF x \in xs THEN Tail(internal[x]) ELSE internal[x]) \o For(x, ps)]
  PROVE  /\ internal' \in [Slots -> Seq(Pkt)]
         /\ \A x \in Slots : internal'[x] \in Seq(PktAt(x))
<1>1. ASSUME NEW x \in Slots
      PROVE  (IF x \in xs THEN Tail(internal[x]) ELSE internal[x]) \o For(x, ps) \in Seq(PktAt(x))
  <2>1. internal[x] \in Seq(PktAt(x))
    BY DEF TypeOK
  <2>2. (IF x \in xs THEN Tail(internal[x]) ELSE internal[x]) \in Seq(PktAt(x))
    <3>1. internal[x] # <<>> => Tail(internal[x]) \in Seq(PktAt(x))
      BY <2>1
    <3>2. QED
      BY <2>1, <3>1
  <2>3. For(x, ps) \in Seq(PktAt(x))
    <3> DEFINE u == For(x, ps)
    <3>1. u \in Seq(Pkt) /\ \E f : Sorts(f, x, ps)
      BY ForIs, Zenon
    <3>2. PICK f : Sorts(f, x, ps)
      BY <3>1
    <3>3. \A k \in DOMAIN u : f[k] \in DOMAIN ps /\ ps[f[k]][1] = x /\ u[k] = ps[f[k]][2]
      BY <3>2 DEF Sorts
    <3> HIDE DEF u
    <3>4. \A k \in DOMAIN u : u[k] \in PktAt(x)
      BY <3>3
    <3>5. u \in Seq(PktAt(x))
      BY <3>1, <3>4
    <3>6. QED
      BY <3>5 DEF u
  <2>4. QED
    BY <2>2, <2>3, ConcatProperties
<1>2. \A x : Seq(PktAt(x)) \subseteq Seq(Pkt)
  <2> SUFFICES ASSUME NEW x PROVE Seq(PktAt(x)) \subseteq Seq(Pkt)
    OBVIOUS
  <2>1. PktAt(x) \subseteq Pkt
    BY DEF PktAt
  <2>2. QED
    BY <2>1
<1>3. QED
  BY <1>1, <1>2

\* A step of a router: the front packet of buffer b goes on, in parts.
LEMMA Routed ==
  ASSUME Sizes, TypeOK, build' = build,
         NEW b \in Names, b[1] \in {"in", "link"}, Contents[b] # <<>>,
         NEW c \in Cores, NEW out, NEW ps, Parted(Head(Contents[b]), out, ps),
         netIn' = [d \in Cores |-> IF b = <<"in", d>> THEN Tail(netIn[d]) ELSE netIn[d]],
         netOut' = AtEnd(netOut, Cores, c, out),
         internal' = [x \in Slots |->
                        (IF b = <<"link", x>> THEN Tail(internal[x]) ELSE internal[x]) \o For(x, ps)],
         mcBuf' = mcBuf, label' \in Nat, at'.pos \in 0 .. Idle,
         wait' = wait, ptr' = ptr, sent' = sent, executed' = executed
  PROVE  /\ TypeOK'
         /\ Carrying' = Carrying
         /\ Separate(Names, Contents) => Separate(Names, Contents)'
<1> DEFINE E == Spreading(c, out, ps)
           R == Popped(Contents, b)
           p == Head(Contents[b])
<1>1. /\ Contents \in [Names -> Seq(Pkt)]
      /\ \A d \in Cores : /\ Contents[<<"in", d>>] = netIn[d]
                          /\ Contents[<<"out", d>>] = netOut[d]
                          /\ Contents[<<"mc", d>>] = mcBuf[d]
      /\ \A x \in Slots : Contents[<<"link", x>>] = internal[x]
  BY ContentsIs
<1>2. /\ out \in Seq(Pkt) /\ ps \in Seq(Slots \X Pkt)
      /\ \A k \in DOMAIN ps : ps[k][2] \in PktAt(ps[k][1])
      /\ Load(out) \cup Brought(ps) = Carried(p)
      /\ Sound(p) => Sep(out) /\ Spread(ps) /\ Load(out) \cap Brought(ps) = {}
  BY DEF Parted
<1>3. /\ E \in [Names -> Seq(Pkt)]
      /\ Total(Names, E) = Load(out) \cup Brought(ps)
      /\ Sep(out) /\ Spread(ps) /\ Load(out) \cap Brought(ps) = {} => Separate(Names, E)
  BY <1>2, SpreadingIs
<1>4. Total(Names, E) = Carried(p) /\ (Sound(p) => Separate(Names, E))
  BY <1>2, <1>3
<1>5. R \in [Names -> Seq(Pkt)]
  BY <1>1, PoppedIs
<1>6. \A a \in Names : R[a] = IF a = b THEN Tail(Contents[a]) ELSE Contents[a]
  BY <1>1 DEF Popped
<1>7. /\ \A d \in Cores : /\ E[<<"in", d>>] = <<>> /\ E[<<"mc", d>>] = <<>>
                          /\ E[<<"out", d>>] = IF d = c THEN out ELSE <<>>
      /\ \A x \in Slots : E[<<"link", x>>] = For(x, ps)
  BY NamesAre DEF Spreading
<1> HIDE DEF E, R
<1>8. \A a \in Names : R[a] \in Seq(Pkt) /\ R[a] \o <<>> = R[a]
  BY <1>5
<1>9. \A d \in Cores : /\ netIn'[d] = R[<<"in", d>>] \o E[<<"in", d>>]
                       /\ netOut'[d] = R[<<"out", d>>] \o E[<<"out", d>>]
                       /\ mcBuf'[d] = R[<<"mc", d>>] \o E[<<"mc", d>>]
  <2> SUFFICES ASSUME NEW d \in Cores
               PROVE  /\ netIn'[d] = R[<<"in", d>>] \o E[<<"in", d>>]
                      /\ netOut'[d] = R[<<"out", d>>] \o E[<<"out", d>>]
                      /\ mcBuf'[d] = R[<<"mc", d>>] \o E[<<"mc", d>>]
    OBVIOUS
  <2>1. <<"in", d>> \in Names /\ <<"out", d>> \in Names /\ <<"mc", d>> \in Names
    BY NamesAre
  <2>2. b # <<"out", d>> /\ b # <<"mc", d>>
    OBVIOUS
  <2>3. /\ R[<<"in", d>>] = IF b = <<"in", d>> THEN Tail(netIn[d]) ELSE netIn[d]
        /\ R[<<"out", d>>] = netOut[d] /\ R[<<"mc", d>>] = mcBuf[d]
    BY <1>1, <1>6, <2>1, <2>2
  <2>4. netIn'[d] = R[<<"in", d>>] \o E[<<"in", d>>]
    BY <1>7, <1>8, <2>1, <2>3
  <2>5. mcBuf'[d] = R[<<"mc", d>>] \o E[<<"mc", d>>]
    BY <1>7, <1>8, <2>1, <2>3
  <2>6. netOut'[d] = R[<<"out", d>>] \o E[<<"out", d>>]
    BY <1>7, <2>3 DEF AtEnd
  <2>7. QED
    BY <2>4, <2>5, <2>6
<1>10. \A x \in Slots : internal'[x] = R[<<"link", x>>] \o E[<<"link", x>>]
  <2> SUFFICES ASSUME NEW x \in Slots PROVE internal'[x] = R[<<"link", x>>] \o E[<<"link", x>>]
    OBVIOUS
  <2>1. R[<<"link", x>>] = IF b = <<"link", x>> THEN Tail(internal[x]) ELSE internal[x]
    BY <1>1, <1>6, NamesAre
  <2>2. QED
    BY <1>7, <2>1
<1>11. Contents' = Joined(R, E)
  BY <1>3, <1>5, <1>9, <1>10, ContentsAfter
<1>12. /\ Carrying' = Carrying
       /\ Separate(Names, Contents) => Separate(Names, Contents)'
  BY <1>1, <1>3, <1>4, <1>11, Moved DEF R
<1>13. netIn' \in [Cores -> Seq(Pkt)]
  <2>1. ASSUME NEW d \in Cores
        PROVE  (IF b = <<"in", d>> THEN Tail(netIn[d]) ELSE netIn[d]) \in Seq(Pkt)
    <3>1. netIn[d] \in Seq(Pkt) /\ (b = <<"in", d>> => netIn[d] # <<>>)
      BY <1>1 DEF TypeOK
    <3>2. QED
      BY <3>1
  <2>2. QED
    BY <2>1
<1>14. netOut' \in [Cores -> Seq(Pkt)]
  <2>1. ASSUME NEW d \in Cores
        PROVE  netOut[d] \o (IF d = c THEN out ELSE <<>>) \in Seq(Pkt)
    <3>1. netOut[d] \in Seq(Pkt) /\ (IF d = c THEN out ELSE <<>>) \in Seq(Pkt)
      BY <1>2 DEF TypeOK
    <3>2. QED
      BY <3>1, ConcatProperties
  <2>2. QED
    BY <2>1 DEF AtEnd
<1>15. /\ internal' \in [Slots -> Seq(Pkt)]
       /\ \A x \in Slots : internal'[x] \in Seq(PktAt(x))
  <2> DEFINE xs == {x \in Slots : b = <<"link", x>>}
  <2>1. xs \in SUBSET Slots /\ \A x \in xs : internal[x] # <<>>
    BY <1>1
  <2>2. internal' = [x \in Slots |->
                       (IF x \in xs THEN Tail(internal[x]) ELSE internal[x]) \o For(x, ps)]
    OBVIOUS
  <2> HIDE DEF xs
  <2>3. QED
    BY <1>2, <2>1, <2>2, PushIs
<1>16. TypeOK'
  <2>1. mcBuf' \in [Cores -> Seq({q \in Pkt : q.req # Nowhere})]
    BY DEF TypeOK
  <2>2. /\ wait' \in [0 .. MAX_NET_LATENCY - 1 -> Seq(Nat \X Nat)]
        /\ ptr' \in 0 .. MAX_NET_LATENCY - 1
        /\ sent' \in Nat /\ executed' \in Seq(Nat \X Nat) /\ build' \in Builds
    BY DEF TypeOK
  <2>3. QED
    BY <1>13, <1>14, <1>15, <2>1, <2>2, Fixed DEF TypeOK
<1>17. QED
  BY <1>12, <1>16

\* The invariant after a step that hands nothing on.
LEMMA Kept ==
  ASSUME IInv, TypeOK', InBounds', Carrying' = Carrying, Separate(Names, Contents)',
         wait' = wait, executed' = executed, sent' = sent
  PROVE  IInv' /\ Delivers
<1> DEFINE s == <<>>
<1>1. Waiting' = Waiting /\ Apart(wait')
  BY SettledIs DEF IInv
<1>2. s \in Seq(Nat \X Nat) /\ Once(s) /\ ToSet(s) = {}
  BY DEF Once, ToSet
<1>3. executed' = executed \o s
  BY DEF IInv, TypeOK
<1>4. Carrying' \cap Waiting' = {}
  BY <1>1 DEF IInv, Elsewhere
<1> HIDE DEF s
<1>5. QED
  BY <1>1, <1>2, <1>3, <1>4, HandsOn

\* A turn of a loop leaves the cycle at its position.
LEMMA TurnStep ==
  ASSUME Sizes, NEW pos \in 0 .. Idle, NEW pops, Turn(pos, pops)
  PROVE  at'.pos \in 0 .. Idle
BY DEF Turn

\* A move within the bounds.
LEMMA MoveIs ==
  ASSUME InBounds, NEW xs, NEW ps \in Seq(Slots \X Pkt), Move(xs, ps)
  PROVE  /\ InBounds'
         /\ internal' = [x \in Slots |->
                           (IF x \in xs THEN Tail(internal[x]) ELSE internal[x]) \o For(x, ps)]
<1>1. \A k \in DOMAIN ps : ps[k][1] \in Slots
  OBVIOUS
<1>2. InBounds'
  BY <1>1 DEF InBounds, Move
<1>3. QED
  BY <1>2 DEF Move

\* What a step of a router does to the buffers to the banks.
LEMMA HandOutIs ==
  ASSUME TypeOK, NEW c \in Cores, NEW q \in PacketType, q.dests # <<>> => q \in Pkt, HandOut(c, q)
  PROVE  netOut' = AtEnd(netOut, Cores, c, Handed(q))
<1>1. netOut \in [Cores -> Seq(Pkt)]
  BY DEF TypeOK
<1>2. CASE q.dests = <<>>
  <2>1. netOut' = netOut /\ Handed(q) = <<>>
    BY <1>2 DEF HandOut, Handed
  <2>2. QED
    BY <1>1, <2>1, NotAppended
<1>3. CASE q.dests # <<>>
  <2>1. Pushes(netOut', netOut, c, q) /\ Handed(q) = <<q>> /\ q \in Pkt
    BY <1>3 DEF HandOut, Handed, Pushes
  <2>2. QED
    BY <1>1, <2>1, Appended
<1>4. QED
  BY <1>2, <1>3

\* internal_routing
LEMMA RouteFrontStep ==
  ASSUME JunkIsBuffer, IInv, NEW x \in Slots, internal[x] # <<>>, NEW pos \in 0 .. Idle,
         RouteFront(pos, x)
  PROVE  IInv' /\ Delivers
<1> DEFINE c == CoreOf(x[1], x[2])
           p == Head(internal[x])
           b == <<"link", x>>
<1>0. TypeOK /\ InBounds /\ Sizes /\ x[1] \in Links /\ x[2] \in Bufs
  BY DEF IInv, TypeOK, Sizes, Slots
<1>1. /\ UNCHANGED <<build, netIn, mcBuf, label, wait, ptr, executed, sent>>
  BY DEF RouteFront, bankVars
<1>2. c \in Cores
  BY <1>0, CoreOfIs
<1>3. p \in PktAt(x) /\ p \in Pkt
  <2>1. internal[x] \in Seq(PktAt(x))
    BY <1>0 DEF TypeOK
  <2>2. QED
    BY <2>1 DEF PktAt
<1>4. b \in Names /\ b[1] \in {"in", "link"} /\ Contents[b] = internal[x]
  BY <1>0, ContentsIs, NamesAre
<1>5. netIn' = [d \in Cores |-> IF b = <<"in", d>> THEN Tail(netIn[d]) ELSE netIn[d]]
  <2>1. netIn = [d \in Cores |-> netIn[d]]
    BY <1>0 DEF TypeOK
  <2>2. \A d : b # <<"in", d>>
    OBVIOUS
  <2>3. QED
    BY <1>1, <2>1, <2>2
<1>6. label' \in Nat
  BY <1>0, <1>1 DEF TypeOK
<1>7. ASSUME NEW out, NEW ps, Parted(p, out, ps), Move({x}, ps), at'.pos \in 0 .. Idle,
             netOut' = AtEnd(netOut, Cores, c, out)
      PROVE  IInv' /\ Delivers
  <2>1. ps \in Seq(Slots \X Pkt)
    BY <1>7 DEF Parted
  <2>2. /\ InBounds'
        /\ internal' = [y \in Slots |->
                          (IF y \in {x} THEN Tail(internal[y]) ELSE internal[y]) \o For(y, ps)]
    <3>1. InBounds'
      BY <1>0, <1>7, <2>1, MoveIs, Zenon
    <3>2. QED
      BY <1>7, <3>1 DEF Move
  <2>3. \A y \in Slots : y \in {x} <=> b = <<"link", y>>
    OBVIOUS
  <2>4. internal' = [y \in Slots |->
                       (IF b = <<"link", y>> THEN Tail(internal[y]) ELSE internal[y]) \o For(y, ps)]
    BY <2>2, <2>3
  <2>5. Parted(Head(Contents[b]), out, ps) /\ Contents[b] # <<>>
    BY <1>4, <1>7
  <2> HIDE DEF b, c, p
  <2>6. /\ TypeOK'
        /\ Carrying' = Carrying
        /\ Separate(Names, Contents) => Separate(Names, Contents)'
    BY <1>0, <1>1, <1>2, <1>4, <1>5, <1>6, <1>7, <2>4, <2>5, Routed
  <2>7. QED
    BY <1>1, <2>2, <2>6, Kept DEF IInv
<1>8. CASE p.label \in isDone
  <2>1. /\ at'.pos \in 0 .. Idle
        /\ UNCHANGED <<internal, stray, netOut>>
    BY <1>8 DEF RouteFront
  <2>2. TypeOK' /\ InBounds'
    BY <1>0, <1>1, <2>1, Fixed DEF TypeOK, InBounds
  <2>3. Contents' = Contents
    <3>1. Names' = Names
      BY <1>1, Fixed
    <3>2. QED
      BY <1>1, <2>1, <3>1 DEF Contents, Buffer
  <2>4. Carrying' = Carrying /\ Separate(Names, Contents)' = Separate(Names, Contents)
    BY <1>1, <2>3, Primed DEF Carrying
  <2>5. QED
    BY <1>1, <2>2, <2>4, Kept DEF IInv
<1>9. CASE p.label \notin isDone /\ p.dest = c
  <2>1. /\ netOut' = [netOut EXCEPT ![c] = Append(@, p)]
        /\ Move({x}, <<>>)
        /\ Turn(pos, 0)
    BY <1>9 DEF RouteFront
  <2>2. Parted(p, <<p>>, <<>>)
    BY <1>3, PartedHere
  <2>3. netOut' = AtEnd(netOut, Cores, c, <<p>>)
    <3>1. netOut \in [Cores -> Seq(Pkt)] /\ Pushes(netOut', netOut, c, p)
      BY <1>0, <2>1 DEF TypeOK, Pushes
    <3> HIDE DEF c, p
    <3>2. QED
      BY <1>3, <3>1, Appended
  <2>4. at'.pos \in 0 .. Idle
    BY <1>0, <2>1, TurnStep
  <2>5. QED
    BY <1>7, <2>1, <2>2, <2>3, <2>4
<1>10. CASE p.label \notin isDone /\ p.dest # c /\ IsMulticast(p)
  <2> DEFINE q == Only(p, Here(p, c))
  <2>1. TransferMulticast(pos, x, c, p)
    BY <1>10 DEF RouteFront
  <2>2. build.multicast
    BY <1>10 DEF IsMulticast
  <2>3. Parted(p, Handed(q), Onwards(x, c, p)) /\ q \in PacketType
    BY <1>0, <1>3, <2>2, PartedRoute
  <2>4. /\ HandOut(c, q)
        /\ Move({x}, Onwards(x, c, p))
        /\ at'.pos \in 0 .. Idle
    <3>1. /\ HandOut(c, q)
          /\ Move({x}, Onwards(x, c, p))
          /\ Turn(pos, Crossed(x[1], c, p))
      BY <2>1 DEF TransferMulticast, Onwards
    <3>2. QED
      BY <1>0, <3>1, TurnStep
  <2>5. q.dests # <<>> => q \in Pkt
    <3>1. Here(p, c) \in SUBSET DOMAIN p.dests
      BY DEF Here
    <3>2. /\ Here(p, c) # {} => q \in Pkt
          /\ q.dests = <<>> <=> Here(p, c) = {}
      <4>1. p \in PacketType
        BY <1>3 DEF Pkt
      <4> HIDE DEF p, c
      <4>2. QED
        BY <1>3, <2>2, <3>1, <4>1, OnlyMulticast, OnlyIs
    <3>3. QED
      BY <3>2
  <2>6. netOut' = AtEnd(netOut, Cores, c, Handed(q))
    <3> HIDE DEF p, c, q
    <3> QED BY <1>0, <1>2, <2>3, <2>4, <2>5, HandOutIs
  <2>7. QED
    BY <1>7, <2>3, <2>4, <2>6
<1>11. CASE p.label \notin isDone /\ p.dest # c /\ ~IsMulticast(p)
  <2> DEFINE y == Onward(x, c, Route(c, p.dest))
  <2>1. TransferScalar(pos, x, c, p)
    BY <1>11 DEF RouteFront
  <2>2. /\ Move({x}, <<<<y, p>>>>)
        /\ at'.pos \in 0 .. Idle
        /\ netOut' = netOut
    BY <1>0, <2>1, TurnStep DEF TransferScalar
  <2>3. p.dest \in Cores /\ Goals(p) = {p.dest}
    BY <1>0, <1>3, <1>11, Kinds
  <2>4. East(x, p.dest)
    BY <1>3, <2>3 DEF PktAt
  <2>5. y \in Slots /\ East(y, p.dest)
    BY <1>0, <1>11, <2>3, <2>4, OnwardIs
  <2>6. p \in PktAt(y)
    BY <1>3, <2>3, <2>5 DEF PktAt
  <2>7. Parted(p, <<>>, <<<<y, p>>>>)
    BY <2>5, <2>6, PartedWhole
  <2>8. netOut' = AtEnd(netOut, Cores, c, <<>>)
    <3>1. netOut \in [Cores -> Seq(Pkt)]
      BY <1>0 DEF TypeOK
    <3> HIDE DEF c
    <3>2. QED
      BY <2>2, <3>1, NotAppended
  <2>9. QED
    BY <1>7, <2>2, <2>7, <2>8
<1>12. QED
  BY <1>8, <1>9, <1>10, <1>11

\* pull_packets_to_network
LEMMA PullStep ==
  ASSUME IInv, NEW c \in Cores, netIn[c] # <<>>, NEW pos \in 0 .. Idle, Pull(pos, c)
  PROVE  IInv' /\ Delivers
<1> DEFINE p == Head(netIn[c])
           b == <<"in", c>>
<1>0. TypeOK /\ InBounds /\ Sizes
  BY DEF IInv, TypeOK, Sizes
<1>1. /\ UNCHANGED <<build, wait, ptr, executed, sent>>
      /\ at'.pos \in 0 .. Idle
  BY <1>0, TurnStep DEF Pull, bankVars
<1>2. p \in Pkt
  <2>1. netIn[c] \in Seq(Pkt)
    BY <1>0 DEF TypeOK
  <2>2. QED
    BY <2>1
<1>3. b \in Names /\ b[1] \in {"in", "link"} /\ Contents[b] = netIn[c]
  BY <1>0, ContentsIs, NamesAre
<1>4. netIn' = [d \in Cores |-> IF b = <<"in", d>> THEN Tail(netIn[d]) ELSE netIn[d]]
  <2>1. netIn' = [netIn EXCEPT ![c] = Tail(@)] /\ netIn \in [Cores -> Seq(Pkt)]
    BY <1>0 DEF Pull, TypeOK
  <2>2. \A d : b = <<"in", d>> <=> d = c
    OBVIOUS
  <2> HIDE DEF b
  <2>3. QED
    BY <2>1, <2>2
<1>5. label \in Nat /\ netOut \in [Cores -> Seq(Pkt)] /\ internal \in [Slots -> Seq(Pkt)]
  BY <1>0 DEF TypeOK
<1>6. MAX_LABEL \in Nat \ {0}
  BY SizesAssumption
<1>7. ASSUME NEW out, NEW ps, Parted(p, out, ps), Move({}, ps), mcBuf' = mcBuf, label' \in Nat,
             netOut' = AtEnd(netOut, Cores, c, out)
      PROVE  IInv' /\ Delivers
  <2>1. ps \in Seq(Slots \X Pkt)
    BY <1>7 DEF Parted
  <2>2. /\ InBounds'
        /\ internal' = [y \in Slots |->
                          (IF y \in {} THEN Tail(internal[y]) ELSE internal[y]) \o For(y, ps)]
    <3>1. InBounds'
      BY <1>0, <1>7, <2>1, MoveIs, Zenon
    <3>2. QED
      BY <1>7, <3>1 DEF Move
  <2>3. \A y \in Slots : y \in {} <=> b = <<"link", y>>
    OBVIOUS
  <2>4. internal' = [y \in Slots |->
                       (IF b = <<"link", y>> THEN Tail(internal[y]) ELSE internal[y]) \o For(y, ps)]
    BY <2>2, <2>3
  <2>5. Parted(Head(Contents[b]), out, ps) /\ Contents[b] # <<>>
    BY <1>3, <1>7
  <2> HIDE DEF b, p
  <2>6. /\ TypeOK'
        /\ Carrying' = Carrying
        /\ Separate(Names, Contents) => Separate(Names, Contents)'
    BY <1>0, <1>1, <1>3, <1>4, <1>7, <2>4, <2>5, Routed
  <2>7. QED
    BY <1>1, <2>2, <2>6, Kept DEF IInv
<1>8. CASE p.dest = c
  <2>1. /\ netOut' = [netOut EXCEPT ![c] = Append(@, p)]
        /\ UNCHANGED <<mcBuf, internal, stray, label>>
    BY <1>0, <1>2, <1>8, Kinds DEF Pull
  <2>2. Parted(p, <<p>>, <<>>)
    BY <1>2, PartedHere
  <2>3. netOut' = AtEnd(netOut, Cores, c, <<p>>)
    <3>1. Pushes(netOut', netOut, c, p)
      BY <2>1 DEF Pushes
    <3> HIDE DEF p
    <3>2. QED
      BY <1>2, <1>5, <3>1, Appended
  <2>4. Move({}, <<>>)
    <3>1. \A x : For(x, <<>>) = <<>>
      <4>1. <<>> \in Seq(Slots \X Pkt) /\ DOMAIN <<>> = {}
        OBVIOUS
      <4>2. QED
        BY <4>1, ForNone
    <3>2. \A x \in Slots : internal[x] \o <<>> = internal[x]
      BY <1>5
    <3>3. internal = [x \in Slots |-> internal[x]]
      BY <1>5
    <3>4. \A x \in Slots : (IF x \in {} THEN Tail(internal[x]) ELSE internal[x]) \o For(x, <<>>) = internal[x]
      BY <3>1, <3>2
    <3>5. internal' = [x \in Slots |-> (IF x \in {} THEN Tail(internal[x]) ELSE internal[x]) \o For(x, <<>>)]
      BY <2>1, <3>3, <3>4
    <3>6. stray = FALSE
      BY <1>0 DEF InBounds, TypeOK
    <3> DEFINE none == <<>>
    <3>7. DOMAIN none = {}
      OBVIOUS
    <3> HIDE DEF none
    <3>8. (\E k \in DOMAIN none : none[k][1] \notin Slots) = FALSE
      BY <3>7
    <3>9. stray' = (stray \/ \E k \in DOMAIN none : none[k][1] \notin Slots)
      BY <2>1, <3>6, <3>8
    <3>10. internal' = [x \in Slots |-> (IF x \in {} THEN Tail(internal[x]) ELSE internal[x]) \o For(x, none)]
      BY <3>5 DEF none
    <3>11. Move({}, none)
      BY <3>9, <3>10 DEF Move
    <3>12. QED
      BY <3>11 DEF none
  <2>5. label' \in Nat
    BY <1>5, <2>1
  <2>6. QED
    BY <1>7, <2>1, <2>2, <2>3, <2>4, <2>5
<1>9. CASE p.dest # c /\ IsMulticast(p)
  <2> DEFINE q == [Only(p, Here(p, c)) EXCEPT !.label = label]
             first == label + IF Only(p, Here(p, c)).dests = <<>> THEN 0 ELSE 1
  <2>1. EncodeMulticast(c, p) /\ mcBuf' = mcBuf
    BY <1>9 DEF Pull
  <2>2. build.multicast
    BY <1>9 DEF IsMulticast
  <2>3. first \in Nat
    BY <1>5
  <2>4. /\ HandOut(c, q)
        /\ Move({}, Leaving(c, p, first))
        /\ label' = (first + Len(Remote(c, p))) % MAX_LABEL
    BY <2>1 DEF EncodeMulticast, Leaving, Remote, Sides
  <2> HIDE DEF first
  <2>5. Parted(p, Handed(q), Leaving(c, p, first)) /\ q \in PacketType /\ Len(Remote(c, p)) \in Nat
    BY <1>0, <1>2, <1>5, <2>2, <2>3, PartedEncode
  <2>6. label' \in Nat
    <3> DEFINE n == first + Len(Remote(c, p))
    <3>1. n \in Nat /\ label' = n % MAX_LABEL
      BY <2>3, <2>4, <2>5
    <3> HIDE DEF n
    <3>2. QED
      BY <1>6, <3>1
  <2>7. q.dests # <<>> => q \in Pkt
    <3> DEFINE q0 == Only(p, Here(p, c))
    <3>1. Here(p, c) \in SUBSET DOMAIN p.dests /\ p \in PacketType
      BY <1>2 DEF Here, Pkt
    <3>2. /\ q0 \in PacketType
          /\ Here(p, c) # {} => q0 \in Pkt
          /\ q0.dests = <<>> <=> Here(p, c) = {}
      <4> HIDE DEF p
      <4>1. QED
        BY <1>2, <2>2, <3>1, OnlyMulticast, OnlyIs
    <3> HIDE DEF q0
    <3>3. q = [q0 EXCEPT !.label = label]
      BY DEF q0
    <3>4. q.dests = q0.dests /\ q.type = q0.type /\ q.dest = q0.dest /\ q.req = q0.req /\ q.mc = q0.mc
      BY <3>2, <3>3 DEF PacketType
    <3> HIDE DEF q
    <3>5. QED
      BY <2>5, <3>2, <3>4 DEF Pkt, Sendable
  <2>8. netOut' = AtEnd(netOut, Cores, c, Handed(q))
    <3> HIDE DEF p, q
    <3> QED BY <1>0, <2>4, <2>5, <2>7, HandOutIs
  <2>9. QED
    BY <1>7, <2>1, <2>4, <2>5, <2>6, <2>8
<1>10. CASE p.dest # c /\ ~IsMulticast(p)
  <2> DEFINE y == Exit(c, p.dest)
             q == [p EXCEPT !.label = label]
  <2>1. EncodeScalar(c, p) /\ mcBuf' = mcBuf
    BY <1>10 DEF Pull
  <2>2. /\ Move({}, <<<<y, q>>>>)
        /\ label' = (label + 1) % MAX_LABEL
        /\ netOut' = netOut
    BY <2>1 DEF EncodeScalar
  <2>3. p.dest \in Cores
    BY <1>0, <1>2, <1>10, Kinds
  <2>4. y \in Slots /\ y[2] \in {0, 3}
    BY <1>0, <1>10, <2>3, ExitIs
  <2>5. q \in Pkt /\ q.dests = p.dests
    <3>1. p \in PacketType /\ Sendable(p) /\ p.dests # <<>>
      BY <1>2 DEF Pkt
    <3>2. /\ q \in PacketType /\ q.dests = p.dests /\ q.type = p.type
          /\ q.dest = p.dest /\ q.req = p.req /\ q.mc = p.mc
      BY <1>5, <3>1 DEF PacketType
    <3> HIDE DEF q
    <3>3. QED
      BY <3>1, <3>2 DEF Pkt, Sendable
  <2> HIDE DEF y, q
  <2>6. q \in PktAt(y)
    BY <2>4, <2>5 DEF PktAt, East
  <2>7. Parted(p, <<>>, <<<<y, q>>>>)
    BY <2>4, <2>5, <2>6, PartedWhole
  <2>8. netOut' = AtEnd(netOut, Cores, c, <<>>)
    BY <1>5, <2>2, NotAppended
  <2>9. label' \in Nat
    BY <1>5, <1>6, <2>2
  <2>10. QED
    BY <1>7, <2>1, <2>2, <2>7, <2>8, <2>9
<1>11. QED
  BY <1>8, <1>9, <1>10


(***************************************************************************)
(* Memory and banks.                                                       *)
(***************************************************************************)

\* Buffers with something at the end of one of them.
LEMMA AtEndIs ==
  ASSUME NEW A, NEW P, NEW f \in [A -> Seq(P)], NEW c, NEW s \in Seq(P)
  PROVE  AtEnd(f, A, c, s) \in [A -> Seq(P)]
<1>1. ASSUME NEW d \in A
      PROVE  f[d] \o (IF d = c THEN s ELSE <<>>) \in Seq(P)
  <2>1. f[d] \in Seq(P) /\ (IF d = c THEN s ELSE <<>>) \in Seq(P)
    OBVIOUS
  <2>2. QED
    BY <2>1, ConcatProperties
<1>2. QED
  BY <1>1 DEF AtEnd

\* Buffers of which one lost its front packet.
LEMMA Shortened ==
  ASSUME NEW A, NEW P, NEW f \in [A -> Seq(P)], NEW c \in A, f[c] # <<>>,
         NEW g, g = [f EXCEPT ![c] = Tail(@)]
  PROVE  /\ g \in [A -> Seq(P)]
         /\ \A d \in A : g[d] = IF d = c THEN Tail(f[d]) ELSE f[d]
<1>1. f[c] \in Seq(P)
  OBVIOUS
<1>2. Tail(f[c]) \in Seq(P)
  BY <1>1
<1>3. QED
  BY <1>2

\* The front packet of buffer b is taken, and the packets of E are put at the
\* ends of the buffers.
LEMMA Hopped ==
  ASSUME TypeOK, build' = build, NEW b \in Names, Contents[b] # <<>>,
         NEW E \in [Names -> Seq(Pkt)],
         \A c \in Cores :
           /\ netIn'[c] = (IF b = <<"in", c>> THEN Tail(netIn[c]) ELSE netIn[c]) \o E[<<"in", c>>]
           /\ netOut'[c] = (IF b = <<"out", c>> THEN Tail(netOut[c]) ELSE netOut[c]) \o E[<<"out", c>>]
           /\ mcBuf'[c] = (IF b = <<"mc", c>> THEN Tail(mcBuf[c]) ELSE mcBuf[c]) \o E[<<"mc", c>>],
         \A x \in Slots :
           internal'[x] = (IF b = <<"link", x>> THEN Tail(internal[x]) ELSE internal[x])
                            \o E[<<"link", x>>]
  PROVE  Contents' = Joined(Popped(Contents, b), E)
<1> DEFINE R == Popped(Contents, b)
<1>1. /\ Contents \in [Names -> Seq(Pkt)]
      /\ \A c \in Cores : /\ Contents[<<"in", c>>] = netIn[c]
                          /\ Contents[<<"out", c>>] = netOut[c]
                          /\ Contents[<<"mc", c>>] = mcBuf[c]
      /\ \A x \in Slots : Contents[<<"link", x>>] = internal[x]
  BY ContentsIs
<1>2. R \in [Names -> Seq(Pkt)]
  BY <1>1, PoppedIs
<1>3. \A a \in Names : R[a] = IF b = a THEN Tail(Contents[a]) ELSE Contents[a]
  BY <1>1 DEF Popped
<1> HIDE DEF R
<1>4. /\ \A c \in Cores : <<"in", c>> \in Names /\ <<"out", c>> \in Names /\ <<"mc", c>> \in Names
      /\ \A x \in Slots : <<"link", x>> \in Names
  BY NamesAre
<1>5. \A c \in Cores :
        /\ R[<<"in", c>>] = IF b = <<"in", c>> THEN Tail(netIn[c]) ELSE netIn[c]
        /\ R[<<"out", c>>] = IF b = <<"out", c>> THEN Tail(netOut[c]) ELSE netOut[c]
        /\ R[<<"mc", c>>] = IF b = <<"mc", c>> THEN Tail(mcBuf[c]) ELSE mcBuf[c]
  BY <1>1, <1>3, <1>4
<1>6. \A x \in Slots :
        R[<<"link", x>>] = IF b = <<"link", x>> THEN Tail(internal[x]) ELSE internal[x]
  BY <1>1, <1>3, <1>4
<1>7. \A c \in Cores : /\ netIn'[c] = R[<<"in", c>>] \o E[<<"in", c>>]
                       /\ netOut'[c] = R[<<"out", c>>] \o E[<<"out", c>>]
                       /\ mcBuf'[c] = R[<<"mc", c>>] \o E[<<"mc", c>>]
  BY <1>5
<1>8. \A x \in Slots : internal'[x] = R[<<"link", x>>] \o E[<<"link", x>>]
  BY <1>6
<1>9. QED
  BY <1>2, <1>7, <1>8, ContentsAfter DEF R

\* serve_memory_requests
LEMMA ServeStep ==
  ASSUME IInv, NEW c \in Cores, mcBuf[c] # <<>>, NEW pos \in 0 .. Idle, Serve(pos, c)
  PROVE  IInv' /\ Delivers
<1> DEFINE p == Head(mcBuf[c])
           answer == [p EXCEPT !.dest = p.req, !.req = Nowhere, !.type = "scalarResponse"]
           b == <<"mc", c>>
           E == Single(Names, <<"in", p.dest>>, answer)
<1>0. TypeOK /\ InBounds /\ Sizes /\ Separate(Names, Contents)
  BY DEF IInv, TypeOK, Sizes
<1>1. /\ UNCHANGED <<build, netOut, internal, label, wait, ptr, executed, stray, sent>>
      /\ netIn' = [netIn EXCEPT ![p.dest] = Append(@, answer)]
      /\ mcBuf' = [mcBuf EXCEPT ![c] = Tail(@)]
      /\ at'.pos \in 0 .. Idle
  BY <1>0, TurnStep DEF Serve, bankVars
<1>2. p \in Pkt /\ p.req # Nowhere
  <2>1. mcBuf[c] \in Seq({q \in Pkt : q.req # Nowhere})
    BY <1>0 DEF TypeOK
  <2>2. QED
    BY <2>1
<1>3. ~build.multicast /\ p.mc \in Cores /\ p.req \in Cores /\ p.dest \in Cores
  BY <1>0, <1>2, Kinds
<1>4. answer \in Pkt /\ answer.dests = p.dests
  <2>1. p \in PacketType /\ Sendable(p) /\ p.dests # <<>>
    BY <1>2 DEF Pkt
  <2>2. /\ answer \in PacketType /\ answer.dests = p.dests /\ answer.type = "scalarResponse"
        /\ answer.dest = p.req /\ answer.req = Nowhere
    BY <1>3, <2>1 DEF PacketType
  <2> HIDE DEF answer
  <2>3. QED
    BY <1>3, <2>1, <2>2 DEF Pkt, Sendable
<1>5. b \in Names /\ Contents[b] = mcBuf[c] /\ <<"in", p.dest>> \in Names
      /\ Contents \in [Names -> Seq(Pkt)]
  BY <1>0, <1>3, ContentsIs, NamesAre
<1>6. netIn' = AtEnd(netIn, Cores, p.dest, <<answer>>)
  <2>1. netIn \in [Cores -> Seq(Pkt)] /\ Pushes(netIn', netIn, p.dest, answer)
    BY <1>0, <1>1 DEF TypeOK, Pushes
  <2> HIDE DEF answer, p
  <2>2. QED
    BY <1>4, <2>1, Appended
<1>7. /\ E \in [Names -> Seq(Pkt)]
      /\ Total(Names, E) = Carried(answer)
      /\ Sound(answer) => Separate(Names, E)
  <2> HIDE DEF answer, p
  <2>1. QED
    BY <1>4, <1>5, SingleIs
<1>8. Carried(answer) = Carried(p) /\ (Sound(answer) <=> Sound(p))
  <2> HIDE DEF answer, p
  <2>1. QED
    BY <1>4, SameList
<1>9. /\ \A d \in Cores : /\ E[<<"in", d>>] = IF d = p.dest THEN <<answer>> ELSE <<>>
                          /\ E[<<"out", d>>] = <<>> /\ E[<<"mc", d>>] = <<>>
      /\ \A x \in Slots : E[<<"link", x>>] = <<>>
  <2> HIDE DEF answer, p
  <2>1. QED
    BY NamesAre DEF Single
<1>10. /\ mcBuf \in [Cores -> Seq({q \in Pkt : q.req # Nowhere})]
       /\ netIn \in [Cores -> Seq(Pkt)]
       /\ netOut \in [Cores -> Seq(Pkt)]
       /\ internal \in [Slots -> Seq(Pkt)]
  BY <1>0 DEF TypeOK
<1>11. /\ mcBuf' \in [Cores -> Seq({q \in Pkt : q.req # Nowhere})]
       /\ \A d \in Cores : mcBuf'[d] = IF d = c THEN Tail(mcBuf[d]) ELSE mcBuf[d]
  BY <1>1, <1>10, Shortened
<1>12. \A q \in Seq(Pkt) : q \o <<>> = q
  OBVIOUS
<1>13. \A d \in Cores :
         /\ netIn'[d] = (IF b = <<"in", d>> THEN Tail(netIn[d]) ELSE netIn[d]) \o E[<<"in", d>>]
         /\ netOut'[d] = (IF b = <<"out", d>> THEN Tail(netOut[d]) ELSE netOut[d]) \o E[<<"out", d>>]
         /\ mcBuf'[d] = (IF b = <<"mc", d>> THEN Tail(mcBuf[d]) ELSE mcBuf[d]) \o E[<<"mc", d>>]
  <2> SUFFICES ASSUME NEW d \in Cores
               PROVE  /\ netIn'[d] = (IF b = <<"in", d>> THEN Tail(netIn[d]) ELSE netIn[d]) \o E[<<"in", d>>]
                      /\ netOut'[d] = (IF b = <<"out", d>> THEN Tail(netOut[d]) ELSE netOut[d]) \o E[<<"out", d>>]
                      /\ mcBuf'[d] = (IF b = <<"mc", d>> THEN Tail(mcBuf[d]) ELSE mcBuf[d]) \o E[<<"mc", d>>]
    OBVIOUS
  <2>1. b # <<"in", d>> /\ b # <<"out", d>> /\ (b = <<"mc", d>> <=> d = c)
    OBVIOUS
  <2>2. netIn'[d] = netIn[d] \o E[<<"in", d>>]
    <3> HIDE DEF answer, p, E
    <3>1. QED
      BY <1>6, <1>9 DEF AtEnd
  <2>3. netOut'[d] = netOut[d] \o E[<<"out", d>>]
    <3>1. netOut[d] \in Seq(Pkt)
      BY <1>10
    <3> HIDE DEF E
    <3>2. QED
      BY <1>1, <1>9, <1>12, <3>1
  <2>4. mcBuf'[d] = (IF d = c THEN Tail(mcBuf[d]) ELSE mcBuf[d]) \o E[<<"mc", d>>]
    <3>1. mcBuf'[d] \in Seq({q \in Pkt : q.req # Nowhere}) /\ E[<<"mc", d>>] = <<>>
      BY <1>9, <1>11
    <3>2. mcBuf'[d] \in Seq(Pkt)
      BY <3>1
    <3> HIDE DEF E
    <3>3. QED
      BY <1>11, <1>12, <3>1, <3>2
  <2> HIDE DEF b, E
  <2>5. QED
    BY <2>1, <2>2, <2>3, <2>4
<1>14. \A x \in Slots :
         internal'[x] = (IF b = <<"link", x>> THEN Tail(internal[x]) ELSE internal[x]) \o E[<<"link", x>>]
  <2>1. \A x : b # <<"link", x>>
    OBVIOUS
  <2>2. \A x \in Slots : internal[x] \in Seq(Pkt)
    BY <1>10
  <2> HIDE DEF b, E
  <2>3. QED
    BY <1>1, <1>9, <1>12, <2>1, <2>2
<1>15. Contents' = Joined(Popped(Contents, b), E)
  <2>1. Contents[b] # <<>>
    BY <1>5
  <2> HIDE DEF b, E
  <2>2. QED
    BY <1>0, <1>1, <1>5, <1>7, <1>13, <1>14, <2>1, Hopped
<1>16. Carrying' = Carrying /\ (Separate(Names, Contents) => Separate(Names, Contents)')
  <2>1. Contents[b] # <<>> /\ p = Head(Contents[b])
    BY <1>5
  <2> HIDE DEF b, E, p, answer
  <2>2. Total(Names, E) = Carried(Head(Contents[b])) /\ (Sound(Head(Contents[b])) => Separate(Names, E))
    BY <1>7, <1>8, <2>1
  <2>3. QED
    BY <1>1, <1>5, <1>7, <1>15, <2>1, <2>2, Moved
<1>17. netIn' \in [Cores -> Seq(Pkt)]
  <2>1. <<answer>> \in Seq(Pkt)
    BY <1>4
  <2> HIDE DEF answer, p
  <2>2. QED
    BY <1>6, <1>10, <2>1, AtEndIs
<1>18. TypeOK' /\ InBounds'
  BY <1>0, <1>1, <1>11, <1>17, Fixed DEF TypeOK, InBounds
<1>19. QED
  BY <1>0, <1>1, <1>16, <1>18, Kept


\* push_packets_from_network, of a read, which goes to memory.
LEMMA PushToMemory ==
  ASSUME IInv, NEW c \in Cores, netOut[c] # <<>>, at'.pos \in 0 .. Idle,
         Head(netOut[c]).req # Nowhere,
         netOut' = [netOut EXCEPT ![c] = Tail(@)],
         Pushes(mcBuf', mcBuf, Head(netOut[c]).mc, Head(netOut[c])),
         UNCHANGED <<build, netIn, internal, label, wait, ptr, executed, stray, sent>>
  PROVE  IInv' /\ Delivers
<1> DEFINE p == Head(netOut[c])
           b == <<"out", c>>
           E == Single(Names, <<"mc", p.mc>>, p)
           Reads == {q \in Pkt : q.req # Nowhere}
<1>0. TypeOK /\ InBounds /\ Sizes /\ Separate(Names, Contents)
  BY DEF IInv, TypeOK, Sizes
<1>1. /\ mcBuf \in [Cores -> Seq(Reads)]
      /\ netIn \in [Cores -> Seq(Pkt)]
      /\ netOut \in [Cores -> Seq(Pkt)]
      /\ internal \in [Slots -> Seq(Pkt)]
  BY <1>0 DEF TypeOK
<1>2. p \in Pkt /\ p \in Reads /\ p.mc \in Cores
  <2>1. p \in Pkt
    BY <1>1
  <2>2. QED
    BY <1>0, <2>1, Kinds
<1>3. /\ b \in Names /\ Contents[b] = netOut[c] /\ <<"mc", p.mc>> \in Names
      /\ Contents \in [Names -> Seq(Pkt)]
  BY <1>0, <1>2, ContentsIs, NamesAre
<1>4. mcBuf' = AtEnd(mcBuf, Cores, p.mc, <<p>>)
  <2> DEFINE d == p.mc
  <2>1. Pushes(mcBuf', mcBuf, d, p)
    OBVIOUS
  <2> HIDE DEF p, d, Reads
  <2>2. mcBuf' = AtEnd(mcBuf, Cores, d, <<p>>)
    BY <1>1, <1>2, <2>1, Appended
  <2>3. QED
    BY <2>2 DEF d
<1>5. /\ E \in [Names -> Seq(Pkt)]
      /\ Total(Names, E) = Carried(p)
      /\ Sound(p) => Separate(Names, E)
  <2> HIDE DEF p
  <2>1. QED
    BY <1>2, <1>3, SingleIs
<1>6. /\ \A d \in Cores : /\ E[<<"mc", d>>] = IF d = p.mc THEN <<p>> ELSE <<>>
                          /\ E[<<"out", d>>] = <<>> /\ E[<<"in", d>>] = <<>>
      /\ \A x \in Slots : E[<<"link", x>>] = <<>>
  <2> HIDE DEF p
  <2>1. QED
    BY NamesAre DEF Single
<1>7. /\ netOut' \in [Cores -> Seq(Pkt)]
      /\ \A d \in Cores : netOut'[d] = IF d = c THEN Tail(netOut[d]) ELSE netOut[d]
  BY <1>1, Shortened
<1>8. \A q \in Seq(Pkt) : q \o <<>> = q
  OBVIOUS
<1>9. \A d \in Cores :
         /\ netIn'[d] = (IF b = <<"in", d>> THEN Tail(netIn[d]) ELSE netIn[d]) \o E[<<"in", d>>]
         /\ netOut'[d] = (IF b = <<"out", d>> THEN Tail(netOut[d]) ELSE netOut[d]) \o E[<<"out", d>>]
         /\ mcBuf'[d] = (IF b = <<"mc", d>> THEN Tail(mcBuf[d]) ELSE mcBuf[d]) \o E[<<"mc", d>>]
  <2> SUFFICES ASSUME NEW d \in Cores
               PROVE  /\ netIn'[d] = (IF b = <<"in", d>> THEN Tail(netIn[d]) ELSE netIn[d]) \o E[<<"in", d>>]
                      /\ netOut'[d] = (IF b = <<"out", d>> THEN Tail(netOut[d]) ELSE netOut[d]) \o E[<<"out", d>>]
                      /\ mcBuf'[d] = (IF b = <<"mc", d>> THEN Tail(mcBuf[d]) ELSE mcBuf[d]) \o E[<<"mc", d>>]
    OBVIOUS
  <2>1. b # <<"in", d>> /\ b # <<"mc", d>> /\ (b = <<"out", d>> <=> d = c)
    OBVIOUS
  <2>2. mcBuf'[d] = mcBuf[d] \o E[<<"mc", d>>]
    <3> HIDE DEF p, E
    <3>1. QED
      BY <1>4, <1>6 DEF AtEnd
  <2>3. netIn'[d] = netIn[d] \o E[<<"in", d>>]
    <3>1. netIn[d] \in Seq(Pkt)
      BY <1>1
    <3> HIDE DEF E
    <3>2. QED
      BY <1>6, <1>8, <3>1
  <2>4. netOut'[d] = (IF d = c THEN Tail(netOut[d]) ELSE netOut[d]) \o E[<<"out", d>>]
    <3>1. netOut'[d] \in Seq(Pkt) /\ E[<<"out", d>>] = <<>>
      BY <1>6, <1>7
    <3> HIDE DEF E
    <3>2. QED
      BY <1>7, <1>8, <3>1
  <2> HIDE DEF b, E
  <2>5. QED
    BY <2>1, <2>2, <2>3, <2>4
<1>10. \A x \in Slots :
         internal'[x] = (IF b = <<"link", x>> THEN Tail(internal[x]) ELSE internal[x]) \o E[<<"link", x>>]
  <2>1. \A x : b # <<"link", x>>
    OBVIOUS
  <2>2. \A x \in Slots : internal[x] \in Seq(Pkt)
    BY <1>1
  <2> HIDE DEF b, E
  <2>3. QED
    BY <1>6, <1>8, <2>1, <2>2
<1>11. Contents' = Joined(Popped(Contents, b), E)
  <2>1. Contents[b] # <<>>
    BY <1>3
  <2> HIDE DEF b, E
  <2>2. QED
    BY <1>0, <1>3, <1>5, <1>9, <1>10, <2>1, Hopped
<1>12. Carrying' = Carrying /\ (Separate(Names, Contents) => Separate(Names, Contents)')
  <2>1. Contents[b] # <<>> /\ p = Head(Contents[b])
    BY <1>3
  <2> HIDE DEF b, E, p
  <2>2. Total(Names, E) = Carried(Head(Contents[b])) /\ (Sound(Head(Contents[b])) => Separate(Names, E))
    BY <1>5, <2>1
  <2>3. QED
    BY <1>3, <1>5, <1>11, <2>1, <2>2, Moved
<1>13. mcBuf' \in [Cores -> Seq(Reads)]
  <2>1. <<p>> \in Seq(Reads)
    BY <1>2
  <2> HIDE DEF p, Reads
  <2>2. QED
    BY <1>1, <1>4, <2>1, AtEndIs
<1>14. TypeOK' /\ InBounds'
  BY <1>0, <1>7, <1>13, Fixed DEF TypeOK, InBounds
<1>15. QED
  BY <1>0, <1>12, <1>14, Kept

\* A packet leaves: the buffers have one packet less.
Gone(c) ==
  /\ netOut' = [netOut EXCEPT ![c] = Tail(@)]
  /\ UNCHANGED <<build, netIn, mcBuf, internal, label, ptr, stray, sent>>
  /\ at'.pos \in 0 .. Idle

\* What the packet carried has left the buffers, and only that.
LEMMA LeftBuffers ==
  ASSUME IInv, NEW c \in Cores, netOut[c] # <<>>, Gone(c)
  PROVE  /\ netOut' \in [Cores -> Seq(Pkt)]
         /\ Head(netOut[c]) \in Pkt /\ Sound(Head(netOut[c]))
         /\ Carrying = Carried(Head(netOut[c])) \cup Carrying'
         /\ Carried(Head(netOut[c])) \cap Carrying' = {}
         /\ Separate(Names, Contents)'
<1> DEFINE p == Head(netOut[c])
           b == <<"out", c>>
           E == [a \in Names |-> <<>>]
           R == Popped(Contents, b)
<1>0. TypeOK /\ Separate(Names, Contents) /\ build' = build
  BY DEF IInv, Gone
<1>1. /\ mcBuf \in [Cores -> Seq({q \in Pkt : q.req # Nowhere})]
      /\ netIn \in [Cores -> Seq(Pkt)]
      /\ netOut \in [Cores -> Seq(Pkt)]
      /\ internal \in [Slots -> Seq(Pkt)]
  BY <1>0 DEF TypeOK
<1>2. /\ b \in Names /\ Contents[b] = netOut[c] /\ Contents \in [Names -> Seq(Pkt)]
  BY <1>0, ContentsIs, NamesAre
<1>3. /\ R \in [Names -> Seq(Pkt)]
      /\ p \in Pkt /\ Sound(p)
      /\ Carrying = Carried(p) \cup Total(Names, R)
      /\ Carried(p) \cap Total(Names, R) = {}
      /\ Separate(Names, R)
  <2>1. Contents[b] # <<>> /\ p = Head(Contents[b])
    BY <1>2
  <2> HIDE DEF b, p
  <2>2. /\ R \in [Names -> Seq(Pkt)]
        /\ p \in Pkt
        /\ Total(Names, Contents) = Carried(p) \cup Total(Names, R)
        /\ Separate(Names, Contents) => /\ Sound(p)
                                       /\ Separate(Names, R)
                                       /\ Carried(p) \cap Total(Names, R) = {}
    BY <1>2, <2>1, PoppedIs
  <2>3. QED
    BY <1>0, <2>2 DEF Carrying
<1>4. /\ E \in [Names -> Seq(Pkt)]
      /\ \A d \in Cores : E[<<"in", d>>] = <<>> /\ E[<<"out", d>>] = <<>> /\ E[<<"mc", d>>] = <<>>
      /\ \A x \in Slots : E[<<"link", x>>] = <<>>
  BY NamesAre
<1>5. /\ netOut' \in [Cores -> Seq(Pkt)]
      /\ \A d \in Cores : netOut'[d] = IF d = c THEN Tail(netOut[d]) ELSE netOut[d]
  BY <1>1, Shortened DEF Gone
<1>6. \A q \in Seq(Pkt) : q \o <<>> = q
  OBVIOUS
<1>7. \A d \in Cores :
         /\ netIn'[d] = (IF b = <<"in", d>> THEN Tail(netIn[d]) ELSE netIn[d]) \o E[<<"in", d>>]
         /\ netOut'[d] = (IF b = <<"out", d>> THEN Tail(netOut[d]) ELSE netOut[d]) \o E[<<"out", d>>]
         /\ mcBuf'[d] = (IF b = <<"mc", d>> THEN Tail(mcBuf[d]) ELSE mcBuf[d]) \o E[<<"mc", d>>]
  <2> SUFFICES ASSUME NEW d \in Cores
               PROVE  /\ netIn'[d] = (IF b = <<"in", d>> THEN Tail(netIn[d]) ELSE netIn[d]) \o E[<<"in", d>>]
                      /\ netOut'[d] = (IF b = <<"out", d>> THEN Tail(netOut[d]) ELSE netOut[d]) \o E[<<"out", d>>]
                      /\ mcBuf'[d] = (IF b = <<"mc", d>> THEN Tail(mcBuf[d]) ELSE mcBuf[d]) \o E[<<"mc", d>>]
    OBVIOUS
  <2>1. b # <<"in", d>> /\ b # <<"mc", d>> /\ (b = <<"out", d>> <=> d = c)
    OBVIOUS
  <2>2. mcBuf'[d] = mcBuf[d] \o <<>>
    <3>1. mcBuf[d] \in Seq({q \in Pkt : q.req # Nowhere}) /\ mcBuf' = mcBuf
      BY <1>1 DEF Gone
    <3>2. mcBuf[d] \in Seq(Pkt)
      BY <3>1
    <3>3. QED
      BY <1>6, <3>1, <3>2
  <2>3. netIn'[d] = netIn[d] \o <<>>
    BY <1>1, <1>6 DEF Gone
  <2>4. netOut'[d] = (IF d = c THEN Tail(netOut[d]) ELSE netOut[d]) \o <<>>
    <3>1. netOut'[d] \in Seq(Pkt)
      BY <1>5
    <3>2. QED
      BY <1>5, <1>6, <3>1
  <2> HIDE DEF b, E
  <2>5. QED
    BY <1>4, <2>1, <2>2, <2>3, <2>4
<1>8. \A x \in Slots :
         internal'[x] = (IF b = <<"link", x>> THEN Tail(internal[x]) ELSE internal[x]) \o E[<<"link", x>>]
  <2>1. \A x : b # <<"link", x>>
    OBVIOUS
  <2>2. internal' = internal /\ \A x \in Slots : internal[x] \in Seq(Pkt)
    BY <1>1 DEF Gone
  <2> HIDE DEF b, E
  <2>3. QED
    BY <1>4, <1>6, <2>1, <2>2
<1>9. Contents' = Joined(R, E)
  <2>1. Contents[b] # <<>>
    BY <1>2
  <2> HIDE DEF b, E
  <2>2. QED
    BY <1>0, <1>2, <1>4, <1>7, <1>8, <2>1, Hopped DEF R
<1>10. Joined(R, E) = R
  <2>1. \A a \in Names : R[a] \in Seq(Pkt) /\ E[a] = <<>>
    BY <1>3
  <2>2. \A a \in Names : R[a] \o E[a] = R[a]
    BY <1>6, <2>1
  <2>3. DOMAIN R = Names /\ R = [a \in Names |-> R[a]]
    BY <1>3
  <2> HIDE DEF R, E
  <2>4. QED
    BY <2>2, <2>3 DEF Joined
<1> HIDE DEF R, E
<1>11. Carrying' = Total(Names, R) /\ Separate(Names, Contents)' = Separate(Names, R)
  BY <1>0, <1>9, <1>10, Primed
<1>12. QED
  BY <1>3, <1>5, <1>11

\* push_packets_from_network
LEMMA PushStep ==
  ASSUME IInv, NEW c \in Cores, netOut[c] # <<>>, NEW pos \in 0 .. Idle, Push(pos, c)
  PROVE  IInv' /\ Delivers
<1> DEFINE p == Head(netOut[c])
           s == Messages(p)
<1>0. TypeOK /\ InBounds /\ Sizes
  BY DEF IInv, TypeOK, Sizes
<1>1. /\ UNCHANGED <<build, netIn, internal, label, ptr, stray, sent>>
      /\ netOut' = [netOut EXCEPT ![c] = Tail(@)]
      /\ at'.pos \in 0 .. Idle
  BY <1>0, TurnStep DEF Push
<1>2. CASE p.req # Nowhere
  <2>1. Pushes(mcBuf', mcBuf, p.mc, p) /\ UNCHANGED <<executed, wait>>
    BY <1>2 DEF Push, Pushes
  <2>2. QED
    BY <1>1, <1>2, <2>1, PushToMemory
<1>3. CASE p.req = Nowhere
  <2>1. mcBuf' = mcBuf
    BY <1>3 DEF Push
  <2>2. Gone(c)
    BY <1>1, <2>1 DEF Gone
  <2>3. /\ netOut' \in [Cores -> Seq(Pkt)]
        /\ p \in Pkt /\ Sound(p)
        /\ Carrying = Carried(p) \cup Carrying'
        /\ Carried(p) \cap Carrying' = {}
        /\ Separate(Names, Contents)'
    BY <2>2, LeftBuffers
  <2> HIDE DEF p
  <2>4. s \in Seq(Nat \X Nat) /\ ToSet(s) = Carried(p) /\ Once(s)
    BY <2>3, MessagesAre
  <2>5. /\ executed \in Seq(Nat \X Nat)
        /\ wait \in [0 .. MAX_NET_LATENCY - 1 -> Seq(Nat \X Nat)]
        /\ ptr \in 0 .. MAX_NET_LATENCY - 1
    BY <1>0 DEF TypeOK
  <2>6. /\ Carrying \cap (Waiting \cup ToSet(executed)) = {}
        /\ Apart(wait) /\ Waiting = Aside(wait) /\ Waiting' = Aside(wait')
    BY SettledIs DEF IInv, Elsewhere
  <2> HIDE DEF s
  <2>7. CASE executed' = executed \o s /\ wait' = wait
    <3>1. executed' \in Seq(Nat \X Nat)
      BY <2>4, <2>5, <2>7, OnceConcat
    <3>2. TypeOK' /\ InBounds'
      BY <1>0, <1>1, <2>1, <2>3, <2>7, <3>1, Fixed DEF TypeOK, InBounds
    <3>3. /\ Waiting' = Waiting /\ Apart(wait')
          /\ Carrying \cup Waiting = ToSet(s) \cup Carrying' \cup Waiting'
          /\ ToSet(s) \cap (Carrying' \cup Waiting') = {}
          /\ Carrying' \cap Waiting' = {}
      BY <2>3, <2>4, <2>6, <2>7
    <3>4. QED
      BY <1>1, <2>3, <2>4, <2>7, <3>2, <3>3, HandsOn
  <2>8. ASSUME NEW k \in 0 .. MAX_NET_LATENCY - 1, Lengthens(wait', wait, k, s),
               executed' = executed
        PROVE  IInv' /\ Delivers
    <3> DEFINE none == <<>>
    <3>1. /\ wait' \in [0 .. MAX_NET_LATENCY - 1 -> Seq(Nat \X Nat)]
          /\ Aside(wait') = Aside(wait) \cup ToSet(s)
          /\ Apart(wait) /\ Once(s) /\ ToSet(s) \cap Aside(wait) = {} => Apart(wait')
      <4> DEFINE K == 0 .. MAX_NET_LATENCY - 1
                 M == Nat \X Nat
      <4>1. wait \in [K -> Seq(M)] /\ k \in K /\ s \in Seq(M) /\ Lengthens(wait', wait, k, s)
        BY <2>4, <2>5, <2>8
      <4> HIDE DEF K, M
      <4>2. /\ wait' \in [K -> Seq(M)]
            /\ Aside(wait') = Aside(wait) \cup ToSet(s)
            /\ Apart(wait) /\ Once(s) /\ ToSet(s) \cap Aside(wait) = {} => Apart(wait')
        BY <4>1, AsideGrows
      <4>3. QED
        BY <4>2 DEF K, M
    <3>2. TypeOK' /\ InBounds'
      BY <1>0, <1>1, <2>1, <2>3, <2>8, <3>1, Fixed DEF TypeOK, InBounds
    <3>3. none \in Seq(Nat \X Nat) /\ Once(none) /\ ToSet(none) = {} /\ executed' = executed \o none
      BY <2>5, <2>8 DEF Once, ToSet
    <3> HIDE DEF none
    <3>4. ToSet(s) \cap Aside(wait) = {}
      BY <2>3, <2>4, <2>6
    <3>5. /\ Apart(wait')
          /\ Carrying \cup Waiting = ToSet(none) \cup Carrying' \cup Waiting'
          /\ ToSet(none) \cap (Carrying' \cup Waiting') = {}
          /\ Carrying' \cap Waiting' = {}
      BY <2>3, <2>4, <2>6, <3>1, <3>3, <3>4
    <3>6. QED
      BY <1>1, <2>3, <3>2, <3>3, <3>5, HandsOn
  <2>9. CASE p.type = "scalarResponse"
    BY <1>3, <2>7, <2>9 DEF Push, p, s
  <2>10. CASE p.type # "scalarResponse"
    <3>1. Execute(p)
      BY <1>3, <2>10 DEF Push, p
    <3>2. CASE build.delay = Immediate
      BY <2>7, <3>1, <3>2 DEF Execute, s
    <3>3. CASE build.delay # Immediate
      <4> DEFINE k == (ptr + build.delay) % MAX_NET_LATENCY
      <4>1. Lengthens(wait', wait, k, s) /\ executed' = executed
        BY <3>1, <3>3 DEF Execute, s, Lengthens
      <4>2. k \in 0 .. MAX_NET_LATENCY - 1
        <5>1. build.delay \in Nat /\ MAX_NET_LATENCY \in Nat \ {0}
          BY <1>0, <3>3, BuildsAssumption, SizesAssumption DEF Sizes, Build
        <5> DEFINE n == ptr + build.delay
        <5>2. n \in Nat
          BY <2>5, <5>1
        <5> HIDE DEF n
        <5>3. n % MAX_NET_LATENCY \in 0 .. MAX_NET_LATENCY - 1
          BY <5>1, <5>2
        <5>4. QED
          BY <5>3 DEF n
      <4> HIDE DEF k
      <4>3. QED
        BY <2>8, <4>1, <4>2
    <3>4. QED
      BY <3>2, <3>3
  <2>11. QED
    BY <2>9, <2>10
<1>4. QED
  BY <1>2, <1>3


(***************************************************************************)
(* Between the cycles.                                                     *)
(***************************************************************************)

\* A position in the cycle is a number.
LEMMA IdleIs ==
  ASSUME Sizes
  PROVE  Idle \in Nat
<1>1. NumCores \in Nat /\ NumHorizontal \in Nat
  BY Mesh
<1>2. QED
  BY <1>1 DEF Idle, NumSlots

\* The buffers stay as they are.
LEMMA SameBuffers ==
  ASSUME UNCHANGED <<build, netIn, netOut, mcBuf, internal>>
  PROVE  /\ Carrying' = Carrying
         /\ Separate(Names, Contents)' = Separate(Names, Contents)
<1>1. Contents' = Contents
  <2>1. Names' = Names
    BY Fixed
  <2>2. QED
    BY <2>1 DEF Contents, Buffer
<1>2. QED
  BY <1>1, Primed DEF Carrying

\* asic::simulate, from one cycle of the network to the next: what the crossbar
\* held for this cycle reaches the banks.
LEMMA BeginStep ==
  ASSUME IInv, BeginCycle
  PROVE  IInv' /\ Delivers
<1> DEFINE s == wait[ptr]
           K == 0 .. MAX_NET_LATENCY - 1
           M == Nat \X Nat
<1>0. TypeOK /\ InBounds /\ Sizes /\ MAX_NET_LATENCY \in Nat \ {0}
  BY SizesAssumption DEF IInv, TypeOK, Sizes
<1>1. /\ UNCHANGED <<build, netIn, netOut, mcBuf, internal, label, stray, sent>>
      /\ executed' = executed \o s
      /\ Empties(wait', wait, ptr)
      /\ ptr' = (ptr + 1) % MAX_NET_LATENCY
      /\ at'.pos = 0
  BY DEF BeginCycle, cycle_pending_comp, Empties
<1>2. wait \in [K -> Seq(M)] /\ ptr \in K /\ executed \in Seq(M) /\ s \in Seq(M)
  BY <1>0 DEF TypeOK
<1>3. ptr' \in K
  <2> DEFINE n == ptr + 1
  <2>1. n \in Nat
    BY <1>2
  <2> HIDE DEF n
  <2>2. n % MAX_NET_LATENCY \in 0 .. MAX_NET_LATENCY - 1
    BY <1>0, <2>1
  <2>3. QED
    BY <1>1, <2>2 DEF n
<1>4. at'.pos \in 0 .. Idle
  BY <1>0, <1>1, IdleIs
<1>5. /\ wait' \in [K -> Seq(M)]
      /\ Aside(wait) = Aside(wait') \cup ToSet(s)
      /\ Apart(wait) => Apart(wait') /\ Once(s) /\ ToSet(s) \cap Aside(wait') = {}
  <2> HIDE DEF K, M
  <2>1. QED
    BY <1>1, <1>2, AsideLoses
<1>6. executed' \in Seq(M)
  <2> HIDE DEF M, s
  <2>1. QED
    BY <1>1, <1>2, OnceConcat
<1>7. TypeOK' /\ InBounds'
  BY <1>0, <1>1, <1>3, <1>4, <1>5, <1>6, Fixed DEF TypeOK, InBounds
<1>8. Carrying' = Carrying /\ Separate(Names, Contents)'
  BY <1>1, SameBuffers DEF IInv
<1>9. /\ Carrying \cap Waiting = {}
      /\ Apart(wait) /\ Waiting = Aside(wait) /\ Waiting' = Aside(wait')
  BY SettledIs DEF IInv, Elsewhere
<1> HIDE DEF s, K
<1>10. /\ Carrying \cup Waiting = ToSet(s) \cup Carrying' \cup Waiting'
       /\ ToSet(s) \cap (Carrying' \cup Waiting') = {}
       /\ Carrying' \cap Waiting' = {}
       /\ Apart(wait') /\ Once(s)
  BY <1>5, <1>8, <1>9
<1>11. QED
  BY <1>1, <1>2, <1>7, <1>8, <1>10, HandsOn

\* A step that only turns to something else.
LEMMA IdleStep ==
  ASSUME IInv, at'.pos \in 0 .. Idle,
         UNCHANGED <<build, netIn, netOut, mcBuf, internal, label, stray, wait, ptr, executed, sent>>
  PROVE  IInv' /\ Delivers
<1>1. TypeOK /\ InBounds /\ Separate(Names, Contents)
  BY DEF IInv
<1>2. TypeOK' /\ InBounds'
  BY <1>1, Fixed DEF TypeOK, InBounds
<1>3. QED
  BY <1>1, <1>2, SameBuffers, Kept

\* push_net_packet, of a packet whose messages are new.
LEMMA PushNetStep ==
  ASSUME IInv, NEW c \in Cores, NEW p \in Pkt, Sound(p), \A m \in Carried(p) : m[1] = sent,
         PushNet(c, p)
  PROVE  IInv' /\ Sends
<1> DEFINE E == Single(Names, <<"in", c>>, p)
<1>0. TypeOK /\ InBounds /\ Separate(Names, Contents)
  BY DEF IInv
<1>1. /\ UNCHANGED <<build, netOut, mcBuf, internal, label, wait, ptr, executed, stray, at>>
      /\ Pushes(netIn', netIn, c, p)
      /\ sent' = sent + 1
  BY DEF PushNet, Pushes, bankVars
<1>2. /\ mcBuf \in [Cores -> Seq({q \in Pkt : q.req # Nowhere})]
      /\ netIn \in [Cores -> Seq(Pkt)]
      /\ netOut \in [Cores -> Seq(Pkt)]
      /\ internal \in [Slots -> Seq(Pkt)]
      /\ sent \in Nat
  BY <1>0 DEF TypeOK
<1>3. /\ Contents \in [Names -> Seq(Pkt)]
      /\ \A d \in Cores : /\ Contents[<<"in", d>>] = netIn[d]
                          /\ Contents[<<"out", d>>] = netOut[d]
                          /\ Contents[<<"mc", d>>] = mcBuf[d]
      /\ \A x \in Slots : Contents[<<"link", x>>] = internal[x]
      /\ <<"in", c>> \in Names
  BY <1>0, ContentsIs, NamesAre
<1>4. netIn' = AtEnd(netIn, Cores, c, <<p>>)
  BY <1>1, <1>2, Appended
<1>5. /\ E \in [Names -> Seq(Pkt)]
      /\ Total(Names, E) = Carried(p)
      /\ Separate(Names, E)
  <2> DEFINE b == <<"in", c>>
  <2>1. b \in Names
    BY <1>3
  <2> HIDE DEF b
  <2>2. /\ Single(Names, b, p) \in [Names -> Seq(Pkt)]
        /\ Total(Names, Single(Names, b, p)) = Carried(p)
        /\ Sound(p) => Separate(Names, Single(Names, b, p))
    BY <2>1, SingleIs, Zenon
  <2>3. QED
    BY <2>2 DEF b
<1>6. /\ \A d \in Cores : /\ E[<<"in", d>>] = IF d = c THEN <<p>> ELSE <<>>
                          /\ E[<<"out", d>>] = <<>> /\ E[<<"mc", d>>] = <<>>
      /\ \A x \in Slots : E[<<"link", x>>] = <<>>
  BY NamesAre DEF Single
<1> HIDE DEF E
<1>7. \A q \in Seq(Pkt) : q \o <<>> = q
  OBVIOUS
<1>8. \A d \in Cores : /\ netIn'[d] = Contents[<<"in", d>>] \o E[<<"in", d>>]
                       /\ netOut'[d] = Contents[<<"out", d>>] \o E[<<"out", d>>]
                       /\ mcBuf'[d] = Contents[<<"mc", d>>] \o E[<<"mc", d>>]
  <2> SUFFICES ASSUME NEW d \in Cores
               PROVE  /\ netIn'[d] = Contents[<<"in", d>>] \o E[<<"in", d>>]
                      /\ netOut'[d] = Contents[<<"out", d>>] \o E[<<"out", d>>]
                      /\ mcBuf'[d] = Contents[<<"mc", d>>] \o E[<<"mc", d>>]
    OBVIOUS
  <2>1. netIn'[d] = netIn[d] \o E[<<"in", d>>]
    BY <1>4, <1>6 DEF AtEnd
  <2>2. <<"out", d>> \in Names /\ <<"mc", d>> \in Names
    BY NamesAre
  <2>3. Contents[<<"out", d>>] \in Seq(Pkt) /\ Contents[<<"mc", d>>] \in Seq(Pkt)
    BY <1>3, <2>2
  <2>4. netOut'[d] = Contents[<<"out", d>>] \o E[<<"out", d>>]
    <3>1. netOut' = netOut /\ Contents[<<"out", d>>] = netOut[d] /\ E[<<"out", d>>] = <<>>
      BY <1>1, <1>3, <1>6
    <3>2. QED
      BY <1>7, <2>3, <3>1
  <2>5. mcBuf'[d] = Contents[<<"mc", d>>] \o E[<<"mc", d>>]
    <3>1. mcBuf' = mcBuf /\ Contents[<<"mc", d>>] = mcBuf[d] /\ E[<<"mc", d>>] = <<>>
      BY <1>1, <1>3, <1>6
    <3>2. QED
      BY <1>7, <2>3, <3>1
  <2>6. netIn'[d] = Contents[<<"in", d>>] \o E[<<"in", d>>]
    BY <1>3, <2>1
  <2>7. QED
    BY <2>4, <2>5, <2>6
<1>9. \A x \in Slots : internal'[x] = Contents[<<"link", x>>] \o E[<<"link", x>>]
  <2>1. \A x \in Slots : internal[x] \in Seq(Pkt)
    BY <1>2
  <2>2. \A x \in Slots : internal[x] \o <<>> = internal[x]
    BY <1>7, <2>1
  <2>3. internal' = internal
    BY <1>1
  <2>4. QED
    BY <1>3, <1>6, <2>2, <2>3
<1>10. Contents' = Joined(Contents, E)
  BY <1>1, <1>3, <1>5, <1>8, <1>9, ContentsAfter
<1>11. Carrying \cap Carried(p) = {} /\ Waiting \cap Carried(p) = {} /\ ToSet(executed) \cap Carried(p) = {}
  <2>1. \A m \in Carrying \cup Waiting \cup ToSet(executed) : m[1] < sent
    BY DEF IInv, WereSent
  <2>2. ~ (sent < sent)
    BY <1>2
  <2>3. QED
    BY <2>1, <2>2
<1>12. /\ Total(Names, Joined(Contents, E)) = Carrying \cup Carried(p)
       /\ Separate(Names, Joined(Contents, E))
  <2>1. Contents \in [Names -> Seq(Pkt)] /\ E \in [Names -> Seq(Pkt)]
    BY <1>3, <1>5
  <2>2. /\ Joined(Contents, E) \in [Names -> Seq(Pkt)]
        /\ Total(Names, Joined(Contents, E)) = Total(Names, Contents) \cup Total(Names, E)
        /\ Separate(Names, Contents) /\ Separate(Names, E) /\ Total(Names, Contents) \cap Total(Names, E) = {}
             => Separate(Names, Joined(Contents, E))
    BY <2>1, JoinedIs, Zenon
  <2>3. QED
    BY <1>0, <1>5, <1>11, <2>2 DEF Carrying
<1> DEFINE J == Joined(Contents, E)
<1> HIDE DEF J
<1>13. Carrying' = Carrying \cup Carried(p) /\ Separate(Names, Contents)'
  <2>1. Contents' = J
    BY <1>10 DEF J
  <2>2. Carrying' = Total(Names, J) /\ Separate(Names, Contents)' = Separate(Names, J)
    BY <1>1, <2>1, Primed
  <2>3. QED
    BY <1>12, <2>2 DEF J
<1>14. Waiting' = Waiting /\ Settled' /\ executed' = executed
  BY <1>1, SettledIs DEF IInv
<1>15. Elsewhere'
  BY <1>11, <1>13, <1>14 DEF IInv, Elsewhere
<1>16. WereSent'
  <2>1. \A m \in Carrying \cup Waiting \cup ToSet(executed) : m[1] < sent
    BY DEF IInv, WereSent
  <2>2. \A m \in Carrying' \cup Waiting' \cup ToSet(executed') : m[1] < sent \/ m[1] = sent
    BY <1>13, <1>14, <2>1
  <2>3. sent < sent' /\ sent' = sent + 1
    BY <1>1, <1>2
  <2>4. Carrying \cup Waiting \cup ToSet(executed) \subseteq Nat \X Nat /\ Carried(p) \subseteq Nat \X Nat
    <3>1. Waiting \subseteq Nat \X Nat
      <4>1. \A k \in DOMAIN wait : wait[k] \in Seq(Nat \X Nat)
        BY <1>0 DEF TypeOK
      <4>2. \A k \in DOMAIN wait : ToSet(wait[k]) \subseteq Nat \X Nat
        BY <4>1 DEF ToSet
      <4>3. QED
        BY <4>2 DEF Waiting
    <3>2. ToSet(executed) \subseteq Nat \X Nat
      BY <1>0 DEF TypeOK, ToSet
    <3>3. \A q \in Pkt : Carried(q) \subseteq Nat \X Nat
      <4>1. \A q \in Pkt : Carried(q) = {q.dests[k][1] : k \in DOMAIN q.dests}
        BY CarriedIs
      <4>2. QED
        BY <4>1, DestsAreCores
    <3>4. \A q \in Seq(Pkt) : Load(q) \subseteq Nat \X Nat
      <4>1. \A q \in Seq(Pkt) : \A i \in DOMAIN q : q[i] \in Pkt
        OBVIOUS
      <4>2. QED
        BY <3>3, <4>1 DEF Load
    <3>5. Carrying \subseteq Nat \X Nat
      BY <1>3, <3>4 DEF Carrying, Total
    <3>6. QED
      BY <3>1, <3>2, <3>3, <3>5
  <2>5. \A m \in Carrying' \cup Waiting' \cup ToSet(executed') : m[1] \in Nat
    BY <1>13, <1>14, <2>4
  <2>6. \A m \in Carrying' \cup Waiting' \cup ToSet(executed') : m[1] < sent'
    <3> DEFINE A == Carrying' \cup Waiting' \cup ToSet(executed')
    <3> HIDE DEF A
    <3> SUFFICES ASSUME NEW m \in A PROVE m[1] < sent'
      BY DEF A
    <3> DEFINE n == m[1]
    <3>1. n \in Nat /\ (n < sent \/ n = sent)
      BY <2>2, <2>5 DEF A
    <3> HIDE DEF n
    <3>2. n < sent'
      BY <1>2, <2>3, <3>1
    <3>3. QED
      BY <3>2 DEF n
  <2>7. QED
    BY <2>6 DEF WereSent
<1>17. TypeOK' /\ InBounds'
  <2>1. <<p>> \in Seq(Pkt)
    OBVIOUS
  <2>2. netIn' \in [Cores -> Seq(Pkt)]
    BY <1>2, <1>4, <2>1, AtEndIs
  <2>3. sent' \in Nat
    BY <1>1, <1>2
  <2>4. QED
    BY <1>0, <1>1, <2>2, <2>3, Fixed DEF TypeOK, InBounds
<1>18. Sends
  BY <1>13, <1>14 DEF Sends
<1>19. QED
  BY <1>13, <1>14, <1>15, <1>16, <1>17, <1>18 DEF IInv


\* A packet with these fields whose messages are numbered after the packets sent.
Fresh(p, type, dest, req, mc) ==
  /\ p \in PacketType /\ p.dests # <<>>
  /\ p.type = type /\ p.dest = dest /\ p.req = req /\ p.mc = mc
  /\ Sound(p) /\ \A m \in Carried(p) : m[1] = sent

\* So is one that a core makes.
LEMMA PacketIs ==
  ASSUME TypeOK, NEW list \in Seq(Cores), list # <<>>,
         NEW type \in {"vectorized", "scalarUpdate", "astarUpdate"},
         NEW dest \in Cores \cup {Nowhere}, NEW req \in Cores \cup {Nowhere},
         NEW mc \in Cores \cup {Nowhere}
  PROVE  Fresh(Packet(type, Numbered(list), dest, req, mc), type, dest, req, mc)
<1> DEFINE p == Packet(type, Numbered(list), dest, req, mc)
           l == Numbered(list)
<1>1. sent \in Nat
  BY DEF TypeOK
<1>2. Len(list) \in Nat \ {0} /\ DOMAIN list = 1 .. Len(list) /\ \A k \in DOMAIN list : list[k] \in Cores
  OBVIOUS
<1>3. l = [k \in 1 .. Len(list) |-> <<<<sent, k>>, list[k]>>]
  BY <1>2 DEF Numbered
<1>4. l \in Seq((Nat \X Nat) \X Cores) /\ DOMAIN l = 1 .. Len(list) /\ l # <<>>
  <2>1. \A k \in 1 .. Len(list) : <<<<sent, k>>, list[k]>> \in (Nat \X Nat) \X Cores
    BY <1>1, <1>2
  <2>2. l \in [1 .. Len(list) -> (Nat \X Nat) \X Cores]
    BY <1>3, <2>1
  <2> HIDE DEF l
  <2>3. l \in Seq((Nat \X Nat) \X Cores) /\ Len(l) = Len(list)
    BY <1>2, <2>2
  <2>4. QED
    BY <1>2, <2>2, <2>3
<1>5. \A k \in DOMAIN l : l[k][1] = <<sent, k>>
  BY <1>3, <1>4
<1>6. /\ p = [type |-> type, dests |-> l, dest |-> dest, req |-> req, mc |-> mc, label |-> 0]
  BY DEF Packet
<1> HIDE DEF l
<1>7. /\ p \in PacketType /\ p.dests = l
      /\ p.type = type /\ p.dest = dest /\ p.req = req /\ p.mc = mc
  BY <1>4, <1>6 DEF PacketType
<1> HIDE DEF p
<1>8. Sound(p)
  BY <1>5, <1>7 DEF Sound
<1>9. Carried(p) = {p.dests[k][1] : k \in DOMAIN p.dests}
  BY CarriedIs
<1>10. \A m \in Carried(p) : m[1] = sent
  BY <1>5, <1>7, <1>9
<1>11. QED
  BY <1>4, <1>7, <1>8, <1>10 DEF p, Fresh

\* asic_core::reduce
LEMMA SendUpdatesStep ==
  ASSUME IInv, NEW c \in build.froms, SendUpdates(c)
  PROVE  IInv' /\ Sends
<1>1. TypeOK /\ Sizes
  BY DEF IInv, TypeOK, Sizes
<1>2. PICK list \in build.lists :
        PushNet(c, IF build.multicast
                   THEN Packet("vectorized", Numbered(list), Nowhere, Nowhere, Nowhere)
                   ELSE Packet("scalarUpdate", Numbered(list), list[1], Nowhere, Nowhere))
  BY DEF SendUpdates
<1>3. /\ c \in Cores
      /\ list \in Seq(Nat) /\ list # <<>>
      /\ \A k \in DOMAIN list : list[k] \in Cores
      /\ build.multicast \in BOOLEAN
  BY <1>1, BuildsAssumption DEF Sizes, Build, Cores, num_rows
<1>4. list \in Seq(Cores) /\ list[1] \in Cores
  BY <1>3
<1>5. CASE build.multicast
  <2> DEFINE p == Packet("vectorized", Numbered(list), Nowhere, Nowhere, Nowhere)
  <2>1. Fresh(p, "vectorized", Nowhere, Nowhere, Nowhere)
    BY <1>1, <1>3, <1>4, PacketIs
  <2>2. PushNet(c, p)
    BY <1>2, <1>5
  <2> HIDE DEF p
  <2>3. p \in Pkt
    BY <1>5, <2>1 DEF Pkt, Sendable, Fresh
  <2>4. QED
    BY <1>3, <2>1, <2>2, <2>3, PushNetStep DEF Fresh
<1>6. CASE ~build.multicast
  <2> DEFINE p == Packet("scalarUpdate", Numbered(list), list[1], Nowhere, Nowhere)
  <2>1. Fresh(p, "scalarUpdate", list[1], Nowhere, Nowhere)
    BY <1>1, <1>3, <1>4, PacketIs
  <2>2. PushNet(c, p)
    BY <1>2, <1>6
  <2> HIDE DEF p
  <2>3. p \in Pkt
    BY <1>4, <1>6, <2>1 DEF Pkt, Sendable, Fresh
  <2>4. QED
    BY <1>3, <2>1, <2>2, <2>3, PushNetStep DEF Fresh
<1>7. QED
  BY <1>5, <1>6

\* asic_core::dispatch
LEMMA SendReadStep ==
  ASSUME IInv, NEW c \in build.froms, SendRead(c)
  PROVE  IInv' /\ Sends
<1>1. TypeOK /\ Sizes
  BY DEF IInv, TypeOK, Sizes
<1>2. PICK r \in build.reads : PushNet(c, Packet("astarUpdate", Numbered(<<c>>), r[1], c, r[2]))
  BY DEF SendRead
<1>3. c \in Cores /\ r[1] \in Cores /\ r[2] \in Cores /\ ~build.multicast
  BY <1>1, BuildsAssumption DEF Sizes, Build, Cores, num_rows
<1> DEFINE p == Packet("astarUpdate", Numbered(<<c>>), r[1], c, r[2])
<1>4. Fresh(p, "astarUpdate", r[1], c, r[2])
  <2> DEFINE list == <<c>>
  <2>1. list \in Seq(Cores) /\ list # <<>>
    BY <1>3
  <2> HIDE DEF list
  <2>2. Fresh(Packet("astarUpdate", Numbered(list), r[1], c, r[2]), "astarUpdate", r[1], c, r[2])
    BY <1>1, <1>3, <2>1, PacketIs
  <2>3. QED
    BY <2>2 DEF list
<1>5. PushNet(c, p)
  BY <1>2
<1> HIDE DEF p
<1>6. p \in Pkt
  BY <1>3, <1>4 DEF Pkt, Sendable, Fresh
<1>7. QED
  BY <1>3, <1>4, <1>5, <1>6, PushNetStep DEF Fresh

(***************************************************************************)
(* The theorems.                                                           *)
(***************************************************************************)

\* At first nothing is anywhere.
LEMMA Initially ==
  ASSUME Init
  PROVE  IInv /\ Carrying = {} /\ Waiting = {} /\ executed = <<>>
<1>1. Sizes /\ Idle \in Nat
  BY IdleIs DEF Init, Sizes
<1>2. TypeOK
  <2>1. \A S : <<>> \in Seq(S)
    OBVIOUS
  <2>2. 0 \in 0 .. MAX_NET_LATENCY - 1
    BY SizesAssumption
  <2>3. Idle \in 0 .. Idle
    BY <1>1
  <2>4. QED
    BY <2>1, <2>2, <2>3 DEF Init, TypeOK
<1>3. InBounds
  BY DEF Init, InBounds
<1>4. Load(<<>>) = {} /\ Sep(<<>>)
  BY LoadOne
<1>5. \A a \in Names : Contents[a] = <<>>
  <2> SUFFICES ASSUME NEW a \in Names PROVE Contents[a] = <<>>
    OBVIOUS
  <2>1. \/ a[1] \in {"in", "out", "mc"} /\ a[2] \in Cores
        \/ a[1] = "link" /\ a[2] \in Slots
    BY NamesAre
  <2>2. QED
    BY <2>1 DEF Init, Contents, Buffer
<1>6. Carrying = {} /\ Separate(Names, Contents)
  BY <1>4, <1>5 DEF Carrying, Total, Separate
<1>7. /\ Waiting = {} /\ Apart(wait)
      /\ executed = <<>> /\ Once(executed) /\ ToSet(executed) = {}
  <2>1. Once(<<>>) /\ ToSet(<<>>) = {}
    BY DEF Once, ToSet
  <2>2. executed = <<>> /\ \A k \in DOMAIN wait : wait[k] = <<>>
    BY DEF Init
  <2>3. QED
    BY <2>1, <2>2 DEF Waiting, Apart
<1>8. Settled /\ Elsewhere /\ WereSent
  BY <1>6, <1>7, SettledIs DEF Elsewhere, WereSent
<1>9. QED
  BY <1>2, <1>3, <1>6, <1>7, <1>8 DEF IInv

\* Every step keeps the invariant, and hands messages on or over.
LEMMA EveryStep ==
  ASSUME JunkIsBuffer, IInv, [Next]_vars
  PROVE  IInv' /\ (Delivers \/ Sends)
<1>0. TypeOK /\ Sizes /\ at.pos \in 0 .. Idle
  BY DEF IInv, TypeOK, Sizes
<1>1. CASE BeginCycle
  BY <1>1, BeginStep
<1>2. ASSUME NEW pos \in {Now} \ {Idle},
             \/ pos < FirstSlot /\ pos % 2 = 0 /\ Pull(pos, pos \div 2)
             \/ pos < FirstSlot /\ pos % 2 = 1 /\ Push(pos, pos \div 2)
             \/ pos - FirstSlot \in 0 .. NumSlots - 1 /\ RouteFront(pos, SlotAt(pos - FirstSlot))
             \/ pos >= FirstSlot + NumSlots /\ Serve(pos, pos - FirstSlot - NumSlots)
      PROVE  IInv' /\ Delivers
  <2>1. pos \in 0 .. Idle - 1 /\ QueueAt(pos) # <<>>
    BY <1>0, NowIs
  <2>2. pos \in 0 .. Idle
    BY <1>0, <2>1, IdleIs
  <2>3. /\ pos < FirstSlot /\ pos % 2 = 0 =>
             pos \div 2 \in Cores /\ QueueAt(pos) = netIn[pos \div 2]
        /\ pos < FirstSlot /\ pos % 2 = 1 =>
             pos \div 2 \in Cores /\ QueueAt(pos) = netOut[pos \div 2]
        /\ pos - FirstSlot \in 0 .. NumSlots - 1 =>
             /\ SlotAt(pos - FirstSlot) \in Slots
             /\ QueueAt(pos) = internal[SlotAt(pos - FirstSlot)]
        /\ pos >= FirstSlot + NumSlots =>
             /\ pos - FirstSlot - NumSlots \in Cores
             /\ QueueAt(pos) = mcBuf[pos - FirstSlot - NumSlots]
    BY <1>0, <2>1, TurnOf
  <2>4. CASE pos < FirstSlot /\ pos % 2 = 0 /\ Pull(pos, pos \div 2)
    <3> DEFINE c == pos \div 2
    <3>1. c \in Cores /\ netIn[c] # <<>> /\ Pull(pos, c)
      BY <2>1, <2>3, <2>4
    <3> HIDE DEF c
    <3>2. QED
      BY <2>2, <3>1, PullStep
  <2>5. CASE pos < FirstSlot /\ pos % 2 = 1 /\ Push(pos, pos \div 2)
    <3> DEFINE c == pos \div 2
    <3>1. c \in Cores /\ netOut[c] # <<>> /\ Push(pos, c)
      BY <2>1, <2>3, <2>5
    <3> HIDE DEF c
    <3>2. QED
      BY <2>2, <3>1, PushStep
  <2>6. CASE pos - FirstSlot \in 0 .. NumSlots - 1 /\ RouteFront(pos, SlotAt(pos - FirstSlot))
    <3> DEFINE x == SlotAt(pos - FirstSlot)
    <3>1. x \in Slots /\ internal[x] # <<>> /\ RouteFront(pos, x)
      BY <2>1, <2>3, <2>6
    <3> HIDE DEF x
    <3>2. QED
      BY <2>2, <3>1, RouteFrontStep
  <2>7. CASE pos >= FirstSlot + NumSlots /\ Serve(pos, pos - FirstSlot - NumSlots)
    <3> DEFINE c == pos - FirstSlot - NumSlots
    <3>1. c \in Cores /\ mcBuf[c] # <<>> /\ Serve(pos, c)
      BY <2>1, <2>3, <2>7
    <3> HIDE DEF c
    <3>2. QED
      BY <2>2, <3>1, ServeStep
  <2>8. QED
    BY <1>2, <2>4, <2>5, <2>6, <2>7
<1>3. CASE EndCycle
  <2>1. Idle \in 0 .. Idle
    BY <1>0, IdleIs
  <2>2. QED
    BY <1>3, <2>1, IdleStep DEF EndCycle, bankVars
<1>4. ASSUME NEW c \in build.froms, SendUpdates(c) \/ SendRead(c)
      PROVE  IInv' /\ Sends
  BY <1>4, SendUpdatesStep, SendReadStep
<1>5. CASE UNCHANGED vars
  BY <1>0, <1>5, IdleStep DEF vars, bankVars
<1>6. QED
  <2>1. CASE NetworkStep
    BY <1>1, <1>2, <1>3, <2>1 DEF NetworkStep
  <2>2. CASE \E c \in build.froms : SendUpdates(c) \/ SendRead(c)
    BY <1>4, <2>2
  <2>3. QED
    BY <1>5, <2>1, <2>2 DEF Next

\* A message is in one place: in one packet of one buffer, waiting for the
\* crossbar, or handed on once; and every packet is in a buffer from which its
\* route goes on.
THEOREM Invariance ==
  ASSUME JunkIsBuffer
  PROVE  Spec => []IInv
<1>1. Init => IInv
  BY Initially
<1>2. IInv /\ [Next]_vars => IInv'
  BY EveryStep
<1>3. QED
  BY <1>1, <1>2, PTL DEF Spec

\* No router of a mesh of any size computes the index of a buffer that is none,
\* with the links that get_core_id and fill_link_map number differently.
THEOREM StaysInBounds ==
  ASSUME JunkIsBuffer
  PROVE  Spec => []InBounds
<1>1. IInv => InBounds
  BY DEF IInv
<1>2. QED
  BY <1>1, Invariance, PTL


\* The messages under way are those of the buffers and of the crossbar.
Underway == Carrying \cup Waiting

\* Travelling, which is about sets of packets, is the same.
LEMMA TravellingIs ==
  ASSUME TypeOK
  PROVE  Travelling = Underway
<1>1. /\ \A c \in Cores : /\ Contents[<<"in", c>>] = netIn[c]
                          /\ Contents[<<"out", c>>] = netOut[c]
                          /\ Contents[<<"mc", c>>] = mcBuf[c]
                          /\ <<"in", c>> \in Names /\ <<"out", c>> \in Names /\ <<"mc", c>> \in Names
      /\ \A x \in Slots : Contents[<<"link", x>>] = internal[x] /\ <<"link", x>> \in Names
  BY ContentsIs, NamesAre
<1>2. Load(<<>>) = {} /\ \A q : Load(q) = UNION {Carried(p) : p \in ToSet(q)}
  BY DEF Load, ToSet
<1>3. Buffered = UNION {ToSet(Contents[a]) : a \in Names}
  <2>1. ASSUME NEW p \in Buffered PROVE \E a \in Names : p \in ToSet(Contents[a])
    <3>1. \/ \E c \in Cores : p \in ToSet(netIn[c]) \/ p \in ToSet(netOut[c]) \/ p \in ToSet(mcBuf[c])
          \/ \E x \in Slots : p \in ToSet(internal[x])
      BY <2>1 DEF Buffered
    <3>2. QED
      BY <1>1, <3>1
  <2>2. ASSUME NEW a \in Names PROVE ToSet(Contents[a]) \subseteq Buffered
    <3>1. /\ a = <<a[1], a[2]>>
          /\ \/ a[1] \in {"in", "out", "mc"} /\ a[2] \in Cores
             \/ a[1] = "link" /\ a[2] \in Slots
      BY NamesAre
    <3>2. \/ \E c \in Cores : Contents[a] = netIn[c] \/ Contents[a] = netOut[c] \/ Contents[a] = mcBuf[c]
          \/ \E x \in Slots : Contents[a] = internal[x]
      BY <3>1 DEF Contents, Buffer
    <3>3. \A c \in Cores : /\ ToSet(netIn[c]) \subseteq Buffered
                          /\ ToSet(netOut[c]) \subseteq Buffered
                          /\ ToSet(mcBuf[c]) \subseteq Buffered
      <4> DEFINE ends == {ToSet(netIn[c]) \cup ToSet(netOut[c]) \cup ToSet(mcBuf[c]) : c \in Cores}
                 between == {ToSet(internal[x]) : x \in Slots}
      <4>1. Buffered = UNION (ends \cup between)
        BY DEF Buffered
      <4>2. \A c \in Cores : ToSet(netIn[c]) \cup ToSet(netOut[c]) \cup ToSet(mcBuf[c]) \in ends
        OBVIOUS
      <4> HIDE DEF ends, between
      <4>3. \A c \in Cores : ToSet(netIn[c]) \cup ToSet(netOut[c]) \cup ToSet(mcBuf[c]) \subseteq Buffered
        BY <4>1, <4>2
      <4>4. QED
        BY <4>3
    <3>4. \A x \in Slots : ToSet(internal[x]) \subseteq Buffered
      BY DEF Buffered
    <3>5. QED
      BY <3>2, <3>3, <3>4
  <2>3. QED
    BY <2>1, <2>2
<1>4. Carrying = UNION {Carried(p) : p \in Buffered}
  BY <1>2, <1>3 DEF Carrying, Total
<1>5. QED
  BY <1>4 DEF Travelling, Underway

\* How often each message of a list without repetition occurs in it.
LEMMA OccursOnce ==
  ASSUME NEW M, NEW s \in Seq(M), Once(s)
  PROVE  Occurrences(s) = [m \in ToSet(s) |-> 1]
<1>1. ASSUME NEW m \in ToSet(s)
      PROVE  Cardinality({k \in DOMAIN s : s[k] = m}) = 1
  <2>1. PICK i \in DOMAIN s : s[i] = m
    BY DEF ToSet
  <2>2. {k \in DOMAIN s : s[k] = m} = {i}
    BY <2>1 DEF Once
  <2>3. QED
    BY <2>2, FS_Singleton
<1>2. QED
  BY <1>1 DEF Occurrences

\* The bag of what was handed on.
HandedOn == [m \in ToSet(executed) |-> 1]

\* The invariant says so of every message that was handed on.
LEMMA OccurrencesAre ==
  ASSUME IInv
  PROVE  Occurrences(executed) = HandedOn
BY OccursOnce DEF IInv, TypeOK, Settled, HandedOn

\* A step that hands messages on is one of the abstract network.
LEMMA DeliversIsArrive ==
  ASSUME NEW s \in Seq(Nat \X Nat), executed \in Seq(Nat \X Nat), Arrives(s),
         Underway \cap ToSet(executed) = {},
         Travelling = Underway, Travelling' = Underway',
         Occurrences(executed) = HandedOn, Occurrences(executed)' = HandedOn'
  PROVE  D!Arrive
<1>1. ToSet(executed') = ToSet(executed) \cup ToSet(s)
  BY OnceConcat DEF Arrives
<1>2. Underway' \subseteq Underway /\ Underway \ Underway' = ToSet(s)
  BY DEF Arrives, Underway
<1>3. Travelling' \subseteq Travelling /\ Travelling \ Travelling' = ToSet(s)
  BY <1>2
<1>4. Occurrences(executed) = [m \in ToSet(executed) |-> 1]
  BY DEF HandedOn
<1>5. Occurrences(executed)' = [m \in ToSet(executed) \cup ToSet(s) |-> 1]
  BY <1>1 DEF HandedOn
<1>6. ToSet(executed) \cap ToSet(s) = {}
  BY <1>2
<1> DEFINE o == Occurrences(executed)
           n == Occurrences(executed)'
           A == ToSet(executed)
           B == ToSet(s)
<1> HIDE DEF o, n, A, B
<1>7. /\ o = [m \in A |-> 1] /\ n = [m \in A \cup B |-> 1] /\ A \cap B = {}
      /\ Travelling \ Travelling' = B /\ Travelling' \subseteq Travelling
  BY <1>3, <1>4, <1>5, <1>6 DEF o, n, A, B
<1>8. n = [e \in DOMAIN o \cup DOMAIN [e \in B |-> 1] |->
             (IF e \in DOMAIN o THEN o[e] ELSE 0)
               + (IF e \in DOMAIN [f \in B |-> 1] THEN [f \in B |-> 1][e] ELSE 0)]
  BY <1>7
<1>9. Occurrences(executed)' = D!(+)(Occurrences(executed), D!SetToBag(Travelling \ Travelling'))
  BY <1>7, <1>8 DEF o, n, D!SetToBag, D!(+)
<1>10. QED
  BY <1>3, <1>9 DEF D!Arrive


\* A step that sends is one of the abstract network.
LEMMA SendsIsSend ==
  ASSUME Sends, Underway' \cap ToSet(executed) = {},
         Travelling = Underway, Travelling' = Underway', Occurrences(executed) = HandedOn
  PROVE  D!Send
<1>1. Travelling \subseteq Travelling' /\ executed' = executed
  BY DEF Sends, Underway
<1>2. Occurrences(executed)' = Occurrences(executed)
  BY <1>1 DEF Occurrences
<1>3. D!BagToSet(Occurrences(executed)) = ToSet(executed)
  BY DEF D!BagToSet, HandedOn
<1>4. Travelling' \cap D!BagToSet(Occurrences(executed)) = {}
  BY <1>3
<1>5. QED
  BY <1>1, <1>2, <1>4 DEF D!Send

\* The mesh does what Delivery promises: each message is handed on once, however
\* a packet is split, turned back or answered on its way, and none is dropped.
THEOREM DeliversOnce ==
  ASSUME JunkIsBuffer
  PROVE  Spec => DeliverySpec
<1>1. Init => D!Init
  <2> SUFFICES ASSUME Init PROVE D!Init
    OBVIOUS
  <2>1. IInv /\ Carrying = {} /\ Waiting = {} /\ executed = <<>>
    BY Initially
  <2>2. Travelling = {}
    BY <2>1, TravellingIs DEF IInv, Underway
  <2>3. Occurrences(executed) = D!EmptyBag
    BY <2>1 DEF Occurrences, D!EmptyBag, D!SetToBag, ToSet
  <2>4. QED
    BY <2>2, <2>3 DEF D!Init
<1>2. IInv => Travelling = Underway
  BY TravellingIs DEF IInv
<1>3. IInv => Occurrences(executed) = HandedOn
  BY OccurrencesAre
<1>4. /\ IInv /\ IInv'
      /\ Travelling = Underway /\ (Travelling = Underway)'
      /\ Occurrences(executed) = HandedOn /\ (Occurrences(executed) = HandedOn)'
      /\ [Next]_vars
      => [D!Send \/ D!Arrive]_<<Travelling, Occurrences(executed)>>
  <2> SUFFICES ASSUME IInv, IInv', Travelling = Underway, (Travelling = Underway)',
                      Occurrences(executed) = HandedOn, (Occurrences(executed) = HandedOn)',
                      [Next]_vars
               PROVE  D!Send \/ D!Arrive
    OBVIOUS
  <2>1. executed \in Seq(Nat \X Nat)
    BY DEF IInv, TypeOK
  <2>2. Underway \cap ToSet(executed) = {} /\ Underway' \cap ToSet(executed') = {}
    BY SettledIs DEF IInv, Elsewhere, Underway
  <2>3. CASE Delivers
    BY <2>1, <2>2, <2>3, DeliversIsArrive DEF Delivers
  <2>4. CASE Sends
    <3>1. executed' = executed
      BY <2>4 DEF Sends
    <3>2. Underway' \cap ToSet(executed) = {}
      BY <2>2, <3>1
    <3>3. QED
      BY <2>4, <3>2, SendsIsSend
  <2>5. QED
    BY <2>3, <2>4, EveryStep
<1>5. QED
  BY <1>1, <1>2, <1>3, <1>4, Invariance, PTL DEF Spec, DeliverySpec, D!Spec
=============================================================================
