-------------------------------- MODULE Dram --------------------------------
(***************************************************************************)
(* One channel of DRAMSim2 under the memory controller of the accelerator: *)
(* MemorySystem, MemoryController with its CommandQueue, and the Ranks,    *)
(* which check the timing of every command they receive.  A memory cycle   *)
(* is MemorySystem::update, taken here in the five phases Ranks, Bus, Pop, *)
(* Schedule and Return; the accelerator adds transactions between cycles.  *)
(* Times are kept as the cycles still to go.  The data of a transaction,   *)
(* its column, the energy and the statistics are left out.                 *)
(***************************************************************************)
EXTENDS Integers, Sequences, FiniteSets, SequencesExt, FiniteSetsExt

CONSTANTS
  Builds,              \* see BuildsAssumption
  TRANS_QUEUE_DEPTH,
  CMD_QUEUE_DEPTH,
  TOTAL_ROW_ACCESSES,
  Window               \* bound: cycles within which the transactions of a burst arrive

\* open: ROW_BUFFER_POLICY is open_page.  perBank: QUEUING_STRUCTURE is
\* per_rank_per_bank.  rankFirst: SCHEDULING_POLICY is
\* rank_then_bank_round_robin.  lowPower: USE_LOW_POWER.  t: the timing
\* parameters in memory cycles, refresh being REFRESH_PERIOD / tCK.  work: the
\* bursts of transactions the accelerator may ask for, of aligned addresses of one
\* channel in units of TRANSACTION_SIZE, which addressMapping splits by the scheme.
ASSUME QueuesAssumption ==
  /\ {TRANS_QUEUE_DEPTH, TOTAL_ROW_ACCESSES, Window} \subseteq Nat \ {0}
  /\ CMD_QUEUE_DEPTH \in Nat \ {0, 1}
ASSUME BuildsAssumption ==
  \A b \in Builds :
    /\ {b.ranks, b.banks, b.rows, b.cols} \subseteq Nat \ {0}
    /\ b.scheme \in 1 .. 7
    /\ \A w \in b.work : \A t \in ToSet(w) :
         t.addr \in 0 .. b.ranks * b.banks * b.rows * b.cols - 1 /\ t.write \in BOOLEAN
    /\ b.t.tCMD = 1 /\ b.t.burst <= b.t.tCCD /\ b.t.tCMD <= b.t.tRTRS
    /\ b.t.tRAS + b.t.tRP <= b.t.tRC
    \* the delays kept for the open banks of other ranks only are enough: a bank
    \* activated after a column command gets its own no sooner than tRCD later
    /\ b.t.burst + b.t.tRTRS <= b.t.tRCD

VARIABLES
  build, phase,
  tq,         \* transactionQueue
  waiting,    \* pendingTransactions
  reads,      \* pendingReadTransactions
  cq,         \* queues
  bs,         \* bankStates of the controller
  nextPos,    \* nextRank and nextBank
  prePos,     \* nextRankPRE and nextBankPRE
  refreshDue, \* refreshWaiting and refreshRank of the queue: a rank, or None
  refreshRank, refreshCountdown,
  rowAccessCounters, tFAWCountdown,
  down,       \* powerDown
  cmd,        \* outgoingCmdPacket
  writes,     \* writeDataToSend with writeDataCountdown
  wbus,       \* outgoingDataPacket with dataCyclesLeft
  returns,    \* returnTransaction
  rb,         \* bankStates of the ranks
  rret,       \* readReturnPacket with readReturnCountdown
  rbus,       \* outgoingDataPacket of the ranks
  rwait,      \* refreshWaiting of the ranks
  out,        \* the accelerator's outstanding lines: address -> is a write
  work,       \* the transactions of the burst that have not arrived
  age,        \* cycles since the burst began; None before, Answered after
  error       \* a check of the code failed

queueVars == <<tq, waiting, reads, cq>>
popVars == <<nextPos, prePos, refreshDue, rowAccessCounters, tFAWCountdown>>
refreshVars == <<refreshRank, refreshCountdown>>
busVars == <<cmd, writes, wbus, returns>>
rankVars == <<rb, rret, rbus, rwait>>
envVars == <<out, work, age>>
vars == <<build, phase, queueVars, bs, popVars, refreshVars, down, busVars, rankVars, envVars, error>>

None == -1
Answered == -2
T == build.t
Ranks == 0 .. build.ranks - 1
Banks == 0 .. build.banks - 1
RL == T.CL
WL == RL - 1
READ_TO_PRE_DELAY == T.burst + (IF T.tRTP > T.tCCD THEN T.tRTP - T.tCCD ELSE 0)
WRITE_TO_PRE_DELAY == WL + T.burst + T.tWR
READ_TO_WRITE_DELAY == RL + T.burst + T.tRTRS - WL
READ_AUTOPRE_DELAY == T.tRTP + T.tRP
WRITE_AUTOPRE_DELAY == WL + T.burst + T.tWR + T.tRP
WRITE_TO_READ_DELAY_B == WL + T.burst + T.tWTR
WRITE_TO_READ_DELAY_R == WL + T.burst + T.tRTRS - RL

Later(a, b) == IF a >= b THEN a ELSE b
Sooner(n) == IF n > 0 THEN n - 1 ELSE 0
First(S) == CHOOSE x \in S : \A y \in S : x <= y
Column(type) == type \in {"READ", "READ_P", "WRITE", "WRITE_P"}
Write(type) == type \in {"WRITE", "WRITE_P"}

\* the fields of an address, from the lowest
Fields ==
  CASE build.scheme = 1 -> <<"bank", "col", "row", "rank">>
    [] build.scheme = 2 -> <<"rank", "bank", "col", "row">>
    [] build.scheme = 3 -> <<"row", "col", "bank", "rank">>
    [] build.scheme = 4 -> <<"col", "row", "bank", "rank">>
    [] build.scheme \in {5, 7} -> <<"bank", "rank", "col", "row">>
    [] build.scheme = 6 -> <<"col", "rank", "bank", "row">>
Size(f) == CASE f = "bank" -> build.banks [] f = "rank" -> build.ranks
             [] f = "row" -> build.rows [] f = "col" -> build.cols
addressMapping(n) ==
  LET below == [i \in 1 .. 4 |-> FoldLeft(LAMBDA m, f : m * Size(f), 1, SubSeq(Fields, 1, i - 1))]
      field(f) == LET i == CHOOSE k \in 1 .. 4 : Fields[k] = f IN (n \div below[i]) % Size(f)
  IN [addr |-> n, rank |-> field("rank"), bank |-> field("bank"), row |-> field("row"), col |-> field("col")]

\* getCommandQueue
Queue(r, b) == IF build.perBank THEN <<r, b>> ELSE <<r, 0>>
isEmpty(r) == \A b \in Banks : cq[r, b] = <<>>
hasRoomFor(n, a) == CMD_QUEUE_DEPTH - Len(cq[Queue(a.rank, a.bank)]) >= n

\* positions of the round robin, in the order of nextRankAndBank
Positions == build.ranks * build.banks
RankAt(p) == IF build.rankFirst THEN p % build.ranks ELSE p \div build.banks
BankAt(p) == IF build.rankFirst THEN p \div build.ranks ELSE p % build.banks
nextRankAndBank(p) == (p + 1) % Positions
\* the kth queue looked at from position p: without bank queues, only the rank moves
Turn(p, k) ==
  IF build.perBank THEN (p + k) % Positions
  ELSE LET r == (RankAt(p) + k) % build.ranks
       IN IF build.rankFirst THEN BankAt(p) * build.ranks + r ELSE r * build.banks + BankAt(p)
Turns == 0 .. (IF build.perBank THEN Positions ELSE build.ranks) - 1

isIssuable(p) ==
  LET bank == bs[p.a.rank, p.a.bank]
  IN CASE p.type = "ACTIVATE" -> /\ bank.st \in {"Idle", "Refreshing"}
                                 /\ bank.act = 0
                                 /\ Len(tFAWCountdown[p.a.rank]) < 4
       [] Column(p.type) -> /\ bank.st = "RowActive"
                            /\ (IF Write(p.type) THEN bank.write ELSE bank.read) = 0
                            /\ p.a.row = bank.row
                            /\ rowAccessCounters[p.a.rank, p.a.bank] < TOTAL_ROW_ACCESSES

----------------------------------------------------------------------------
Init ==
  /\ build \in Builds
  /\ phase = "Add"
  /\ tq = <<>> /\ waiting = <<>> /\ reads = <<>> /\ returns = <<>>
  /\ cq = [q \in Ranks \X Banks |-> <<>>]
  /\ bs = [q \in Ranks \X Banks |-> [st |-> "Idle", auto |-> FALSE, count |-> 0, act |-> 0, read |-> 0,
                                     write |-> 0, pre |-> 0, up |-> 0, row |-> 0]]
  /\ rb = [q \in Ranks \X Banks |-> [st |-> "Idle", act |-> 0, read |-> 0, write |-> 0, pre |-> 0,
                                     up |-> 0, row |-> 0]]
  /\ nextPos = 0 /\ prePos = 0 /\ refreshDue = None /\ refreshRank = 0
  /\ refreshCountdown = [r \in Ranks |-> (T.refresh \div build.ranks) * (r + 1)]
  /\ rowAccessCounters = [q \in Ranks \X Banks |-> 0]
  /\ tFAWCountdown = [r \in Ranks |-> <<>>]
  /\ down = {} /\ rwait = {}
  /\ cmd = <<>> /\ writes = <<>> /\ wbus = <<>>
  /\ rret = [r \in Ranks |-> <<>>] /\ rbus = [r \in Ranks |-> <<>>]
  /\ out = <<>> /\ work = <<>> /\ age = None
  /\ error = FALSE

WillAcceptTransaction == Len(tq) < TRANS_QUEUE_DEPTH

\* MemorySystem::addTransaction, for a line the accelerator has not asked for
\* already (send_mem_request_actual)
Add(t) ==
  /\ t.addr \notin DOMAIN out
  /\ IF WillAcceptTransaction
     THEN tq' = Append(tq, t) /\ UNCHANGED waiting
     ELSE waiting' = Append(waiting, t) /\ UNCHANGED tq
  /\ out' = [x \in DOMAIN out \cup {t.addr} |-> IF x = t.addr THEN t.write ELSE out[x]]
  /\ UNCHANGED <<build, phase, reads, cq, bs, popVars, refreshVars, down, busVars, rankVars, error>>

\* a burst begins, or goes on
Begin(w) ==
  /\ phase = "Add" /\ age = None
  /\ Add(Head(w))
  /\ work' = Tail(w) /\ age' = 0
More ==
  /\ phase = "Add" /\ work # <<>>
  /\ Add(Head(work))
  /\ work' = Tail(work) /\ UNCHANGED age

----------------------------------------------------------------------------
\* Rank::update, then the transfer of a waiting transaction
RankUpdate ==
  /\ phase = "Add"
  /\ work = <<>> \/ age < Window
  /\ LET soon == [r \in Ranks |-> [i \in DOMAIN rret[r] |-> <<rret[r][i][1], rret[r][i][2] - 1>>]]
         start(r) == soon[r] # <<>> /\ soon[r][1][2] = 0
         done(r) == rbus[r] # <<>> /\ rbus[r][2] = 1
     IN /\ returns' = returns \o FoldLeft(LAMBDA s, r : IF done(r) THEN Append(s, rbus[r][1]) ELSE s,
                                          <<>>, [i \in 1 .. build.ranks |-> i - 1])
        /\ rret' = [r \in Ranks |-> IF start(r) THEN Tail(soon[r]) ELSE soon[r]]
        /\ rbus' = [r \in Ranks |-> CASE start(r) -> <<soon[r][1][1], T.burst>>
                                      [] ~start(r) /\ (rbus[r] = <<>> \/ done(r)) -> <<>>
                                      [] OTHER -> <<rbus[r][1], rbus[r][2] - 1>>]
  /\ IF waiting # <<>> /\ WillAcceptTransaction
     THEN tq' = Append(tq, Head(waiting)) /\ waiting' = Tail(waiting)
     ELSE UNCHANGED <<tq, waiting>>
  /\ phase' = "Bus"
  /\ UNCHANGED <<build, reads, cq, bs, popVars, refreshVars, down, cmd, writes, wbus, rb, rwait, envVars, error>>

\* the implicit state changes of the controller's banks
Settle(bank) ==
  CASE bank.count = 1 /\ bank.auto ->
         [bank EXCEPT !.st = "Precharging", !.auto = FALSE, !.count = T.tRP]
    [] bank.count = 1 /\ ~bank.auto -> [bank EXCEPT !.st = "Idle", !.count = 0]
    [] OTHER -> [bank EXCEPT !.count = Sooner(bank.count)]

\* Rank::receiveFromBus: whether the command is allowed, and what it does
Allowed(p) ==
  LET bank == rb[p.a.rank, p.a.bank]
  IN CASE p.type \in {"READ", "READ_P"} -> bank.st = "RowActive" /\ bank.read = 0 /\ p.a.row = bank.row
       [] p.type \in {"WRITE", "WRITE_P"} -> bank.st = "RowActive" /\ bank.write = 0 /\ p.a.row = bank.row
       [] p.type = "ACTIVATE" -> bank.st = "Idle" /\ bank.act = 0
       [] p.type = "PRECHARGE" -> bank.st = "RowActive" /\ bank.pre = 0
       [] p.type = "REFRESH" -> \A b \in Banks : rb[p.a.rank, b].st = "Idle"

Received(p, q) ==
  LET bank == rb[q]
      mine == q[2] = p.a.bank
      column == [bank EXCEPT
        !.read = Later(@, IF Write(p.type) THEN WRITE_TO_READ_DELAY_B ELSE Later(T.tCCD, T.burst)),
        !.write = Later(@, IF Write(p.type) THEN Later(T.tCCD, T.burst) ELSE READ_TO_WRITE_DELAY)]
  IN CASE p.type = "READ" -> [column EXCEPT !.pre = IF mine THEN Later(@, READ_TO_PRE_DELAY) ELSE @]
       [] p.type = "WRITE" -> [column EXCEPT !.pre = IF mine THEN Later(@, WRITE_TO_PRE_DELAY) ELSE @]
       [] p.type \in {"READ_P", "WRITE_P"} ->
            IF ~mine THEN column
            ELSE [column EXCEPT !.st = "Idle",
                    !.act = Later(@, IF Write(p.type) THEN WRITE_AUTOPRE_DELAY ELSE READ_AUTOPRE_DELAY)]
       [] p.type = "ACTIVATE" ->
            IF mine THEN [bank EXCEPT !.st = "RowActive", !.act = T.tRC, !.row = p.a.row,
                                      !.write = T.tRCD, !.read = T.tRCD, !.pre = T.tRAS]
            ELSE [bank EXCEPT !.act = Later(@, T.tRRD)]
       [] p.type = "PRECHARGE" ->
            IF mine THEN [bank EXCEPT !.st = "Idle", !.act = Later(@, T.tRP)] ELSE bank
       [] p.type = "REFRESH" -> [bank EXCEPT !.act = T.tRFC]

\* the first part of MemoryController::update: the bank states settle, the
\* command on the bus and the data on the bus arrive, and write data starts
Bus ==
  /\ phase = "Bus"
  /\ bs' = [q \in DOMAIN bs |-> Settle(bs[q])]
  /\ cmd' = <<>>
  /\ IF cmd = <<>> THEN UNCHANGED <<rb, rwait, rret>>
     ELSE LET p == cmd[1] IN
          /\ rb' = [q \in DOMAIN rb |-> IF q[1] = p.a.rank THEN Received(p, q) ELSE rb[q]]
          /\ rwait' = IF p.type = "REFRESH" THEN rwait \ {p.a.rank} ELSE rwait
          /\ rret' = IF p.type \in {"READ", "READ_P"}
                     THEN [rret EXCEPT ![p.a.rank] = Append(@, <<p.a, RL>>)] ELSE rret
  /\ LET done == wbus # <<>> /\ wbus[2] = 1
         soon == [i \in DOMAIN writes |-> <<writes[i][1], writes[i][2] - 1>>]
         start == soon # <<>> /\ soon[1][2] = 0
         busy == wbus # <<>> /\ ~done
     IN /\ out' = IF done THEN [x \in DOMAIN out \ {wbus[1].addr} |-> out[x]] ELSE out
        /\ wbus' = CASE start -> <<soon[1][1], T.burst>>
                     [] ~start /\ busy -> <<wbus[1], wbus[2] - 1>>
                     [] OTHER -> <<>>
        /\ writes' = IF start THEN Tail(soon) ELSE soon
        /\ error' = (\/ error
                     \/ start /\ busy
                     \/ cmd # <<>> /\ ~Allowed(cmd[1])
                     \/ done /\ (wbus[1].addr \notin DOMAIN out \/ ~out[wbus[1].addr]))
  /\ phase' = "Refresh"
  /\ UNCHANGED <<build, queueVars, popVars, refreshVars, down, returns, rbus, work, age>>

\* the controller asks for a refresh, or has a rank wake up for one, and
\* CommandQueue::pop counts down the activation windows
Refresh ==
  /\ phase = "Refresh"
  /\ IF refreshCountdown[refreshRank] = 0
     THEN /\ refreshDue' = refreshRank
          /\ rwait' = rwait \cup {refreshRank}
          /\ refreshCountdown' = [refreshCountdown EXCEPT ![refreshRank] = T.refresh]
          /\ refreshRank' = (refreshRank + 1) % build.ranks
     ELSE /\ rwait' = IF refreshRank \in down /\ refreshCountdown[refreshRank] <= T.tXP
                      THEN rwait \cup {refreshRank} ELSE rwait
          /\ UNCHANGED <<refreshDue, refreshVars>>
  /\ tFAWCountdown' = [r \in Ranks |->
       SelectSeq([i \in DOMAIN tFAWCountdown[r] |-> tFAWCountdown[r][i] - 1], LAMBDA n : n > 0)]
  /\ phase' = "Pop"
  /\ UNCHANGED <<build, queueVars, bs, nextPos, prePos, rowAccessCounters, down, busVars, rb, rret, rbus, envVars, error>>

----------------------------------------------------------------------------
(* CommandQueue::pop chooses a packet; MemoryController::update issues it. *)

Packet(type, r, b) == [type |-> type, a |-> [addr |-> 0, rank |-> r, bank |-> b, row |-> 0, col |-> 0]]

\* mutant: the other banks of the rank are not held back after a column command
AfterColumnOwn(p, q) ==
  LET bank == bs[q]
      own == q = <<p.a.rank, p.a.bank>>
      closing == IF Write(p.type) THEN WRITE_AUTOPRE_DELAY ELSE READ_AUTOPRE_DELAY
  IN IF own /\ p.type \in {"READ_P", "WRITE_P"}
     THEN [bank EXCEPT !.act = Later(closing, @), !.auto = TRUE,
             !.count = IF Write(p.type) THEN WRITE_TO_PRE_DELAY ELSE READ_TO_PRE_DELAY,
             !.read = Later(closing, bank.act), !.write = Later(closing, bank.act)]
     ELSE [bank EXCEPT !.pre = IF own THEN Later(IF Write(p.type) THEN WRITE_TO_PRE_DELAY ELSE READ_TO_PRE_DELAY, @) ELSE @]

AfterColumn(p, q) ==
  LET bank == bs[q]
      own == q = <<p.a.rank, p.a.bank>>
      here == q[1] = p.a.rank
      same == Later(T.tCCD, T.burst)
      other == T.burst + T.tRTRS
      wr == Write(p.type)
      held == IF ~here /\ bank.st # "RowActive" THEN bank
              ELSE [bank EXCEPT
                !.read = Later(@, IF wr THEN (IF here THEN WRITE_TO_READ_DELAY_B ELSE WRITE_TO_READ_DELAY_R)
                                  ELSE IF here THEN same ELSE other),
                !.write = Later(@, IF wr THEN (IF here THEN same ELSE other) ELSE READ_TO_WRITE_DELAY)]
      closing == Later(bank.act, IF wr THEN WRITE_AUTOPRE_DELAY ELSE READ_AUTOPRE_DELAY)
      toPre == IF wr THEN WRITE_TO_PRE_DELAY ELSE READ_TO_PRE_DELAY
  IN CASE own /\ p.type \in {"READ_P", "WRITE_P"} ->
            [bank EXCEPT !.act = closing, !.auto = TRUE, !.count = toPre,
                         !.read = closing, !.write = closing]
       [] own /\ p.type \in {"READ", "WRITE"} -> [held EXCEPT !.pre = Later(@, toPre)]
       [] OTHER -> held

\* the controller's bank state q once p is issued
Issued(p, q) ==
  LET bank == bs[q]
      here == q[1] = p.a.rank
      own == q = <<p.a.rank, p.a.bank>>
  IN CASE Column(p.type) -> AfterColumn(p, q)
       [] p.type = "ACTIVATE" /\ own ->
            [bank EXCEPT !.st = "RowActive", !.row = p.a.row, !.act = Later(@, T.tRC),
                         !.pre = Later(@, T.tRAS), !.read = Later(@, T.tRCD), !.write = Later(@, T.tRCD)]
       [] p.type = "ACTIVATE" /\ here /\ ~own -> [bank EXCEPT !.act = Later(@, T.tRRD)]
       [] p.type = "PRECHARGE" /\ own ->
            [bank EXCEPT !.st = "Precharging", !.count = T.tRP, !.act = Later(@, T.tRP)]
       [] p.type = "REFRESH" /\ here ->
            [bank EXCEPT !.st = "Refreshing", !.count = T.tRFC, !.act = T.tRFC]
       [] OTHER -> bank

Issue(p) ==
  /\ bs' = [q \in DOMAIN bs |-> Issued(p, q)]
  /\ cmd' = <<p>>
  /\ error' = (error \/ cmd # <<>>)
  /\ writes' = IF Write(p.type) THEN Append(writes, <<p.a, WL>>) ELSE writes
  /\ phase' = "Schedule"
  /\ UNCHANGED <<build, tq, waiting, reads, refreshVars, down, wbus, returns, rankVars, envVars>>

\* the first bank that keeps rank r from being refreshed
Open(r, b) == bs[r, b].st = "RowActive"
Blocking(r) == {b \in Banks : Open(r, b) \/ bs[r, b].act > 0}

\* packets for the open row of bank b of rank r
ForRow(r, b) ==
  LET s == cq[Queue(r, b)]
  IN {i \in DOMAIN s : s[i].a.bank = b /\ s[i].a.row = bs[r, b].row}

\* what is sent to the rank that waits for its refresh: the refresh, or a
\* column command to the first open bank, or a precharge of it
RefreshChoice ==
  LET r == refreshDue
      blocking == Blocking(r)
      b == First(blocking)
      s == cq[Queue(r, b)]
      i == First(ForRow(r, b))
  IN CASE r = None -> <<"none">>
       [] r # None /\ blocking = {} ->
            IF bs[r, 0].st = "PowerDown" THEN <<"none">> ELSE <<"refresh">>
       [] r # None /\ blocking # {} ->
            CASE ~Open(r, b) -> <<"none">>
              [] Open(r, b) /\ ForRow(r, b) # {} /\ s[i].type # "ACTIVATE" ->
                   IF isIssuable(s[i]) THEN <<"column", r, b, i>> ELSE <<"none">>
              [] OTHER -> IF build.open /\ bs[r, b].pre = 0 THEN <<"precharge", r, b>> ELSE <<"none">>

\* whether the ith packet of queue s may be sent
MayGo(s, i) ==
  /\ isIssuable(s[i])
  /\ CASE build.open -> \A j \in 1 .. i - 1 : ~(/\ s[j].type # "ACTIVATE"
                                                /\ s[j].a.bank = s[i].a.bank
                                                /\ s[j].a.row = s[i].a.row)
       [] ~build.open /\ build.perBank -> i = 1
       [] ~build.open /\ ~build.perBank -> ~(i > 1 /\ s[i - 1].type = "ACTIVATE" /\ s[i - 1].a.addr = s[i].a.addr)

\* the turns of the round robin at which there is a packet to send
Ready(p) ==
  LET r == RankAt(p)
      s == cq[Queue(r, BankAt(p))]
  IN IF r = refreshDue THEN {} ELSE {i \in DOMAIN s : MayGo(s, i)}
Found == {k \in Turns : Ready(Turn(nextPos, k)) # {}}

\* mutant: whatever comes before is taken for the activation
RowHitAny(s, i) == build.open /\ i > 1

\* with an open row the activation queued for a column command is dropped
RowHit(s, i) == build.open /\ i > 1 /\ s[i - 1].type = "ACTIVATE"

\* mutant: a row with too many accesses is not closed
ClosableUnwanted(p) ==
  LET q == <<RankAt(p), BankAt(p)>>
  IN bs[q].st = "RowActive" /\ ForRow(q[1], q[2]) = {} /\ bs[q].pre = 0

\* banks to close: their row is open, and nobody waits for it or it was
\* accessed TOTAL_ROW_ACCESSES times
Closable(p) ==
  LET q == <<RankAt(p), BankAt(p)>>
  IN /\ bs[q].st = "RowActive"
     /\ ForRow(q[1], q[2]) = {} \/ rowAccessCounters[q] = TOTAL_ROW_ACCESSES
     /\ bs[q].pre = 0
ToClose == {k \in 0 .. Positions - 1 : Closable((prePos + k) % Positions)}

PopRefresh ==
  /\ phase = "Pop" /\ RefreshChoice[1] = "refresh"
  /\ Issue(Packet("REFRESH", refreshDue, 0))
  /\ refreshDue' = None
  /\ nextPos' = nextRankAndBank(nextPos)
  /\ UNCHANGED <<cq, prePos, rowAccessCounters, tFAWCountdown>>

PopBeforeRefresh ==
  /\ phase = "Pop" /\ RefreshChoice[1] \in {"column", "precharge"}
  /\ LET r == RefreshChoice[2]
         b == RefreshChoice[3]
         q == Queue(r, b)
     IN IF RefreshChoice[1] = "column"
        THEN /\ Issue(cq[q][RefreshChoice[4]])
             /\ cq' = [cq EXCEPT ![q] = RemoveAt(@, RefreshChoice[4])]
             /\ UNCHANGED rowAccessCounters
        ELSE /\ Issue(Packet("PRECHARGE", r, b))
             /\ rowAccessCounters' = [rowAccessCounters EXCEPT ![r, b] = 0]
             /\ UNCHANGED cq
  /\ nextPos' = nextRankAndBank(nextPos)
  /\ UNCHANGED <<refreshDue, prePos, tFAWCountdown>>

PopPacket ==
  /\ phase = "Pop" /\ RefreshChoice[1] = "none" /\ Found # {}
  /\ LET p == Turn(nextPos, First(Found))
         q == Queue(RankAt(p), BankAt(p))
         i == First(Ready(p))
         packet == cq[q][i]
     IN /\ Issue(packet)
        /\ cq' = [cq EXCEPT ![q] = IF RowHit(@, i) THEN RemoveAt(RemoveAt(@, i), i - 1)
                                                   ELSE RemoveAt(@, i)]
        /\ rowAccessCounters' = [rowAccessCounters EXCEPT
             ![packet.a.rank, packet.a.bank] = IF RowHit(cq[q], i) THEN @ + 1 ELSE @]
        /\ tFAWCountdown' = [tFAWCountdown EXCEPT
             ![packet.a.rank] = IF packet.type = "ACTIVATE" THEN Append(@, T.tFAW) ELSE @]
        /\ nextPos' = nextRankAndBank(p)
  /\ UNCHANGED <<refreshDue, prePos>>

PopPrecharge ==
  /\ phase = "Pop" /\ RefreshChoice[1] = "none" /\ Found = {}
  /\ build.open /\ ToClose # {}
  /\ LET p == (prePos + First(ToClose)) % Positions
     IN /\ Issue(Packet("PRECHARGE", RankAt(p), BankAt(p)))
        /\ rowAccessCounters' = [rowAccessCounters EXCEPT ![RankAt(p), BankAt(p)] = 0]
        /\ prePos' = p
  /\ nextPos' = nextRankAndBank(nextPos)
  /\ UNCHANGED <<cq, refreshDue, tFAWCountdown>>

PopNothing ==
  /\ phase = "Pop" /\ RefreshChoice[1] = "none" /\ Found = {}
  /\ ~build.open \/ ToClose = {}
  /\ phase' = "Schedule"
  /\ UNCHANGED <<build, queueVars, bs, popVars, refreshVars, down, busVars, rankVars, envVars, error>>

----------------------------------------------------------------------------
\* the first transaction whose queue has room is split into its commands
Schedule ==
  /\ phase = "Schedule"
  /\ LET fit == {i \in DOMAIN tq : hasRoomFor(2, addressMapping(tq[i].addr))}
         t == tq[First(fit)]
         a == addressMapping(t.addr)
         name == IF t.write THEN "WRITE" ELSE "READ"
     IN IF fit = {} THEN UNCHANGED <<tq, cq, reads>>
        ELSE /\ tq' = RemoveAt(tq, First(fit))
             /\ cq' = [cq EXCEPT ![Queue(a.rank, a.bank)] =
                  @ \o <<[type |-> "ACTIVATE", a |-> a],
                         [type |-> IF build.open THEN name ELSE name \o "_P", a |-> a]>>]
             /\ reads' = IF t.write THEN reads ELSE Append(reads, t.addr)
  /\ phase' = "Power"
  /\ UNCHANGED <<build, waiting, bs, popVars, refreshVars, down, busVars, rankVars, envVars, error>>

\* ranks to power down, and to power up
Sleepy == {r \in Ranks : isEmpty(r) /\ r \notin rwait /\ \A b \in Banks : bs[r, b].st = "Idle"}

\* mutant: a rank is woken for its commands only
WakefulForWork == {r \in down : ~isEmpty(r) /\ bs[r, 0].up = 0}
Wakeful == {r \in down : ~(isEmpty(r) /\ r \notin rwait) /\ bs[r, 0].up = 0}

Power ==
  /\ phase = "Power"
  /\ LET off == IF build.lowPower THEN Sleepy ELSE {}
         on == IF build.lowPower THEN Wakeful ELSE {}
         turn(bank, q) == CASE q[1] \in off -> [bank EXCEPT !.st = "PowerDown", !.up = T.tCKE]
                            [] q[1] \in on -> [bank EXCEPT !.st = "Idle", !.act = T.tXP]
                            [] OTHER -> bank
     IN /\ bs' = [q \in DOMAIN bs |-> turn(bs[q], q)]
        /\ rb' = [q \in DOMAIN rb |-> turn(rb[q], q)]
        /\ down' = (down \cup off) \ on
        /\ error' = (\/ error
                     \/ \E q \in DOMAIN rb : q[1] \in off /\ rb[q].st # "Idle"
                     \/ \E q \in DOMAIN rb : q[1] \in on /\ rb[q].up > 0)
  /\ phase' = "Return"
  /\ UNCHANGED <<build, queueVars, popVars, refreshVars, busVars, rret, rbus, rwait, envVars>>

Tick(bank) == [bank EXCEPT !.act = Sooner(@), !.read = Sooner(@), !.write = Sooner(@),
                           !.pre = Sooner(@), !.up = Sooner(@)]

\* one read is returned, and the clocks advance
Return ==
  /\ phase = "Return"
  /\ LET a == returns[1].addr
         match == {i \in DOMAIN reads : reads[i] = a}
     IN IF returns = <<>>
        THEN UNCHANGED <<returns, reads, out, error>>
        ELSE /\ returns' = Tail(returns)
             /\ reads' = IF match = {} THEN reads ELSE RemoveAt(reads, First(match))
             /\ out' = [x \in DOMAIN out \ {a} |-> out[x]]
             /\ error' = (error \/ match = {} \/ a \notin DOMAIN out \/ (a \in DOMAIN out /\ out[a]))
  /\ age' = CASE age = None -> None
              [] age # None /\ out' = <<>> /\ work = <<>> -> Answered
              [] OTHER -> age + 1
  /\ refreshCountdown' = [r \in Ranks |-> refreshCountdown[r] - 1]
  /\ bs' = [q \in DOMAIN bs |-> Tick(bs[q])]
  /\ rb' = [q \in DOMAIN rb |-> Tick(rb[q])]
  /\ phase' = "Add"
  /\ UNCHANGED <<build, tq, waiting, cq, popVars, refreshRank, down, cmd, writes, wbus, rret, rbus, rwait, work>>

Next ==
  \/ \E w \in build.work : Begin(w)
  \/ More \/ RankUpdate \/ Bus \/ Refresh \/ PopRefresh \/ PopBeforeRefresh \/ PopPacket
  \/ PopPrecharge \/ PopNothing \/ Schedule \/ Power \/ Return

Spec == Init /\ [][Next]_vars
----------------------------------------------------------------------------

\* None of the checks at which DRAMSim2 gives up is ever reached: a rank
\* receives every command only when its own clocks allow it, is put to sleep and
\* woken only when it may be, neither bus of the controller is used twice at a
\* time, and every answer matches a transaction that waits for it.  And the data
\* bus the ranks and the controller share carries one transfer at a time, which
\* nothing in the code tests: the delays the controller keeps between column
\* commands have to imply it.
DataBusFree ==
  /\ ~error
  /\ phase = "Add" =>
       Cardinality({r \in Ranks : rbus[r] # <<>>}) + (IF wbus # <<>> THEN 1 ELSE 0) <= 1

\* Every transaction the accelerator waits for is in one place: it is neither
\* dropped nor issued twice on its way through queues, buses and ranks.
Places(a, isWrite) ==
  LET in(s) == Cardinality({i \in DOMAIN s : s[i][1].addr = a})
      queued(s) == Cardinality({i \in DOMAIN s : s[i].addr = a})
      sent(s) == Cardinality({i \in DOMAIN s : s[i].a.addr = a /\ Column(s[i].type)})
      of(f(_), S) == FoldSet(LAMBDA x, n : n + f(x), 0, S)
  IN queued(tq) + queued(waiting) + of(LAMBDA q : sent(cq[q]), DOMAIN cq)
       + IF isWrite THEN in(writes) + (IF wbus # <<>> /\ wbus[1].addr = a THEN 1 ELSE 0)
         ELSE sent(cmd) + of(LAMBDA r : in(rret[r]), Ranks)
                + Cardinality({r \in Ranks : rbus[r] # <<>> /\ rbus[r][1].addr = a})
                + Cardinality({i \in DOMAIN returns : returns[i].addr = a})
Conserved == phase = "Add" => \A a \in DOMAIN out : Places(a, out[a]) = 1

\* A rank's refresh has been sent when the next rank's falls due: there is one
\* refreshRank, and a refresh still waiting then would never be sent.
RefreshOnTime ==
  phase = "Refresh" /\ refreshCountdown[refreshRank] = 0 => refreshDue = None

\* Every transaction is answered within the build's limit, in whatever rows and
\* banks the others are and whenever refreshes fall: none starves.
Prompt == age <= build.limit
=============================================================================
