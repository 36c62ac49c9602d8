------------------------------ MODULE BlockChain ------------------------------
(***************************************************************************)
(* The block chain of kernel/blockchain.go: what it keeps in the database, *)
(* what it keeps in memory, and how imports, mined blocks, rewinds, stops  *)
(* and crashes change both.                                                *)
(*                                                                         *)
(* Blocks are the nodes of a constant tree.  A block stands for its hash,  *)
(* its header, its body and its state root (roots are distinct).           *)
(*                                                                         *)
(* The database is not transactional: every write of an operation is a     *)
(* point at which the process can die.  An operation is therefore computed *)
(* on a record that carries, besides the database and the memory, the set  *)
(* `cuts' of the databases left behind by its writes so far.               *)
(***************************************************************************)
EXTENDS Integers, Sequences, FiniteSets, SequencesExt

CONSTANTS
    Block,          \* the blocks that exist anywhere on the network
    Genesis,
    Parent,         \* [Block \ {Genesis} -> Block]
    Difficulty,     \* [Block -> Nat \ {0}]
    Tx,             \* the transactions
    Txs,            \* [Block -> SUBSET Tx]
    Time,           \* [Block -> Nat], the time stamps
    Malformed,      \* blocks VerifyHeaders or ValidateBody refuse
    Invalid,        \* blocks Process or ValidateState refuse
    Preserved,      \* blocks shouldPreserve answers TRUE for
    Mined,          \* blocks the own miner may seal
    Segments,       \* the slices of blocks InsertChain is called with
    Rewinds,        \* the numbers SetHead is called with
    TriesInMemory,  \* triesInMemory, 128 in the code
    CacheDisabled,  \* cacheConfig.Disabled: an archive node
    MaxAhead,       \* maxTimeFutureBlocks
    MaxTime,        \* bound: the clock
    MaxRewinds,     \* bound: calls of SetHead
    MaxStops,       \* bound: orderly shutdowns
    MaxCrashes,     \* bound: crashes between two operations
    MaxCuts,        \* bound: crashes between two writes of an operation
    None            \* nil

ASSUME TreeAssumption ==
    /\ Genesis \in Block
    /\ IsFiniteSet(Block)
    /\ Parent \in [Block \ {Genesis} -> Block]
    /\ Difficulty \in [Block -> Nat \ {0}]
    /\ Txs \in [Block -> SUBSET Tx]
    /\ Time \in [Block -> Nat]
    /\ None \notin Block

ASSUME InputAssumption ==
    /\ Malformed \cup Invalid \cup Preserved \cup Mined \subseteq Block \ {Genesis}
    /\ \A s \in Segments : s \in Seq(Block \ {Genesis}) /\ s # <<>>
    /\ Rewinds \subseteq Nat
    /\ CacheDisabled \in BOOLEAN
    /\ TriesInMemory \in Nat \ {0}
    /\ {MaxAhead, MaxTime, MaxRewinds, MaxStops, MaxCrashes, MaxCuts} \subseteq Nat

VARIABLES
    db,       \* the database: what survives the process
    mem,      \* the heads, tries and operations in progress: what does not
    now,      \* the clock
    status,   \* "running", "stopping", "off", "panicked" or "failed"
    used      \* how much of each bound has been used

vars == <<db, mem, now, status, used>>

-----------------------------------------------------------------------------
(* The tree.                                                               *)

Number[b \in Block] == IF b = Genesis THEN 0 ELSE Number[Parent[b]] + 1

\* The block and its ancestors.
Path[b \in Block] == IF b = Genesis THEN {Genesis} ELSE {b} \cup Path[Parent[b]]

\* Total difficulty by definition; the code accumulates it in the database.
SumDifficulty[b \in Block] ==
    Difficulty[b] + (IF b = Genesis THEN 0 ELSE SumDifficulty[Parent[b]])

MaxNumber == CHOOSE n \in {Number[b] : b \in Block} :
                 \A b \in Block : Number[b] <= n

\* The block of a nonempty part of a chain with the highest number.
Highest(S) == CHOOSE b \in S : \A c \in S : Number[c] <= Number[b]

Ascending(S) == SetToSortSeq(S, LAMBDA b, c : Number[b] < Number[c])

NoTd == 0

-----------------------------------------------------------------------------
(* Reading.                                                                *)

\* GetBlock: a block can be read when both halves of it are stored.
Stored(d) == d.header \cap d.body

\* HasState: the root can be opened, from memory or from disk.
HasState(t, b) == b \in t.mem.tries \cup t.db.state

HasBlockAndState(t, b) == b \in Stored(t.db) /\ HasState(t, b)

-----------------------------------------------------------------------------
(* Writing.  Put is one write (or one atomic batch) to the database.       *)

Put(t, d) == [t EXCEPT !.db = d, !.cuts = @ \cup {d}]

WriteTd(t, b, td) == Put(t, [t.db EXCEPT !.td[b] = td])

\* rawdb.WriteBlock: the body first, then the header.
WriteBlock(t, b) ==
    LET u == Put(t, [t.db EXCEPT !.body = @ \cup {b}])
    IN  Put(u, [u.db EXCEPT !.header = @ \cup {b}])

WriteTxLookupEntries(t, b) ==
    Put(t, [t.db EXCEPT !.lookup =
                [x \in Tx |-> IF x \in Txs[b] THEN b ELSE @[x]]])

SetCurrentHeader(t, b) ==
    [Put(t, [t.db EXCEPT !.headHeader = b]) EXCEPT !.mem.header = b]

WriteHeadBlockHash(t, b) == Put(t, [t.db EXCEPT !.headBlock = b])

WriteHeadFastBlockHash(t, b) == Put(t, [t.db EXCEPT !.headFast = b])

\* insert: b becomes the head; the header and fast heads follow only when b
\* was not canonical already.
insert(t, b) ==
    LET c == Put(t, [t.db EXCEPT !.canon[Number[b]] = b])
        h == [WriteHeadBlockHash(c, b) EXCEPT !.mem.block = b]
    IN  IF t.db.canon[Number[b]] = b
        THEN h
        ELSE [WriteHeadFastBlockHash(SetCurrentHeader(h, b), b)
                EXCEPT !.mem.fast = b]

\* reorg's last batch: transactions only the old chain had lose their entry.
DropLookups(t, oldChain, newChain) ==
    LET diff == UNION {Txs[b] : b \in oldChain} \ UNION {Txs[b] : b \in newChain}
    IN  Put(t, [t.db EXCEPT !.lookup =
                    [x \in Tx |-> IF x \in diff THEN None ELSE @[x]]])

\* Mutant: the new chain becomes canonical without its lowest block.
ReorgInsertsTop(newChain) == Tail(Ascending(newChain))

\* The blocks reorg makes canonical, lowest first.
ReorgInserts(newChain) == Ascending(newChain)

\* Every block reorg walks over is there.
Walked(t, blocks) == blocks \subseteq Stored(t.db)

\* reorg: walk both branches down to their common block, then make the new
\* branch canonical from there upwards.
reorg(t, old, new) ==
    LET common   == Highest(Path[old] \cap Path[new])
        oldChain == Path[old] \ Path[common]
        newChain == Path[new] \ Path[common]
        walked   == (oldChain \ {old}) \cup (newChain \ {new}) \cup {common}
    IN  IF Walked(t, walked)
        THEN DropLookups(FoldLeft(LAMBDA u, b : WriteTxLookupEntries(insert(u, b), b),
                                  t, ReorgInserts(newChain)),
                         oldChain, newChain)
        ELSE [t EXCEPT !.res = "error"]

-----------------------------------------------------------------------------
(* WriteBlockWithState.                                                    *)

\* The loop over triegc: roots up to number `chosen' are dereferenced.
Collect(t, chosen) ==
    LET drop == {b \in t.mem.gc : Number[b] <= chosen}
    IN  [t EXCEPT !.mem.gc = @ \ drop, !.mem.tries = @ \ drop]

\* The state of b: straight to disk on an archive node, else into memory,
\* with the canonical state TriesInMemory below it flushed when the processing
\* time since the last flush is used up (`flush') and older ones collected.
CommitState(t, b, flush) ==
    LET chosen == Number[b] - TriesInMemory
        header == t.db.canon[chosen]
        held   == [t EXCEPT !.mem.tries = @ \cup {b}, !.mem.gc = @ \cup {b}]
    IN  IF CacheDisabled THEN Put(t, [t.db EXCEPT !.state = @ \cup {b}])
        ELSE IF chosen <= 0 THEN held
        ELSE IF header \notin t.db.header THEN [held EXCEPT !.res = "panic"]
        ELSE Collect(IF flush /\ header \in held.mem.tries
                     THEN Put(held, [held.db EXCEPT !.state = @ \cup {header}])
                     ELSE held,
                     chosen)

\* Mutant: the longest chain wins.
ReorgByNumber(t, b, externTd, coin) == Number[b] > Number[t.mem.block]

\* Mutant: equal total difficulty is enough.
ReorgOnTie(t, b, externTd, coin) == externTd >= t.db.td[t.mem.block]

\* The fork choice.  `coin' is the outcome of mrand.Float64() < 0.5.
Reorg(t, b, externTd, coin) ==
    LET current == t.mem.block
        localTd == t.db.td[current]
    IN  \/ externTd > localTd
        \/ /\ externTd = localTd
           /\ \/ Number[b] < Number[current]
              \/ /\ Number[b] = Number[current]
                 /\ current \notin Preserved
                 /\ b \in Preserved \/ coin

\* Mutant: the block stays among the future blocks.
NoLongerFutureKept(t, b) == t

\* An imported block is not a future block any more.
NoLongerFuture(t, b) == [t EXCEPT !.mem.future = @ \ {b}]

\* Mutant: the block is stored after it has become the head.
WriteBlockWithStateLate(t, b, ptd, flush, coin) ==
    LET externTd == ptd + Difficulty[b]
        w == CommitState(WriteTd(t, b, externTd), b, flush)
        canonical == Reorg(t, b, externTd, coin)
        r == IF canonical /\ Parent[b] # t.mem.block
             THEN reorg(w, t.mem.block, b) ELSE w
        i == IF canonical THEN insert(WriteTxLookupEntries(r, b), b) ELSE r
    IN  IF w.res # "ok" THEN w
        ELSE IF r.res # "ok" THEN r
        ELSE WriteBlock(NoLongerFuture(i, b), b)

\* The part of WriteBlockWithState under bc.mu; ptd was read before the lock.
WriteBlockWithState(t, b, ptd, flush, coin) ==
    LET externTd == ptd + Difficulty[b]
        w == CommitState(WriteBlock(WriteTd(t, b, externTd), b), b, flush)
        canonical == Reorg(t, b, externTd, coin)
        r == IF canonical /\ Parent[b] # t.mem.block
             THEN reorg(w, t.mem.block, b) ELSE w
        i == IF canonical THEN insert(WriteTxLookupEntries(r, b), b) ELSE r
    IN  IF w.res # "ok" THEN w
        ELSE IF r.res # "ok" THEN r
        ELSE NoLongerFuture(i, b)

-----------------------------------------------------------------------------
(* insertChain.                                                            *)

Idle == [pc |-> "idle", chain |-> <<>>, index |-> 0, ptd |-> NoTd]

\* ValidateBody.
ValidateBody(t, b) ==
    CASE HasBlockAndState(t, b)         -> "known"
      [] b \in Malformed                -> "bad"
      [] HasBlockAndState(t, Parent[b]) -> "ok"
      [] Parent[b] \in t.db.body        -> "pruned"
      [] OTHER                          -> "unknown"

\* insertIterator.next: the engine's verdict on the header, then the body's.
next(t, chain, i) ==
    LET b == chain[i]
    IN  CASE i = 1 /\ Parent[b] \notin t.db.header -> "unknown"
          [] b \in t.db.header                     -> ValidateBody(t, b)
          [] Time[b] > now                         -> "future"
          [] b \in Malformed                       -> "bad"
          [] OTHER                                 -> ValidateBody(t, b)

\* addFutureBlock for chain[i], and for the blocks after it as long as the
\* only thing wrong with them is their parent.
QueueFuture(t, chain, i) ==
    LET queued == {k \in i..Len(chain) : \A j \in i..k :
                      /\ j = i \/ next(t, chain, j) = "unknown"
                      /\ Time[chain[j]] <= now + MaxAhead}
    IN  [t EXCEPT !.mem.future = @ \cup {chain[k] : k \in queued}]

\* The loop of insertChain at chain[i]: execute the block and read its
\* parent's total difficulty, up to the lock of WriteBlockWithState.
Loop(t, chain, i) ==
    IF i > Len(chain) THEN t
    ELSE LET b == chain[i]
             r == next(t, chain, i)
         IN  CASE r = "future" -> QueueFuture(t, chain, i)
               [] /\ r = "ok"
                  /\ status = "running"
                  /\ b \notin Invalid
                  /\ t.db.td[Parent[b]] # NoTd ->
                     [t EXCEPT !.mem.imp = [pc |-> "write", chain |-> chain, index |-> i,
                                        ptd |-> t.db.td[Parent[b]]]]
               [] OTHER -> t

\* insertSidechain stores a run of blocks whose ancestors' state is pruned:
\* `td' is externTd, `upto' the last block of the run, `ghost' that a block is
\* itself the canonical one (it has the canonical root), which is refused.
SideStep(s, chain, k) ==
    LET b  == chain[k]
        td == s.td + Difficulty[b]
    IN  CASE s.done \/ (k > 1 /\ next(s.t, chain, k) # "pruned") ->
                [s EXCEPT !.done = TRUE]
          [] /\ Number[s.t.mem.block] >= Number[b]
             /\ s.t.db.canon[Number[b]] = b
             /\ b \in Stored(s.t.db) -> [s EXCEPT !.done = TRUE, !.ghost = TRUE]
          [] b \in s.t.db.body -> [s EXCEPT !.td = td, !.upto = b]
          [] OTHER -> [s EXCEPT !.td = td, !.upto = b,
                                !.t = WriteBlock(WriteTd(s.t, b, td), b)]

\* insertSidechain.  The iterator has no current block when the chain has one
\* block only: externTd stays nil and the comparison with it panics.
insertSidechain(t, chain) ==
    LET s == FoldLeft(LAMBDA u, k : SideStep(u, chain, k),
                      [t |-> t, td |-> t.db.td[Parent[chain[1]]], upto |-> None,
                       done |-> FALSE, ghost |-> FALSE],
                      [k \in 1..Len(chain) |-> k])
        base == Highest({b \in Path[s.upto] : HasState(s.t, b)})
        todo == Path[s.upto] \ Path[base]
    IN  IF Len(chain) = 1 THEN [t EXCEPT !.res = "panic"]
        ELSE IF \/ s.ghost
                \/ s.t.db.td[s.t.mem.block] > s.td
                \/ ~ (todo \cup {base} \subseteq s.t.db.header) THEN s.t
        ELSE IF ~ (todo \subseteq s.t.db.body) THEN [s.t EXCEPT !.res = "panic"]
        ELSE Loop(s.t, Ascending(todo), 1)

\* insertChain up to the first block it has to execute.
insertChain(t, chain) ==
    LET r    == next(t, chain, 1)
        fresh == {i \in 1..Len(chain) :
                    ~ (/\ next(t, chain, i) = "known"
                       /\ Number[t.mem.block] >= Number[chain[i]])}
        first == IF fresh = {} THEN Len(chain) + 1
                 ELSE CHOOSE i \in fresh : \A j \in fresh : i <= j
    IN  CASE r = "pruned" -> insertSidechain(t, chain)
          [] r = "future" \/ (r = "unknown" /\ Parent[chain[1]] \in t.mem.future) ->
             QueueFuture(t, chain, 1)
          [] r = "known" -> Loop(t, chain, first)
          [] OTHER -> Loop(t, chain, 1)

-----------------------------------------------------------------------------
(* SetHead, loadLastState and Stop.                                        *)

\* Mutant: repair takes the parent without asking whether it has state.
repairOnce(t, b) == IF HasState(t, b) \/ b = Genesis THEN b ELSE Parent[b]

\* repair: the nearest block at or below b whose state can be opened, or None
\* when a block on the way is missing.
repair(t, b) ==
    LET good == Highest({x \in Path[b] : HasState(t, x)})
    IN  IF (Path[b] \ Path[good]) \cup {good} \subseteq Stored(t.db) THEN good ELSE None

\* The fast head: the stored one if there is such a block, else the head.
FastHead(t, block) == IF t.db.headFast \in Stored(t.db) THEN t.db.headFast ELSE block

\* loadLastState.  A missing head block leads to Reset, which cannot run here:
\* at start there is no current block to read, and in SetHead bc.mu is held.
loadLastState(t) ==
    LET head  == t.db.headBlock
        block == repair(t, head)
        top   == IF t.db.headHeader \in t.db.header THEN t.db.headHeader ELSE block
    IN  IF head \notin Stored(t.db) \/ block = None
        THEN [t EXCEPT !.res = "failed"]
        ELSE [SetCurrentHeader(t, top) EXCEPT !.mem.block = block,
                                         !.mem.fast = FastHead(t, block)]

\* The canonical hashes HeaderChain.SetHead deletes.
Unindex(canon, n, height) ==
    [i \in DOMAIN canon |-> IF i \in (n + 1)..height THEN None ELSE canon[i]]

\* HeaderChain.SetHead: delete the header chain above number n.
SetHeadHeader(t, n) ==
    LET top   == t.mem.header
        above == {b \in Path[top] : Number[b] > n}
        gone  == {b \in above : Path[top] \ Path[b] \subseteq t.db.header /\ b \in t.db.header}
        under == Path[top] \ above
        head  == IF gone = above /\ Highest(under) \in t.db.header
                 THEN Highest(under) ELSE Genesis
        d == Put(t, [t.db EXCEPT !.header = @ \ gone, !.body = @ \ gone,
                                 !.td = [b \in Block |-> IF b \in gone THEN NoTd ELSE @[b]],
                                 !.canon = Unindex(@, n, Number[top])])
    IN  SetCurrentHeader(d, head)

\* The head block and the head fast block a rewind stores.
WriteHeads(t, block, fast) ==
    WriteHeadFastBlockHash(WriteHeadBlockHash(t, block), fast)

\* SetHead: rewind the headers, then pull the block and fast heads down.
SetHeadTo(t, n) ==
    LET h     == SetHeadHeader(t, n)
        top   == h.mem.header
        pull(b) == IF Number[top] >= Number[b] THEN b
                   ELSE IF top \in Stored(h.db) THEN top ELSE Genesis
        block == IF HasState(h, pull(t.mem.block)) THEN pull(t.mem.block) ELSE Genesis
        fast  == pull(t.mem.fast)
        m     == [h EXCEPT !.mem.block = block, !.mem.fast = fast, !.mem.future = {}]
    IN  loadLastState(WriteHeads(m, block, fast))

\* Stop commits the states of three recent canonical blocks to disk.
FlushOnStop(t) ==
    LET number == Number[t.mem.block]
        recent == {t.db.canon[number - o] :
                      o \in {x \in {0, 1, TriesInMemory - 1} : number > x}}
    IN  IF CacheDisabled THEN t
        ELSE IF ~ (recent \subseteq Stored(t.db)) THEN [t EXCEPT !.res = "panic"]
        ELSE FoldLeft(LAMBDA u, b : Put(u, [u.db EXCEPT !.state = @ \cup {b}]),
                      t, Ascending(recent \cap t.mem.tries))

-----------------------------------------------------------------------------
(* The specification.                                                      *)

\* The memory of a process that has not started.  `imp' is insertChain in
\* progress (it holds chainmu), `tasks' the blocks the worker has handed to the
\* engine, `miner' a sealed one on its way into WriteBlockWithState with the
\* total difficulty read for it, `futq' what procFutureBlocks still inserts.
Down == [block |-> None, header |-> None, fast |-> None,
         tries |-> {}, gc |-> {}, future |-> {}, imp |-> Idle,
         tasks |-> {}, miner |-> [block |-> None, ptd |-> NoTd], futq |-> {}]

\* What Genesis.Commit leaves in an empty database.
FreshDb ==
    [header |-> {Genesis}, body |-> {Genesis}, state |-> {Genesis},
     td |-> [b \in Block |-> IF b = Genesis THEN Difficulty[b] ELSE NoTd],
     canon |-> [n \in 0..MaxNumber |-> IF n = 0 THEN Genesis ELSE None],
     lookup |-> [x \in Tx |-> None],
     headBlock |-> Genesis, headHeader |-> Genesis, headFast |-> None]

Start(u) ==
    /\ db = FreshDb
    /\ mem = Down
    /\ now = 0
    /\ status = "off"
    /\ used = u

Unused == [rewinds |-> 0, stops |-> 0, crashes |-> 0, cuts |-> 0]

Init == Start(Unused)

Alive == status \in {"running", "stopping"}

Begin == [db |-> db, mem |-> mem, res |-> "ok", cuts |-> {}]

\* The process is gone: only the database is left.
Dies(how) == mem' = Down /\ status' = how

\* The operation runs to its end, or to the panic it ends in.
Completes(t) ==
    /\ db' = t.db
    /\ \/ /\ t.res \in {"ok", "error"}
          /\ mem' = t.mem
          /\ status' = IF Alive THEN status ELSE "running"
       \/ /\ t.res \in {"panic", "failed"}
          /\ Dies(IF t.res = "panic" THEN "panicked" ELSE "failed")

\* The operation completes, or the process dies after one of its writes; u is
\* what the operation leaves of the bounds.
RunsUsing(t, u) ==
    /\ UNCHANGED now
    /\ \/ Completes(t) /\ used' = u
       \/ /\ used.cuts < MaxCuts
          /\ used' = [u EXCEPT !.cuts = @ + 1]
          /\ db' \in t.cuts
          /\ Dies("off")

Runs(t) == RunsUsing(t, used)

\* NewBlockChain on the database the last process left.
Restart ==
    /\ status = "off"
    /\ Runs(loadLastState(Begin))

\* The operator sees a panicked process; its restart counts as a crash.
Recover ==
    /\ status = "panicked"
    /\ used.crashes < MaxCrashes
    /\ used' = [used EXCEPT !.crashes = @ + 1]
    /\ status' = "off"
    /\ UNCHANGED <<db, mem, now>>

\* InsertChain, called with a contiguous slice of blocks.
InsertChain(chain) ==
    /\ status = "running"
    /\ mem.imp = Idle
    /\ \A i \in 2..Len(chain) : Parent[chain[i]] = chain[i - 1]
    /\ Runs(insertChain(Begin, chain))

\* insertChain calls WriteBlockWithState for the block it has executed.
ImportWrites(flush, coin) ==
    LET i == mem.imp
        t == WriteBlockWithState(Begin, i.chain[i.index], i.ptd, flush, coin)
    IN  /\ i.pc = "write"
        /\ Runs([t EXCEPT !.mem.imp =
                    IF t.res # "ok" \/ i.index = Len(i.chain) THEN Idle
                    ELSE [i EXCEPT !.pc = "next", !.index = @ + 1, !.ptd = NoTd]])

\* insertChain goes on to the next block.
ImportNext ==
    /\ mem.imp.pc = "next"
    /\ Completes(Loop([Begin EXCEPT !.mem.imp = Idle], mem.imp.chain, mem.imp.index))
    /\ UNCHANGED <<now, used>>

\* The worker starts sealing a block on top of the current head.
CommitWork(b) ==
    /\ status = "running"
    /\ Parent[b] = mem.block
    /\ b \notin mem.tasks
    /\ mem' = [mem EXCEPT !.tasks = @ \union {b}]
    /\ UNCHANGED <<db, now, status, used>>

\* The worker's resultLoop gets a sealed block it does not have yet, and calls
\* WriteBlockWithState, which reads the parent's total difficulty.
BlockSealed(b) ==
    /\ Alive
    /\ b \in mem.tasks
    /\ mem.miner.block = None
    /\ mem' = [mem EXCEPT !.tasks = @ \ {b},
                          !.miner = IF b \in db.body \/ db.td[Parent[b]] = NoTd
                                    THEN @ ELSE [block |-> b, ptd |-> db.td[Parent[b]]]]
    /\ UNCHANGED <<db, now, status, used>>

\* WriteBlockWithState gets the lock for the mined block.
MinerWrites(flush, coin) ==
    /\ mem.miner.block # None
    /\ Runs([WriteBlockWithState(Begin, mem.miner.block, mem.miner.ptd, flush, coin)
                EXCEPT !.mem.miner = Down.miner])

\* The timer of update(): procFutureBlocks takes the blocks queued now.
FutureTimer ==
    /\ status = "running"
    /\ mem.futq = {} /\ mem.future # {}
    /\ mem' = [mem EXCEPT !.futq = mem.future]
    /\ UNCHANGED <<db, now, status, used>>

\* procFutureBlocks inserts its blocks one by one, by number.
InsertFuture ==
    /\ status = "running"
    /\ mem.imp = Idle
    /\ \E b \in mem.futq :
          /\ \A c \in mem.futq : Number[b] <= Number[c]
          /\ Runs(insertChain([Begin EXCEPT !.mem.futq = @ \ {b}], <<b>>))

\* SetHead holds bc.mu but not chainmu: it runs between any two steps above.
SetHead(n) ==
    /\ status = "running"
    /\ used.rewinds < MaxRewinds
    /\ RunsUsing(SetHeadTo(Begin, n), [used EXCEPT !.rewinds = @ + 1])

\* Stop interrupts the imports ...
StopRequested ==
    /\ status = "running"
    /\ used.stops < MaxStops
    /\ status' = "stopping"
    /\ used' = [used EXCEPT !.stops = @ + 1]
    /\ UNCHANGED <<db, mem, now>>

\* ... waits for the writers, and flushes the recent states.
Stop ==
    /\ status = "stopping"
    /\ mem.imp = Idle /\ mem.miner.block = None
    /\ LET t == FlushOnStop(Begin)
       IN  /\ db' = t.db
           /\ Dies(IF t.res = "panic" THEN "panicked" ELSE "off")
    /\ UNCHANGED <<now, used>>

\* The process is killed between two operations.
Crash ==
    /\ Alive
    /\ used.crashes < MaxCrashes
    /\ used' = [used EXCEPT !.crashes = @ + 1]
    /\ Dies("off")
    /\ UNCHANGED <<db, now>>

Tick ==
    /\ now < MaxTime
    /\ now' = now + 1
    /\ UNCHANGED <<db, mem, status, used>>

Next ==
    \/ Restart
    \/ Recover
    \/ \E chain \in Segments : InsertChain(chain)
    \/ \E flush, coin \in BOOLEAN : ImportWrites(flush, coin)
    \/ ImportNext
    \/ \E b \in Mined : CommitWork(b)
    \/ \E b \in Mined : BlockSealed(b)
    \/ \E flush, coin \in BOOLEAN : MinerWrites(flush, coin)
    \/ FutureTimer
    \/ InsertFuture
    \/ \E n \in Rewinds : SetHead(n)
    \/ StopRequested
    \/ Stop
    \/ Crash
    \/ Tick

Spec == Init /\ [][Next]_vars

\* Time passes, update() keeps running, and started imports go on.  The last
\* three conjuncts are weak fairness of ImportWrites, ImportNext and
\* InsertFuture: each is enabled exactly in the states named, and takes the
\* system out of them after finitely many steps.
FairSpec ==
    /\ Spec
    /\ WF_vars(Tick)
    /\ WF_vars(FutureTimer)
    /\ []<>(mem.imp.pc # "write")
    /\ []<>(mem.imp.pc # "next")
    /\ []<>~ (status = "running" /\ mem.imp = Idle /\ mem.futq # {})

-----------------------------------------------------------------------------
(* Properties.                                                             *)

\* The database, the memory and the bounds have the shapes the operations
\* above give them.
TypeOK ==
    LET MaybeBlock == Block \cup {None}
        Import == [pc : {"idle", "write", "next"}, chain : Seq(Block),
                   index : Nat, ptd : Nat]
    IN  /\ db.header \cup db.body \cup db.state \subseteq Block
        /\ db.td \in [Block -> Nat]
        /\ db.canon \in [0..MaxNumber -> MaybeBlock]
        /\ db.lookup \in [Tx -> MaybeBlock]
        /\ db.headBlock \in Block
        /\ {db.headHeader, db.headFast} \subseteq MaybeBlock
        /\ {mem.block, mem.header, mem.fast, mem.miner.block} \subseteq MaybeBlock
        /\ mem.tries \cup mem.gc \cup mem.future \cup mem.tasks \cup mem.futq \subseteq Block
        /\ mem.imp \in Import
        /\ Alive => None \notin {mem.block, mem.header, mem.fast}
        /\ now \in 0..MaxTime
        /\ status \in {"running", "stopping", "off", "panicked", "failed"}

\* Whatever the interleaving of imports, mined blocks and rewinds, and wherever
\* the process died before, the current block and all its ancestors can be read
\* with the total difficulty the tree gives them: a block is never made head
\* (WriteBlockWithState, insert, SetHead, repair) on top of a missing one.
HeadStored ==
    Alive => \A b \in Path[mem.block] :
                b \in Stored(db) /\ db.td[b] = SumDifficulty[b]

\* A database left by a stop, or by a crash between any two writes, is one
\* loadLastState can start from: the head block is there, and repair finds a
\* block with state without running into a gap.
StartupSucceeds == status # "failed"

\* The canonical hash of every number up to the head's is the head's ancestor:
\* walking GetBlockByNumber down from the head follows parent hashes (insert
\* and reorg keep the number index in step with the head).
CanonicalLinked ==
    Alive => \A b \in Path[mem.block] : db.canon[Number[b]] = b

\* A node that imports full blocks has one head: the current header and the
\* current fast block are the current block (updateHeads in insert), in memory
\* and in the database.
HeadsAgree ==
    Alive => /\ mem.header = mem.block /\ mem.fast = mem.block
             /\ db.headBlock = mem.block /\ db.headHeader = mem.block

\* The lookup entry of a transaction names the canonical block that contains
\* it, and a transaction no canonical block contains has no entry: reorg moves
\* the entries of both branches, whatever they have in common.
LookupsExact ==
    Alive => \A x \in Tx :
        LET holders == {b \in Path[mem.block] : x \in Txs[b]}
        IN  IF holders = {} THEN db.lookup[x] = None ELSE db.lookup[x] \in holders

\* No block that was ever executed beats the head: the fork choice of
\* WriteBlockWithState never leaves a heavier block on the side, even when the
\* miner and insertChain write in turn or a pruned side chain is re-executed.
HeaviestIsHead ==
    Alive => \A b \in Stored(db) :
                HasState(Begin, b) => db.td[b] <= db.td[mem.block]

\* The collector of WriteBlockWithState takes the head's state away only when a
\* block TriesInMemory above the head has been written.
HeadHasState ==
    Alive => \/ HasState(Begin, mem.block)
             \/ \E b \in db.body : Number[b] >= Number[mem.block] + TriesInMemory

\* The head moves to another block only for more total difficulty, or for as
\* much at no greater height; only SetHead and a restart take it back.
HeadNeverLighter ==
    [][(Alive /\ Alive' /\ mem'.block # mem.block /\ used'.rewinds = used.rewinds) =>
         \/ db'.td[mem'.block] > db.td[mem.block]
         \/ /\ db'.td[mem'.block] = db.td[mem.block]
            /\ Number[mem'.block] <= Number[mem.block]]_vars

\* A block put aside because its time had not come does not stay there: once
\* its time is reached, procFutureBlocks imports it, after its ancestors that
\* wait there too.
FutureImported ==
    \A b \in Block \ {Genesis} :
        Path[b] \cap (Malformed \cup Invalid) = {} =>
            (b \in mem.future ~> b \notin mem.future)

============================================================================
