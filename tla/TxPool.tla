------------------------------- MODULE TxPool -------------------------------
(***************************************************************************)
(* The transaction pool (kernel/tx_pool.go, tx_list.go, tx_journal.go):    *)
(* executable and queued transactions per account, the price heap with its *)
(* lazily dropped entries, the nonces of the managed state, the journal of *)
(* local transactions, and the loop that follows the head of the chain.    *)
(*                                                                         *)
(* Representation.  A transaction is a record [from, nonce, price, cost,   *)
(* gas] and is its own hash.  A txList is a set of transactions with       *)
(* different nonces and the two caps that let Filter return early; a list  *)
(* that Go deletes is the empty list.  The price heap is a bag: a          *)
(* transaction that comes back while its stale entry is still there is in  *)
(* it twice.  Where Go ranges over a map, the model goes by nonce or by    *)
(* account: the order decides only which stale entries a reheap finds.     *)
(***************************************************************************)
EXTENDS Integers, Sequences, FiniteSets, SequencesExt, FiniteSetsExt, BagsExt

CONSTANTS
    Address,      \* sender accounts, numbered
    Tx,           \* the transactions
    Locals,       \* config.Locals
    NoLocals,     \* config.NoLocals
    Batches,      \* the slices of transactions peers and users hand in
    Prices,       \* the thresholds SetGasPrice is called with
    PriceLimit, PriceBump, AccountSlots, GlobalSlots, AccountQueue,
    GlobalQueue, Lifetime,                          \* the rest of config
    DeepReorg,    \* 64: longer reorganisations do not reinject
    Block, Genesis, Parent, Number,
    BlockTxs,     \* the transactions of a block, in order
    Balance,      \* Balance[b][a]: funds of a in the state of b
    GasLimit,     \* GasLimit[b]
    Unavailable,  \* blocks whose state StateAt fails to read
    MaxAdds, MaxMoves, MaxPriceChanges, MaxTime, MaxRestarts  \* bounds

VARIABLES
    pool,   \* the fields of the pool that mu guards, and the journal file
    head,   \* loop's local variable head
    chain,  \* the current block of the chain
    feed,   \* pool.chainHeadCh
    now,    \* the clock; 0 is Go's zero time
    used    \* how much of each bound is used up

vars == <<pool, head, chain, feed, now, used>>

NoList == [txs |-> {}, costcap |-> 0, gascap |-> 0]

\* What the instances owe the model: distinct blocks and transactions are
\* told apart by the fields the code orders them by.
ConstantsOK ==
    /\ AccountSlots >= 1 /\ PriceLimit >= 1 /\ PriceBump >= 1
    /\ \A t, u \in Tx : t.price = u.price /\ t.nonce = u.nonce => t = u

-----------------------------------------------------------------------------
(***************************************************************************)
(* The chain the pool looks at.                                            *)
(***************************************************************************)

RECURSIVE Ancestors(_)
Ancestors(b) == {b} \cup IF b = Genesis THEN {} ELSE Ancestors(Parent[b])

\* StateDB.GetNonce in the state of each block.
Nonces ==
    [b \in Block |-> [a \in Address |->
        MapThenSumSet(LAMBDA c : Len(SelectSeq(BlockTxs[c], LAMBDA t : t.from = a)),
                      Ancestors(b))]]

\* The transactions of the blocks from b down to the chain of other.
RECURSIVE TxsDownTo(_, _)
TxsDownTo(b, other) ==
    IF b \in Ancestors(other) THEN << >>
    ELSE BlockTxs[b] \o TxsDownTo(Parent[b], other)

\* What reset hands back to the pool when the head moves from old to new.
Reinjected(old, new) ==
    LET depth == IF Number[old] > Number[new] THEN Number[old] - Number[new]
                                              ELSE Number[new] - Number[old]
        included == ToSet(TxsDownTo(new, old))
    IN  IF (new # Genesis /\ Parent[new] = old) \/ depth > DeepReorg THEN << >>
        ELSE SelectSeq(TxsDownTo(old, new), LAMBDA t : t \notin included)

-----------------------------------------------------------------------------
(***************************************************************************)
(* txList.                                                                 *)
(***************************************************************************)

ByNonce(S) == SetToSortSeq(S, LAMBDA t, u : t.nonce < u.nonce)

At(l, nonce) == {t \in l.txs : t.nonce = nonce}

\* txList.Add refuses a replacement that does not pay the price bump.
Accepts(l, t) ==
    \A old \in At(l, t.nonce) :
        /\ old.price < t.price
        /\ (old.price * (100 + PriceBump)) \div 100 <= t.price

Put(l, t) == [txs     |-> (l.txs \ At(l, t.nonce)) \cup {t},
              costcap |-> Max({l.costcap, t.cost}),
              gascap  |-> Max({l.gascap, t.gas})]

Without(l, S) == IF l.txs \subseteq S THEN NoList ELSE [l EXCEPT !.txs = @ \ S]

Forward(l, nonce) == {t \in l.txs : t.nonce < nonce}

\* txList.Filter: nothing when the caps are within the limits; else the
\* transactions beyond them, and the caps lowered to the limits.
Unpayable(l, funds, gas) ==
    IF l.costcap <= funds /\ l.gascap <= gas THEN {}
    ELSE {t \in l.txs : t.cost > funds \/ t.gas > gas}

Recap(l, funds, gas) ==
    IF l.costcap <= funds /\ l.gascap <= gas THEN l
    ELSE [l EXCEPT !.costcap = funds, !.gascap = gas]

\* txSortedMap.Ready: the run of nonces from the lowest, if it has come up.
Ready(l, start) ==
    IF l.txs = {} THEN {}
    ELSE LET lowest == Min({t.nonce : t \in l.txs})
         IN  IF lowest > start THEN {}
             ELSE {t \in l.txs : \A n \in lowest..t.nonce : At(l, n) # {}}

\* txSortedMap.Cap: all but the lowest nonces.
Beyond(l, size) ==
    {t \in l.txs : Cardinality({u \in l.txs : u.nonce < t.nonce}) >= size}

-----------------------------------------------------------------------------
(***************************************************************************)
(* txLookup and txPricedList.                                              *)
(***************************************************************************)

\* txPricedList.Removed: one more stale entry; a heap that is more than a
\* quarter stale is built anew from all.
Removed(p) ==
    IF p.stales + 1 <= BagCardinality(p.items) \div 4
    THEN [p EXCEPT !.stales = @ + 1]
    ELSE [p EXCEPT !.stales = 0, !.items = SetToBag(p.all)]

Forget(p, t) == Removed([p EXCEPT !.all = @ \ {t}])

Enter(p, t) ==
    IF t \in p.all THEN p
    ELSE [p EXCEPT !.all = @ \cup {t}, !.items = BagAdd(@, t)]

\* The root of the heap: lowest price, then highest nonce.
Cheapest(items) ==
    CHOOSE t \in DOMAIN items : \A u \in DOMAIN items :
        t.price < u.price \/ (t.price = u.price /\ t.nonce >= u.nonce)

\* Underpriced first pops the stale entries at the root.
RECURSIVE PopStale(_)
PopStale(p) ==
    IF p.items = EmptyBag \/ Cheapest(p.items) \in p.all THEN p
    ELSE PopStale([p EXCEPT !.items = BagRemove(@, Cheapest(@)), !.stales = @ - 1])

Underpriced(p, t) ==
    /\ t.from \notin p.locals
    /\ p.items # EmptyBag
    /\ Cheapest(p.items).price >= t.price

\* Pop entries until count remote ones are found, or a live one at the
\* threshold; the local ones go back.
RECURSIVE PopRemotes(_, _, _, _, _)
PopRemotes(p, count, threshold, drop, save) ==
    LET t == Cheapest(p.items)
        q == [p EXCEPT !.items = BagRemove(@, t)]
    IN  IF p.items = EmptyBag \/ Len(drop) = count \/ (t \in p.all /\ t.price >= threshold)
        THEN <<[p EXCEPT !.items = @ (+) save], drop>>
        ELSE IF t \notin p.all
        THEN PopRemotes([q EXCEPT !.stales = @ - 1], count, threshold, drop, save)
        ELSE IF t.from \in p.locals
        THEN PopRemotes(q, count, threshold, drop, BagAdd(save, t))
        ELSE PopRemotes(q, count, threshold, Append(drop, t), save)

\* txPricedList.Discard and txPricedList.Cap.
Discard(p, count) == PopRemotes(p, count, 1 + Max({t.price : t \in Tx}), << >>, EmptyBag)

CapPrice(p, threshold) == PopRemotes(p, -1, threshold, << >>, EmptyBag)

-----------------------------------------------------------------------------
(***************************************************************************)
(* Moving transactions between the lists.                                  *)
(***************************************************************************)

\* The transaction takes its place in a list and the one it replaces leaves
\* the pool.
Place(listed, old, t) ==
    LET q == IF old = {} THEN listed
             ELSE Removed([listed EXCEPT !.all = @ \ old])
    IN  Enter(q, t)

enqueueTx(p, t) ==
    LET l == p.queue[t.from]
    IN  IF ~Accepts(l, t) THEN p
        ELSE Place([p EXCEPT !.queue[t.from] = Put(l, t)], At(l, t.nonce), t)

promoteTx(p, t) ==
    LET a == t.from
        l == p.pending[a]
        q == Place([p EXCEPT !.pending[a] = Put(l, t)], At(l, t.nonce), t)
    IN  IF ~Accepts(l, t) THEN Forget(p, t)
        ELSE [q EXCEPT !.beats[a] = now, !.nonce[a] = t.nonce + 1]

\* Mutant: the nonce of the account is left where it was.
DropPendingKeepsNonce(p, t) ==
    LET above == {u \in p.pending[t.from].txs : u.nonce > t.nonce}
    IN  FoldLeft(enqueueTx,
                 [p EXCEPT !.pending[t.from] = Without(@, above \cup At(@, t.nonce))],
                 ByNonce(above))

\* removeTx looks a transaction up by its nonce, among the executable ones
\* first, whose followers go back to the queue.

DropPending(p, t) ==
    LET a == t.from
        above == {u \in p.pending[a].txs : u.nonce > t.nonce}
        left == Without(p.pending[a], above \cup At(p.pending[a], t.nonce))
    IN  FoldLeft(enqueueTx,
                 [p EXCEPT !.pending[a] = left, !.nonce[a] = Min({@, t.nonce}),
                           !.beats[a] = IF left = NoList THEN 0 ELSE @],
                 ByNonce(above))

DropListed(p, t) ==
    IF At(p.pending[t.from], t.nonce) # {} THEN DropPending(p, t)
    ELSE [p EXCEPT !.queue[t.from] = Without(@, At(@, t.nonce))]

removeTx(p, t, outofbound) ==
    LET q == [p EXCEPT !.all = @ \ {t}]
    IN  IF t \notin p.all THEN p
        ELSE DropListed(IF outofbound THEN Removed(q) ELSE q, t)

removeTxs(p, txs, outofbound) ==
    FoldLeft(LAMBDA q, t : removeTx(q, t, outofbound), p, txs)

ForgetAll(p, txs) == FoldLeft(Forget, p, txs)


\* One account of promoteExecutables: what is mined or no longer payable
\* leaves, what has come up becomes executable, a remote queue is capped.
DropFromQueue(p, a, txs) == ForgetAll([p EXCEPT !.queue[a] = Without(@, ToSet(txs))], txs)

DropMined(p, a) == DropFromQueue(p, a, ByNonce(Forward(p.queue[a], Nonces[p.cur][a])))

DropUnpayable(p, a) ==
    DropFromQueue([p EXCEPT !.queue[a] = Recap(@, Balance[p.cur][a], GasLimit[p.cur])], a,
                  ByNonce(Unpayable(p.queue[a], Balance[p.cur][a], GasLimit[p.cur])))

PromoteReady(p, a) ==
    LET ready == Ready(p.queue[a], p.nonce[a])
    IN  FoldLeft(promoteTx, [p EXCEPT !.queue[a] = Without(@, ready)], ByNonce(ready))

DropExcess(p, a) ==
    IF a \in p.locals THEN p
    ELSE DropFromQueue(p, a, Reverse(ByNonce(Beyond(p.queue[a], AccountQueue))))

PromoteAccount(p, a) == DropExcess(PromoteReady(DropUnpayable(DropMined(p, a), a), a), a)

Size(lists) == MapThenSumSet(LAMBDA a : Cardinality(lists[a].txs), Address)

\* The rounds that shorten the lists of the offenders until one is no longer
\* than floor or the executable transactions fit.
RECURSIVE Shorten(_, _, _, _)
Shorten(lens, offenders, measured, floor) ==
    IF MapThenSumSet(LAMBDA a : lens[a], Address) > GlobalSlots /\ lens[measured] > floor
    THEN Shorten([a \in Address |-> IF a \in offenders THEN lens[a] - 1 ELSE lens[a]],
                 offenders, measured, floor)
    ELSE lens

\* Offenders are taken from the longest list on, each time shortening the
\* ones before to the length of the newest, and all to AccountSlots at last.
RECURSIVE Equalize(_, _, _)
Equalize(lens, offenders, spammers) ==
    LET over == MapThenSumSet(LAMBDA a : lens[a], Address) > GlobalSlots
        next == CHOOSE a \in spammers : \A b \in spammers : lens[a] >= lens[b]
        last == CHOOSE a \in offenders : \A b \in offenders : lens[a] <= lens[b]
    IN  IF over /\ spammers # {}
        THEN Equalize(IF offenders = {} THEN lens
                      ELSE Shorten(lens, offenders, last, lens[next]),
                      offenders \cup {next}, spammers \ {next})
        ELSE IF over /\ offenders # {} THEN Shorten(lens, offenders, last, AccountSlots)
        ELSE lens

\* The cap on executable transactions of promoteExecutables.
CapPending(p) ==
    LET lens == [a \in Address |-> Cardinality(p.pending[a].txs)]
        spammers == {a \in Address \ p.locals : lens[a] > AccountSlots}
        kept == Equalize(lens, {}, spammers)
        excess(a) == Beyond(p.pending[a], kept[a])
        Cut(q, a) ==
            LET r == [q EXCEPT !.pending[a] = Without(@, excess(a)),
                               !.nonce[a] = Min({@} \cup {t.nonce : t \in excess(a)})]
            IN  ForgetAll(r, Reverse(ByNonce(excess(a))))
    IN  FoldLeft(Cut, p, SetToSeq(Address))

\* The cap on queued transactions: the remote accounts give up theirs, the
\* one heard from last first.
RECURSIVE DropQueued(_, _, _)
DropQueued(p, accounts, drop) ==
    LET a == Last(accounts)
        txs == ByNonce(p.queue[a].txs)
    IN  IF drop <= 0 \/ accounts = << >> THEN p
        ELSE IF Len(txs) <= drop
        THEN DropQueued(removeTxs(p, txs, TRUE), Front(accounts), drop - Len(txs))
        ELSE removeTxs(p, SubSeq(Reverse(txs), 1, drop), TRUE)

\* sort.Sort is not stable: rank decides between equal heartbeats.
CapQueue(p, rank) ==
    LET remote == {a \in Address \ p.locals : p.queue[a].txs # {}}
        Earlier(a, b) == \/ p.beats[a] < p.beats[b]
                         \/ p.beats[a] = p.beats[b] /\ rank[a] < rank[b]
    IN  DropQueued(p, SetToSortSeq(remote, Earlier), Size(p.queue) - GlobalQueue)

promoteExecutables(p, accounts, rank) ==
    CapQueue(CapPending(FoldLeft(PromoteAccount, p, SetToSeq(accounts))), rank)

\* One account of demoteUnexecutables: what is mined or no longer payable
\* leaves, what comes after it or after a gap goes back to the queue.
DropFromPending(p, a, txs) == ForgetAll([p EXCEPT !.pending[a] = Without(@, ToSet(txs))], txs)

Requeue(p, a, txs) ==
    FoldLeft(enqueueTx, [p EXCEPT !.pending[a] = Without(@, ToSet(txs))], txs)

DemoteMined(p, a) == DropFromPending(p, a, ByNonce(Forward(p.pending[a], Nonces[p.cur][a])))

DemoteUnpayable(p, a) ==
    LET drops == Unpayable(p.pending[a], Balance[p.cur][a], GasLimit[p.cur])
        invalids == {t \in p.pending[a].txs \ drops : \E u \in drops : u.nonce < t.nonce}
    IN  Requeue(DropFromPending([p EXCEPT !.pending[a] = Recap(@, Balance[p.cur][a], GasLimit[p.cur])],
                                a, ByNonce(drops)),
                a, ByNonce(invalids))

DemoteGapped(p, a) ==
    IF At(p.pending[a], Nonces[p.cur][a]) # {} THEN p
    ELSE Requeue(p, a, Reverse(ByNonce(p.pending[a].txs)))

DropEmptied(p, a) ==
    [p EXCEPT !.pending[a] = IF @.txs = {} THEN NoList ELSE @,
              !.beats[a] = IF p.pending[a].txs = {} THEN 0 ELSE @]

DemoteAccount(p, a) ==
    IF p.pending[a].txs = {} THEN p
    ELSE DropEmptied(DemoteGapped(DemoteUnpayable(DemoteMined(p, a), a), a), a)

demoteUnexecutables(p) == FoldLeft(DemoteAccount, p, SetToSeq(Address))


-----------------------------------------------------------------------------
(***************************************************************************)
(* Adding transactions, the journal, and the reset to a new head.          *)
(***************************************************************************)

validateTx(p, t, local) ==
    /\ GasLimit[p.cur] >= t.gas
    /\ local \/ t.from \in p.locals \/ p.gasPrice <= t.price
    /\ Nonces[p.cur][t.from] <= t.nonce
    /\ Balance[p.cur][t.from] >= t.cost

\* journalTx; while the journal is loaded its writer discards everything.
journalTx(p, t) ==
    IF p.journaling /\ t.from \in p.locals THEN [p EXCEPT !.journal = Append(@, t)] ELSE p

\* Mutant: a full pool makes room for all but the new transaction.
MakeRoomShort(p) ==
    LET d == Discard(p, Cardinality(p.all) - (GlobalSlots + GlobalQueue))
    IN  removeTxs(d[1], d[2], FALSE)

\* The room a full pool makes for t: the cheapest remote transactions leave.
MakeRoom(p) ==
    LET d == Discard(p, Cardinality(p.all) - (GlobalSlots + GlobalQueue - 1))
    IN  removeTxs(d[1], d[2], FALSE)

Failed(p) == [pool |-> p, ok |-> FALSE, replace |-> FALSE]

\* A replacement of an executable transaction keeps its place and does not
\* make its account local; everything else goes through the queue.
addListed(p, t, local) ==
    LET l == p.pending[t.from]
        old == At(l, t.nonce)
    IN  IF old # {}
        THEN IF ~Accepts(l, t) THEN Failed(p)
             ELSE [pool |-> journalTx(Place([p EXCEPT !.pending[t.from] = Put(l, t)], old, t), t),
                   ok |-> TRUE, replace |-> TRUE]
        ELSE IF ~Accepts(p.queue[t.from], t) THEN Failed(p)
        ELSE [pool |-> journalTx([enqueueTx(p, t) EXCEPT !.locals = IF local THEN @ \cup {t.from} ELSE @], t),
              ok |-> TRUE, replace |-> At(p.queue[t.from], t.nonce) # {}]

\* A full pool, its stale entries popped.
addFull(p, t, local) ==
    IF ~local /\ Underpriced(p, t) THEN Failed(p) ELSE addListed(MakeRoom(p), t, local)

add(p, t, local) ==
    LET full == Cardinality(p.all) >= GlobalSlots + GlobalQueue
    IN  IF t \in p.all \/ ~validateTx(p, t, local) THEN Failed(p)
        ELSE IF full THEN addFull(IF local \/ t.from \in p.locals THEN p ELSE PopStale(p), t, local)
        ELSE addListed(p, t, local)

\* addTxLocked for each; the accounts with a transaction that is new.
addEach(p, txs, local) ==
    LET Listed(acc, r, a) ==
            [pool |-> r.pool, dirty |-> acc.dirty \cup IF r.ok /\ ~r.replace THEN {a} ELSE {}]
    IN  FoldLeft(LAMBDA acc, t : Listed(acc, add(acc.pool, t, local), t.from),
                 [pool |-> p, dirty |-> {}], txs)

addTxsLocked(p, txs, local, rank) ==
    LET Promoted(done) == IF done.dirty = {} THEN done.pool
                          ELSE promoteExecutables(done.pool, done.dirty, rank)
    IN  Promoted(addEach(p, txs, local))

\* The nonce of an account with executable transactions follows the last.
SetNonces(p) ==
    [p EXCEPT !.nonce = [a \in Address |->
        IF p.pending[a].txs = {} THEN @[a]
        ELSE 1 + Max({t.nonce : t \in p.pending[a].txs})]]

reset(p, reinject, new, rank) ==
    LET Promoted(q) == promoteExecutables(q, {a \in Address : q.queue[a].txs # {}}, rank)
        moved == [p EXCEPT !.cur = new, !.nonce = Nonces[new]]
    IN  IF new \in Unavailable THEN p
        ELSE Promoted(SetNonces(demoteUnexecutables(addTxsLocked(moved, reinject, FALSE, rank))))

\* txPool.local, and the journal rotate writes: the transactions of the local
\* accounts, executable ones first.
local(p) ==
    LET Of(a) == ByNonce(p.pending[a].txs) \o ByNonce(p.queue[a].txs)
    IN  FoldLeft(LAMBDA s, a : s \o Of(a), << >>, SetToSeq(p.locals))

rotate(p) == [p EXCEPT !.journal = local(p), !.journaling = TRUE]

\* Mutant: the journal is rotated before it is loaded.
NewTxPoolRotated(b, journal, rank) ==
    rotate([pending |-> [a \in Address |-> NoList], queue |-> [a \in Address |-> NoList],
            all |-> {}, items |-> EmptyBag, stales |-> 0,
            beats |-> [a \in Address |-> 0], nonce |-> Nonces[b],
            locals |-> Locals, gasPrice |-> PriceLimit, cur |-> b,
            journal |-> journal, journaling |-> FALSE])

\* NewTxPool on the current block of the chain, with what an earlier process
\* left in the journal.
NewTxPool(b, journal, rank) ==
    LET fresh == [pending |-> [a \in Address |-> NoList],
                  queue   |-> [a \in Address |-> NoList],
                  all |-> {}, items |-> EmptyBag, stales |-> 0,
                  beats |-> [a \in Address |-> 0],
                  nonce |-> Nonces[b],
                  locals |-> Locals, gasPrice |-> PriceLimit, cur |-> b,
                  journal |-> journal, journaling |-> FALSE]
    IN  IF NoLocals THEN fresh
        ELSE rotate(addTxsLocked(fresh, journal, TRUE, rank))

-----------------------------------------------------------------------------
\* How sort.Sort may leave the remote accounts with equal heartbeats.
Ranks == LET remote == Address \ Locals
         IN  {r \in [remote -> 1..Cardinality(remote)] :
                  \A a, b \in remote : r[a] = r[b] => a = b}

Init ==
    /\ \E rank \in Ranks : pool = NewTxPool(Genesis, << >>, rank)
    /\ head = Genesis
    /\ chain = Genesis
    /\ feed = << >>
    /\ now = 1
    /\ used = [adds |-> 0, moves |-> 0, prices |-> 0, restarts |-> 0]

Use(what, bound) == used[what] < bound /\ used' = [used EXCEPT ![what] = @ + 1]

AddLocals(txs) ==
    /\ Use("adds", MaxAdds)
    /\ \E rank \in Ranks : pool' = addTxsLocked(pool, txs, ~NoLocals, rank)
    /\ UNCHANGED <<head, chain, feed, now>>

AddRemotes(txs) ==
    /\ Use("adds", MaxAdds)
    /\ \E rank \in Ranks : pool' = addTxsLocked(pool, txs, FALSE, rank)
    /\ UNCHANGED <<head, chain, feed, now>>

SetGasPrice(price) ==
    /\ Use("prices", MaxPriceChanges)
    /\ LET c == CapPrice([pool EXCEPT !.gasPrice = price], price)
       IN  pool' = removeTxs(c[1], c[2], FALSE)
    /\ UNCHANGED <<head, chain, feed, now>>

\* The chain announces a new head; the pool hears of it later.
ChainHead(b) ==
    /\ b # chain
    /\ Use("moves", MaxMoves)
    /\ chain' = b
    /\ feed' = Append(feed, b)
    /\ UNCHANGED <<pool, head, now>>

\* loop: a head event.
NewHead ==
    /\ feed # << >>
    /\ \E rank \in Ranks : pool' = reset(pool, Reinjected(head, Head(feed)), Head(feed), rank)
    /\ head' = Head(feed)
    /\ feed' = Tail(feed)
    /\ UNCHANGED <<chain, now, used>>

\* loop: the eviction ticker.  A heartbeat is the last promotion; an account
\* with none has Go's zero time, which is always too long ago.
Evict ==
    LET old(a) == a \notin pool.locals /\ (pool.beats[a] = 0 \/ now - pool.beats[a] > Lifetime)
        gone == {a \in Address : old(a) /\ pool.queue[a].txs # {}}
        Drop(p, a) == removeTxs(p, ByNonce(p.queue[a].txs), TRUE)
    IN  /\ gone # {}
        /\ pool' = FoldLeft(Drop, pool, SetToSeq(gone))
        /\ UNCHANGED <<head, chain, feed, now, used>>

\* loop: the journal ticker.
Rejournal ==
    /\ ~NoLocals
    /\ pool' = rotate(pool)
    /\ UNCHANGED <<head, chain, feed, now, used>>

Tick ==
    /\ now < MaxTime
    /\ now' = now + 1
    /\ UNCHANGED <<pool, head, chain, feed, used>>

\* The process dies, at whatever point, and a new one starts.
Restart ==
    /\ chain \notin Unavailable
    /\ Use("restarts", MaxRestarts)
    /\ \E rank \in Ranks : pool' = NewTxPool(chain, pool.journal, rank)
    /\ head' = chain
    /\ feed' = << >>
    /\ UNCHANGED <<chain, now>>

Next ==
    \/ \E txs \in Batches : AddLocals(txs) \/ AddRemotes(txs)
    \/ \E price \in Prices : SetGasPrice(price)
    \/ \E b \in Block : ChainHead(b)
    \/ NewHead
    \/ Evict
    \/ Rejournal
    \/ Tick
    \/ Restart

Spec == Init /\ [][Next]_vars


-----------------------------------------------------------------------------
(***************************************************************************)
(* Properties.                                                             *)
(***************************************************************************)

Listed(a) == pool.pending[a].txs \cup pool.queue[a].txs

List == [txs : SUBSET Tx, costcap : Nat, gascap : Nat]

TypeOK ==
    /\ pool.pending \in [Address -> List]
    /\ pool.queue \in [Address -> List]
    /\ pool.all \subseteq Tx
    /\ IsABag(pool.items) /\ DOMAIN pool.items \subseteq Tx
    /\ pool.stales \in Int
    /\ pool.beats \in [Address -> 0..MaxTime]
    /\ pool.nonce \in [Address -> Nat]
    /\ Locals \subseteq pool.locals /\ pool.locals \subseteq Address
    /\ pool.cur \in Block /\ head \in Block /\ chain \in Block
    /\ pool.journal \in Seq(Tx)
    /\ feed \in Seq(Block)
    /\ now \in 1..MaxTime

\* The lookup table holds exactly the transactions of the lists, and no nonce
\* of an account is in both of its lists: removeTx finds a transaction by its
\* nonce, and enqueueTx may silently refuse one it was asked to keep.
AllExact ==
    /\ pool.all = UNION {Listed(a) : a \in Address}
    /\ \A a \in Address : \A t, u \in Listed(a) :
           t.from = a /\ (t.nonce = u.nonce => t = u)

\* The executable transactions of an account have the nonces from the one of
\* the state on without a gap, and the managed state holds the next one.
PendingRuns ==
    \A a \in Address :
        {t.nonce : t \in pool.pending[a].txs} = Nonces[pool.cur][a]..(pool.nonce[a] - 1)

\* Nothing in the pool is mined, unpayable or beyond the gas limit in the
\* state the pool works on, though Filter mostly returns early.
AllPayable ==
    \A t \in pool.all :
        /\ t.nonce >= Nonces[pool.cur][t.from]
        /\ t.cost <= Balance[pool.cur][t.from]
        /\ t.gas <= GasLimit[pool.cur]

\* Every pooled transaction is in the price heap: one that is not could never
\* be discarded when the pool is full.
PricedAll == pool.all \subseteq DOMAIN pool.items

\* The counts validateTxPoolInternals compares.
PricedCount == BagCardinality(pool.items) - pool.stales = Cardinality(pool.all)

\* More executable transactions than GlobalSlots only if no remote account
\* has more than its guaranteed slots.
PendingBounded ==
    \/ Size(pool.pending) <= GlobalSlots
    \/ \A a \in Address \ pool.locals : Cardinality(pool.pending[a].txs) <= AccountSlots

Remote == {t \in pool.all : t.from \notin pool.locals}

\* A pool beyond its total size has given up its remote transactions.
PoolBounded ==
    Cardinality(pool.all) <= GlobalSlots + GlobalQueue \/ Cardinality(Remote) <= 1

\* The transactions of the configured local accounts are on disk.
JournalCovers ==
    ~NoLocals => \A t \in pool.all : t.from \in Locals => t \in ToSet(pool.journal)

Outbid(p, t) == \E u \in p.all : u.from = t.from /\ u.nonce = t.nonce /\ u.price > t.price

\* Nothing but the chain or a better-paid transaction of the same nonce takes
\* a local transaction out of the pool of a running process.
LocalsKept ==
    pool'.cur = pool.cur /\ used'.restarts = used.restarts =>
        \A t \in pool.all : t.from \in pool.locals => t \in pool'.all \/ Outbid(pool', t)

\* A restart brings back every local transaction that is still valid.
LocalsSurvive ==
    ~NoLocals /\ used'.restarts > used.restarts =>
        \A t \in pool.all : t.from \in Locals /\ validateTx(pool', t, TRUE) =>
            t \in pool'.all \/ Outbid(pool', t)

\* A transaction that a reorganisation takes out of the chain is back in the
\* pool if it can be: valid in the new state, and with room left.
Reorged ==
    LET Dropped == ToSet(TxsDownTo(head, head')) \ ToSet(TxsDownTo(head', head))
    IN  /\ head' # head /\ used' = used /\ pool'.cur = head'
        /\ Number[head] - Number[head'] \in -DeepReorg..DeepReorg
        /\ Cardinality(pool.all \cup Dropped) <= Min({GlobalSlots, AccountQueue})
        => \A t \in Dropped :
               validateTx(pool', t, FALSE) =>
                   t \in pool'.all \/ \E u \in pool'.all : u.from = t.from /\ u.nonce = t.nonce

=============================================================================
