------------------------------ MODULE MCTxPool ------------------------------
(***************************************************************************)
(* The transaction pool in two scenarios.                                  *)
(*                                                                         *)
(* follow: the pool follows a chain that is reorganised, and is restarted. *)
(*                                                                         *)
(*     g --- a1 --- a2          a1 mines the first transaction of          *)
(*      \-- b1                  account 1, a2 the second; in the state     *)
(*                              of b1 the accounts have less               *)
(*                                                                         *)
(* crowd: the pool of four slots is full and stays on one block, while two *)
(* remote accounts and a local one compete for the slots.                  *)
(***************************************************************************)
EXTENDS Integers, Sequences, FiniteSets, TLC

CONSTANTS g, a1, a2, b1

VARIABLES scenario, pool, head, chain, feed, now, used

tx(a, n, p, c) == [from |-> a, nonce |-> n, price |-> p, cost |-> c, gas |-> 1]

t0 == tx(1, 0, 2, 1)
r0 == tx(1, 0, 4, 2)  \* replaces t0
t1 == tx(1, 1, 3, 1)
l0 == tx(2, 0, 1, 1)

FollowTx == {t0, r0, t1, l0}
FollowParent == [b \in {a1, a2, b1} |-> IF b = a2 THEN a1 ELSE g]
FollowNumber == [b \in {g, a1, a2, b1} |-> CASE b = g -> 0 [] b = a2 -> 2 [] OTHER -> 1]
FollowBlockTxs == [b \in {g, a1, a2, b1} |-> CASE b = a1 -> <<t0>> [] b = a2 -> <<t1>> [] OTHER -> << >>]
FollowBalance == [b \in {g, a1, a2, b1} |-> [a \in {1, 2} |-> IF b = b1 THEN 1 ELSE 2]]
FollowGasLimit == [b \in {g, a1, a2, b1} |-> 1]

Follow == INSTANCE TxPool WITH
    Address <- {1, 2}, Locals <- {2}, NoLocals <- FALSE, Tx <- FollowTx,
    Batches <- {<<t>> : t \in FollowTx} \cup {<<t1, t0>>}, Prices <- {3},
    PriceLimit <- 1, PriceBump <- 10, AccountSlots <- 1, GlobalSlots <- 2,
    AccountQueue <- 2, GlobalQueue <- 2, Lifetime <- 1, DeepReorg <- 1,
    Block <- {g, a1, a2, b1}, Genesis <- g, Parent <- FollowParent,
    Number <- FollowNumber, BlockTxs <- FollowBlockTxs,
    Balance <- FollowBalance, GasLimit <- FollowGasLimit, Unavailable <- {},
    MaxAdds <- 3, MaxMoves <- 2, MaxPriceChanges <- 1, MaxTime <- 1, MaxRestarts <- 1

Flood == <<tx(1, 2, 5, 1), tx(1, 1, 4, 1), tx(1, 0, 2, 1)>>
CrowdTx == {Flood[1], Flood[2], Flood[3], tx(2, 0, 3, 1), tx(2, 1, 2, 1), tx(3, 1, 1, 1)}

Crowd == INSTANCE TxPool WITH
    Address <- {1, 2, 3}, Locals <- {3}, NoLocals <- FALSE, Tx <- CrowdTx,
    Batches <- {<<t>> : t \in CrowdTx} \cup {Flood}, Prices <- {3},
    PriceLimit <- 1, PriceBump <- 10, AccountSlots <- 1, GlobalSlots <- 2,
    AccountQueue <- 2, GlobalQueue <- 2, Lifetime <- 0, DeepReorg <- 1,
    Block <- {g}, Genesis <- g, Parent <- << >>, Number <- g :> 0,
    BlockTxs <- g :> << >>, Balance <- g :> [a \in 1..3 |-> 1], GasLimit <- g :> 1,
    Unavailable <- {},
    MaxAdds <- 4, MaxMoves <- 0, MaxPriceChanges <- 1, MaxTime <- 2, MaxRestarts <- 0

ASSUME ConstantsOK == Follow!ConstantsOK /\ Crowd!ConstantsOK

Init == \/ scenario = "follow" /\ Follow!Init
        \/ scenario = "crowd"  /\ Crowd!Init

Next == /\ \/ scenario = "follow" /\ Follow!Next
           \/ scenario = "crowd"  /\ Crowd!Next
        /\ UNCHANGED scenario

vars == <<scenario, pool, head, chain, feed, now, used>>

Spec == Init /\ [][Next]_vars

Either(f, c) == IF scenario = "follow" THEN f ELSE c

\* The records of the pool agree: all holds exactly what the lists hold, no nonce is listed twice,
\* executable transactions run from the state's nonce to the managed one and can be paid, and
\* everything is in the price heap (enqueueTx, promoteTx, removeTx, demoteUnexecutables).
PoolExact ==
    /\ Either(Follow!TypeOK, Crowd!TypeOK)
    /\ Either(Follow!AllExact, Crowd!AllExact)
    /\ Either(Follow!PendingRuns, Crowd!PendingRuns)
    /\ Either(Follow!PricedAll, Crowd!PricedAll)
    /\ scenario = "follow" => Follow!AllPayable

\* The count the tests assert of the price heap, as stated there.
PricedCount == Either(Follow!PricedCount, Crowd!PricedCount)

\* Remote accounts exceed their slots only while the pool has room, and a pool beyond its size
\* has at most one remote transaction (promoteExecutables, add).
PoolBounded ==
    /\ Either(Follow!PendingBounded, Crowd!PendingBounded)
    /\ Either(Follow!PoolBounded, Crowd!PoolBounded)

\* Local transactions leave only for the chain or a better offer and survive a restart, for which
\* they are in the journal; valid transactions of abandoned blocks come back (Evict, Discard,
\* journalTx, reset).
LocalsKept ==
    [][/\ Either(Follow!LocalsKept /\ Follow!JournalCovers, Crowd!LocalsKept /\ Crowd!JournalCovers)
       /\ scenario = "follow" => Follow!LocalsSurvive /\ Follow!Reorged]_vars

=============================================================================
