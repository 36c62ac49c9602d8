--------------------------- MODULE ProtocolManager ---------------------------
(***************************************************************************)
(* The connections of the protocol manager (can/handler.go, can/sync.go    *)
(* and can/peer.go): how a connection is registered and removed, and how   *)
(* the transactions of the pool reach the peers.                           *)
(*                                                                         *)
(* A connection runs handle in a goroutine of its own, with a second one   *)
(* (broadcast) that empties its queue.  Removal is by id, and two          *)
(* connections of one node share their id: they never run at once, but a   *)
(* removal that began with the first may end after the second came.        *)
(***************************************************************************)
EXTENDS Naturals, FiniteSets, Sequences

CONSTANTS
    Conn, ID,        \* the connections, and the id of each
    Tx, None,
    MaxPeers,        \* maxPeers
    MaxQueuedTxs,    \* the capacity of queuedTxs
    MaxKnownTxs,     \* how many transactions MarkTransaction keeps
    MaxPack,         \* how many transactions fill a package (txsyncPackSize)
    MaxBreaks,       \* how many connections break
    MaxDrops,        \* how often the fetcher or the downloader drops a peer
    MayStop

VARIABLES
    pool,      \* the pending transactions
    events,    \* those whose NewTxsEvent is not handled yet
    stage,     \* where the handler of each connection is
    peers,     \* peerSet.peers: the connection registered under each id
    broken,    \* the connections that no longer carry messages
    known,     \* knownTxs
    queued,    \* queuedTxs
    casting,   \* the connections whose broadcast loop runs
    snap,      \* what a handler offers to txsyncCh
    pending,   \* the pending map of txsyncLoop, by id
    sending,   \* the package being sent, if any
    got,       \* the transactions each peer has, sent to it or by it
    lost,      \* the transactions that were not sent to a peer on purpose
    removal,   \* the calls of removePeer under way
    stop,      \* how far Stop is
    used

vars == <<pool, events, stage, peers, broken, known, queued, casting, snap, pending, sending, got,
          lost, removal, stop, used>>
netVars == <<stage, peers, broken, removal, stop>>
txVars == <<pool, events, known, queued, casting, snap, pending, sending, got, lost>>

Ids == {ID[c] : c \in Conn}
Dropper == "dropper"
NoRemoval == [at |-> "done", id |-> None, conn |-> None]

Registered == {peers[i] : i \in Ids} \ {None}

Init ==
    /\ pool = {} /\ events = {}
    /\ stage = [c \in Conn |-> "off"]
    /\ peers = [i \in Ids |-> None]
    /\ broken = {}
    /\ known = [c \in Conn |-> {}] /\ queued = [c \in Conn |-> << >>] /\ casting = {}
    /\ snap = [c \in Conn |-> {}] /\ pending = [i \in Ids |-> None] /\ sending = None
    /\ got = [c \in Conn |-> {}] /\ lost = [c \in Conn |-> {}]
    /\ removal = [a \in Conn \cup {Dropper} |-> NoRemoval]
    /\ stop = "no"
    /\ used = [breaks |-> 0, drops |-> 0]

-----------------------------------------------------------------------------
(* The life of a connection. *)

\* Run: the syncer takes the peer from newPeerCh.  The server accepts no second
\* connection of a node while the first is there.
Connect(c) ==
    /\ stage[c] = "off" /\ stop = "no"
    /\ \A d \in Conn \ {c} : ID[d] = ID[c] => stage[d] \in {"off", "ended"}
    /\ stage' = [stage EXCEPT ![c] = "started"]
    /\ UNCHANGED <<peers, broken, removal, stop, txVars, used>>

\* handle up to the handshake, which may fail.  wg.Add comes before it.
Handshake(c) ==
    /\ stage[c] = "started"
    /\ \/ Cardinality(Registered) < MaxPeers /\ stage' = [stage EXCEPT ![c] = "shaken"]
       \/ stage' = [stage EXCEPT ![c] = "ended"]
    /\ UNCHANGED <<peers, broken, removal, stop, txVars, used>>

\* peerSet.Register.
RefusedNever(c) == peers[ID[c]] # None
Refused(c) == stop \notin {"no", "quit"} \/ peers[ID[c]] # None

Register(c) ==
    /\ stage[c] = "shaken"
    /\ IF Refused(c)
       THEN stage' = [stage EXCEPT ![c] = "ended"] /\ UNCHANGED <<peers, casting>>
       ELSE /\ stage' = [stage EXCEPT ![c] = "registered"]
            /\ peers' = [peers EXCEPT ![ID[c]] = c]
            /\ casting' = casting \cup {c}
    /\ UNCHANGED <<broken, removal, stop, pool, events, known, queued, snap, pending, sending, got, lost, used>>

\* syncTransactions takes the pending transactions, and offers them unless there are none.
Snapshot(c) ==
    /\ stage[c] = "registered"
    /\ snap' = [snap EXCEPT ![c] = pool]
    /\ stage' = [stage EXCEPT ![c] = IF pool = {} THEN "running" ELSE "offering"]
    /\ UNCHANGED <<peers, broken, removal, stop, pool, events, known, queued, casting, pending, sending, got, lost, used>>

\* The handler leaves its loop once the connection is gone (or Stop closed it).
Leave(c) ==
    /\ stage[c] = "running" /\ c \in broken
    /\ stage' = [stage EXCEPT ![c] = "leaving"]
    /\ removal' = [removal EXCEPT ![c] = [at |-> "look", id |-> ID[c], conn |-> None]]
    /\ UNCHANGED <<peers, broken, stop, txVars, used>>

Break(c) ==
    /\ used.breaks < MaxBreaks /\ stage[c] \notin {"off", "ended"} /\ c \notin broken
    /\ used' = [used EXCEPT !.breaks = @ + 1]
    /\ broken' = broken \cup {c}
    /\ UNCHANGED <<stage, peers, removal, stop, txVars>>

\* The fetcher, the downloader or a timer calls removePeer.
Drop(i) ==
    /\ used.drops < MaxDrops /\ removal[Dropper] = NoRemoval
    /\ used' = [used EXCEPT !.drops = @ + 1]
    /\ removal' = [removal EXCEPT ![Dropper] = [at |-> "look", id |-> i, conn |-> None]]
    /\ UNCHANGED <<stage, peers, broken, stop, txVars>>

\* removePeer in its three steps: look the connection up by id, unregister whatever
\* connection has the id by then, disconnect the one that was looked up.
Ended(a) == IF a = Dropper THEN stage ELSE [stage EXCEPT ![a] = "ended"]

RemoveLook(a) ==
    /\ removal[a].at = "look"
    /\ LET c == peers[removal[a].id]
       IN IF c = None
          THEN removal' = [removal EXCEPT ![a] = NoRemoval] /\ stage' = Ended(a)
          ELSE removal' = [removal EXCEPT ![a] = [@ EXCEPT !.at = "unregister", !.conn = c]] /\ UNCHANGED stage
    /\ UNCHANGED <<peers, broken, stop, txVars, used>>

RemoveUnregister(a) ==
    /\ removal[a].at = "unregister"
    /\ peers' = [peers EXCEPT ![removal[a].id] = None]
    /\ removal' = [removal EXCEPT ![a].at = "disconnect"]
    /\ UNCHANGED <<stage, broken, stop, txVars, used>>

RemoveDisconnect(a) ==
    /\ removal[a].at = "disconnect"
    /\ broken' = broken \cup {removal[a].conn}
    /\ removal' = [removal EXCEPT ![a] = NoRemoval]
    /\ stage' = Ended(a)
    /\ UNCHANGED <<peers, stop, txVars, used>>

-----------------------------------------------------------------------------
(* Stop. *)

\* The syncer has gone and quitSync is closed.
Quit ==
    /\ MayStop /\ stop = "no"
    /\ stop' = "quit"
    /\ UNCHANGED <<stage, peers, broken, removal, txVars, used>>

\* peerSet.Close.
ClosePeers ==
    /\ stop = "quit"
    /\ stop' = "closed"
    /\ broken' = broken \cup Registered
    /\ UNCHANGED <<stage, peers, removal, txVars, used>>

\* wg.Wait: the handlers that were counted are gone.  One that had only just left
\* newPeerCh may not have been.
Stopped ==
    /\ stop = "closed"
    /\ \A c \in Conn : stage[c] \in {"off", "started", "ended"}
    /\ stop' = "stopped"
    /\ UNCHANGED <<stage, peers, broken, removal, txVars, used>>

-----------------------------------------------------------------------------
(* Transactions. *)

\* The pool accepts a transaction and has its event sent, by a goroutine of its own.
Accept(x) ==
    /\ pool' = pool \cup {x}
    /\ events' = IF x \in pool THEN events ELSE events \cup {x}

AddLocal(x) ==
    /\ x \notin pool /\ stop = "no" /\ \A c \in Conn : x \notin got[c]
    /\ Accept(x)
    /\ UNCHANGED <<netVars, known, queued, casting, snap, pending, sending, got, lost, used>>

\* MarkTransaction makes room first.
Marked(c, x) == {S \cup {x} : S \in {K \in SUBSET known[c] :
                    IF Cardinality(known[c]) < MaxKnownTxs THEN K = known[c] ELSE Cardinality(K) = MaxKnownTxs - 1}}

\* TxMsg.
ReceiveTx(c, x) ==
    /\ stage[c] = "running" /\ c \notin broken /\ x \notin got[c]
    /\ Accept(x)
    /\ got' = [got EXCEPT ![c] = @ \cup {x}]
    /\ \E K \in Marked(c, x) : known' = [known EXCEPT ![c] = K]
    /\ UNCHANGED <<netVars, queued, casting, snap, pending, sending, lost, used>>

\* BroadcastTxs and AsyncSendTransactions: to the registered peers that are not known to
\* have it, unless the queue is full.
PeersWithoutTxCounted(x) == {c \in Registered : x \notin known[c] /\ stage[c] = "running"}
PeersWithoutTx(x) == {c \in Registered : x \notin known[c]}

Full(c) == Len(queued[c]) >= MaxQueuedTxs

BroadcastTx(x) ==
    LET to   == PeersWithoutTx(x)
        full == {c \in to : Full(c)}
    IN /\ x \in events
       /\ events' = events \ {x}
       /\ queued' = [c \in Conn |-> IF c \in to \ full THEN Append(queued[c], x) ELSE queued[c]]
       /\ known' = [c \in Conn |-> IF c \in to \ full THEN known[c] \cup {x} ELSE known[c]]
       /\ lost' = [c \in Conn |-> IF c \in full THEN lost[c] \cup {x} ELSE lost[c]]
       /\ UNCHANGED <<netVars, pool, casting, snap, pending, sending, got, used>>

\* The broadcast loop sends the next transaction, or ends with the connection.
Broadcast(c) ==
    /\ c \in casting /\ queued[c] # << >>
    /\ queued' = [queued EXCEPT ![c] = Tail(@)]
    /\ known' = [known EXCEPT ![c] = @ \cup {Head(queued[c])}]
    /\ IF c \in broken
       THEN casting' = casting \ {c} /\ UNCHANGED got
       ELSE got' = [got EXCEPT ![c] = @ \cup {Head(queued[c])}] /\ UNCHANGED casting
    /\ UNCHANGED <<netVars, pool, events, snap, pending, sending, lost, used>>

\* term was closed when the connection was unregistered.
BroadcastEnds(c) ==
    /\ c \in casting /\ c \notin Registered
    /\ casting' = casting \ {c}
    /\ UNCHANGED <<netVars, pool, events, known, queued, snap, pending, sending, got, lost, used>>

-----------------------------------------------------------------------------
(* txsyncLoop. *)

Least(a, b) == IF a < b THEN a ELSE b

\* send: a package of what is left for s, which leaves pending when nothing is.
Sent(m, s) ==
    \E txs \in SUBSET s.txs :
       /\ Cardinality(txs) = Least(MaxPack, Cardinality(s.txs))
       /\ sending' = [conn |-> s.conn, txs |-> txs]
       /\ pending' = [m EXCEPT ![ID[s.conn]] = IF s.txs = txs THEN None ELSE [s EXCEPT !.txs = @ \ txs]]

Offer(c) ==
    LET s == [conn |-> c, txs |-> snap[c]]
        m == [pending EXCEPT ![ID[c]] = s]
    IN /\ stage[c] = "offering"
       /\ stage' = [stage EXCEPT ![c] = "running"]
       /\ snap' = [snap EXCEPT ![c] = {}]
       /\ \/ stop # "no" /\ UNCHANGED <<pending, sending>>
          \/ stop = "no" /\ IF sending = None THEN Sent(m, s) ELSE pending' = m /\ UNCHANGED sending
       /\ UNCHANGED <<peers, broken, removal, stop, pool, events, known, queued, casting, got, lost, used>>

Picked(m) ==
    LET waiting == {i \in Ids : m[i] # None}
    IN IF waiting = {} THEN pending' = m /\ sending' = None
                       ELSE \E i \in waiting : Sent(m, m[i])

\* SendTransactions has ended, and the loop reads done.  After an error nothing more is sent
\* under that id, not even to a later connection.
SendDone ==
    LET c == sending.conn
        e == pending[ID[c]]
    IN /\ sending # None /\ stop = "no"
       /\ known' = [known EXCEPT ![c] = @ \cup sending.txs]
       /\ IF c \in broken
          THEN /\ lost' = IF e = None THEN lost ELSE [lost EXCEPT ![e.conn] = @ \cup e.txs]
               /\ Picked([pending EXCEPT ![ID[c]] = None])
               /\ UNCHANGED got
          ELSE /\ got' = [got EXCEPT ![c] = @ \cup sending.txs]
               /\ Picked(pending)
               /\ UNCHANGED lost
       /\ UNCHANGED <<netVars, pool, events, queued, casting, snap, used>>

-----------------------------------------------------------------------------
Handle(c) == Connect(c) \/ Handshake(c) \/ Register(c) \/ Snapshot(c) \/ Offer(c) \/ Leave(c)
Remove(a) == RemoveLook(a) \/ RemoveUnregister(a) \/ RemoveDisconnect(a)

Next ==
    \/ \E c \in Conn : Handle(c) \/ Break(c) \/ Broadcast(c) \/ BroadcastEnds(c)
    \/ \E i \in Ids : Drop(i)
    \/ \E a \in Conn \cup {Dropper} : Remove(a)
    \/ \E x \in Tx : AddLocal(x) \/ BroadcastTx(x)
    \/ \E c \in Conn, x \in Tx : ReceiveTx(c, x)
    \/ SendDone \/ Quit \/ ClosePeers \/ Stopped

-----------------------------------------------------------------------------
(* Properties. *)

Stages == {"off", "started", "shaken", "registered", "offering", "running", "leaving", "ended"}
Entries == [conn : Conn, txs : SUBSET Tx \ {{}}]

\* Types; a transaction is queued at most up to the capacity of the queue.
TypeOK ==
    /\ pool \subseteq Tx /\ events \subseteq Tx
    /\ stage \in [Conn -> Stages]
    /\ \A i \in Ids : peers[i] # None => ID[peers[i]] = i
    /\ broken \subseteq Conn /\ casting \subseteq Conn
    /\ \A c \in Conn : Len(queued[c]) <= MaxQueuedTxs
    /\ \A i \in Ids : pending[i] # None => pending[i] \in Entries /\ ID[pending[i].conn] = i
    /\ sending # None => sending \in Entries

\* Where a transaction of the pool is on its way to the peer of c.
OnItsWay(c, x) ==
    \/ x \in events \cup snap[c]
    \/ stage[c] = "registered"
    \/ \E k \in 1..Len(queued[c]) : queued[c][k] = x
    \/ pending[ID[c]] # None /\ pending[ID[c]].conn = c /\ x \in pending[ID[c]].txs
    \/ sending # None /\ sending.conn = c /\ x \in sending.txs

\* A registered peer has every transaction of the pool, or it is on its way, whichever of
\* registration, snapshot and broadcast comes first.  The exceptions are a full queue and the
\* error of an earlier connection with the same id (handler.go: handle; sync.go: txsyncLoop).
NoTxMissed ==
    stop = "no" => \A c \in Registered \ broken, x \in pool :
        x \in got[c] \cup lost[c] \/ OnItsWay(c, x)

\* What waits in txsyncLoop is being worked on: a package is under way whenever something
\* is pending.
NeverIdle == (\E i \in Ids : pending[i] # None) => sending # None

\* Once Stop has returned no handler is registered or past it, also when a connection came
\* in while Stop ran (peerSet.Close and Register).
StoppedQuiet ==
    stop = "stopped" => Registered = {} /\ \A c \in Conn : stage[c] \in {"off", "started", "shaken", "ended"}

\* Once Stop began it ends: no handler stays blocked on txsyncCh or on its connection.
StopEnds == stop = "quit" ~> stop = "stopped"

Fairness ==
    /\ WF_vars(ClosePeers \/ Stopped)
    /\ \A c \in Conn : WF_vars(Handshake(c) \/ Register(c) \/ Snapshot(c) \/ Offer(c) \/ Leave(c))
    /\ \A a \in Conn : WF_vars(Remove(a))

=============================================================================
