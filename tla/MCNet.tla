-------------------------------- MODULE MCNet ---------------------------------
(*****************************************************************************)
(* The node's side of the network, one part at a time; a scenario fixes the  *)
(* part, and the variables of the others stay Absent.                        *)
(*                                                                           *)
(* again: a peer that reconnects under its id, with one dropped              *)
(* two, leave: two peers, transactions and drops while the manager stops     *)
(* headers: answers to header queries, on two branches of six blocks         *)
(* mode: one call of synchronise at a time                                   *)
(* server: four connections to three nodes, one of them the node itself      *)
(* peer: the goroutines of a peer with two protocols                         *)
(* dial: the dial scheduler, with a static node, itself, and a bootnode      *)
(* buckets, lookup, table, udp: the node table, a lookup, the goroutines of  *)
(*     the table, and the requests of the discovery protocol                 *)
(*****************************************************************************)
EXTENDS Integers, Sequences, TLC

CONSTANTS peer1, peer2, NoValue, Absent

VARIABLES
    scenario,
    pool, events, stage, peers, broken, known, queued, casting, snap, pending, sending, got, lost, removal,
    stop, used,
    side, query, headers, budget, phase, reorgs,
    block, fast, ptd, fastSync, acceptTxs, synchronising, call, succeeded, failures,
    vStage, vPeers, inboundCount, trusted, flagged, admitted, vPhase, changes,
    run, closed, token, writeErr, readErr, protoErr, reader, pinger, proto, bad, discs, writes, msgs,
    srv, now, dChanges,
    tab, fails, tQuery, revalidating, adds,
    result, asked, seen, querying, reply, table0,
    refreshes, refreshDone, revalidation, waiting, initDone, lookup, loop, close, lookups,
    uNow, plist, uResult, next, timerAt, fired, caller, reading, closing, up, pinged, lastPing, lastPong,
    table

managerVars == <<pool, events, stage, peers, broken, known, queued, casting, snap, pending, sending, got,
                  lost, removal, stop, used>>
queryVars == <<side, query, headers, budget, phase, reorgs>>
syncVars == <<block, fast, ptd, fastSync, acceptTxs, synchronising, call, succeeded, failures>>
serverVars == <<vStage, vPeers, inboundCount, trusted, flagged, admitted, vPhase, changes>>
peerVars == <<run, closed, token, writeErr, readErr, protoErr, reader, pinger, proto, bad, discs, writes,
               msgs>>
dialVars == <<srv, now, dChanges>>
tableVars == <<tab, fails, tQuery, revalidating, adds>>
lookupVars == <<result, asked, seen, querying, reply, table0>>
loopVars == <<refreshes, refreshDone, revalidation, waiting, initDone, lookup, loop, close, lookups>>
udpVars == <<uNow, plist, uResult, next, timerAt, fired, caller, reading, closing, up, pinged, lastPing,
              lastPong, table>>

vars == <<scenario,
          pool, events, stage, peers, broken, known, queued, casting, snap, pending, sending, got, lost,
          removal, stop, used,
          side, query, headers, budget, phase, reorgs,
          block, fast, ptd, fastSync, acceptTxs, synchronising, call, succeeded, failures,
          vStage, vPeers, inboundCount, trusted, flagged, admitted, vPhase, changes,
          run, closed, token, writeErr, readErr, protoErr, reader, pinger, proto, bad, discs, writes, msgs,
          srv, now, dChanges,
          tab, fails, tQuery, revalidating, adds,
          result, asked, seen, querying, reply, table0,
          refreshes, refreshDone, revalidation, waiting, initDone, lookup, loop, close, lookups,
          uNow, plist, uResult, next, timerAt, fired, caller, reading, closing, up, pinged, lastPing,
          lastPong, table>>

Server4 == ("c1" :> "x") @@ ("c2" :> "x") @@ ("c3" :> "y") @@ ("c4" :> "z")

At(i, n) == [id |-> i, net |-> n]

Again == INSTANCE ProtocolManager WITH
    Conn <- {peer1, peer2}, ID <- (peer1 :> "i") @@ (peer2 :> "i"), Tx <- {"x"}, MaxBreaks <- 1,
    MaxDrops <- 1, MaxPeers <- 2, MaxQueuedTxs <- 1, MaxKnownTxs <- 1, MaxPack <- 1, MayStop <- FALSE,
    None <- NoValue

Two == INSTANCE ProtocolManager WITH
    Conn <- {peer1, peer2}, ID <- (peer1 :> "i") @@ (peer2 :> "j"), Tx <- {"x", "y"}, MaxPeers <- 2,
    MaxQueuedTxs <- 1, MaxKnownTxs <- 1, MaxPack <- 1, MaxBreaks <- 0, MaxDrops <- 0, MayStop <- FALSE,
    None <- NoValue

Leave == INSTANCE ProtocolManager WITH
    Conn <- {peer1, peer2}, ID <- (peer1 :> "i") @@ (peer2 :> "j"), Tx <- {"x"}, MaxBreaks <- 1,
    MayStop <- TRUE, MaxPeers <- 2, MaxQueuedTxs <- 1, MaxKnownTxs <- 1, MaxPack <- 1, MaxDrops <- 0,
    None <- NoValue

Answers == INSTANCE HeaderQuery WITH
    W <- 4, Fork <- 2, Height <- 5, Amounts <- {1, 2, 4}, Skips <- {0, 1, 2, 12, 14, 15}, MaxHeaderFetch <- 3,
    MaxNonCanonical <- 4, MaxReorgs <- 1

Mode == INSTANCE ChainSync WITH
    Call <- {"c"}, MaxTd <- 4, MaxFailures <- 1

Server == INSTANCE P2PServer WITH
    Conn <- DOMAIN Server4, Node <- Server4, Inbound <- {"c1", "c3"}, Static <- {"c2"}, Self <- "z",
    MaxPeers <- 1, MaxInbound <- 1, MaxPendingPeers <- 2, Trusted0 <- {"y"}, MaxTrust <- 1, stage <- vStage,
    peers <- vPeers, phase <- vPhase

Run == INSTANCE PeerRun WITH
    Proto <- {"x", "y"}, MaxWrites <- 2, MaxMsgs <- 2

Dials == INSTANCE Dial WITH
    Node <- {"w", "x", "y", "z"}, Self <- "z", Static0 <- {"x", "z"}, Boot <- {"y"}, maxDynDials <- 2,
    maxActiveDialTasks <- 2, dialHistoryExpiration <- 2, fallbackInterval <- 1, MaxTime <- 3, MaxChanges <- 1,
    changes <- dChanges

Buckets == INSTANCE DiscoverTable WITH
    Node <- {At("x", "s"), At("y", "s"), At("z", "s"), At("x", "lan")}, Bucket <- {1, 2},
    BucketOf <- [i \in {"x", "y", "z"} |-> IF i = "z" THEN 2 ELSE 1], Lan <- "lan", bucketSize <- 1,
    maxReplacements <- 1, bucketIPLimit <- 2, tableIPLimit <- 3, maxFindnodeFailures <- 1,
    Query <- {"q", "r"}, MaxAdds <- 4, None <- NoValue, query <- tQuery

Look == INSTANCE DiscoverLookup WITH
    Node <- 1..4, Self <- 3, bucketSize <- 2, alpha <- 2, MaxReply <- 2

Loop == INSTANCE DiscoverLoop WITH
    Lookup <- {peer1, peer2}, MaxLookups <- 4

Udp == INSTANCE DiscoverUDP WITH
    Peer <- {peer1}, Caller <- {peer2}, respTimeout <- 1, bucketSize <- 2, MaxTime <- 3, MaxCalls <- 3,
    None <- NoValue, now <- uNow, result <- uResult

-----------------------------------------------------------------------------
ManagerOff == pool = Absent /\ events = Absent /\ stage = Absent /\ peers = Absent /\ broken = Absent /\
              known = Absent /\ queued = Absent /\ casting = Absent /\ snap = Absent /\ pending = Absent /\
              sending = Absent /\ got = Absent /\ lost = Absent /\ removal = Absent /\ stop = Absent /\
              used = Absent
QueryOff == side = Absent /\ query = Absent /\ headers = Absent /\ budget = Absent /\ phase = Absent /\
            reorgs = Absent
SyncOff == block = Absent /\ fast = Absent /\ ptd = Absent /\ fastSync = Absent /\ acceptTxs = Absent /\
           synchronising = Absent /\ call = Absent /\ succeeded = Absent /\ failures = Absent
ServerOff == vStage = Absent /\ vPeers = Absent /\ inboundCount = Absent /\ trusted = Absent /\
             flagged = Absent /\ admitted = Absent /\ vPhase = Absent /\ changes = Absent
PeerOff == run = Absent /\ closed = Absent /\ token = Absent /\ writeErr = Absent /\ readErr = Absent /\
           protoErr = Absent /\ reader = Absent /\ pinger = Absent /\ proto = Absent /\ bad = Absent /\
           discs = Absent /\ writes = Absent /\ msgs = Absent
DialOff == srv = Absent /\ now = Absent /\ dChanges = Absent
TableOff == tab = Absent /\ fails = Absent /\ tQuery = Absent /\ revalidating = Absent /\ adds = Absent
LookupOff == result = Absent /\ asked = Absent /\ seen = Absent /\ querying = Absent /\ reply = Absent /\
             table0 = Absent
LoopOff == refreshes = Absent /\ refreshDone = Absent /\ revalidation = Absent /\ waiting = Absent /\
           initDone = Absent /\ lookup = Absent /\ loop = Absent /\ close = Absent /\ lookups = Absent
UdpOff == uNow = Absent /\ plist = Absent /\ uResult = Absent /\ next = Absent /\ timerAt = Absent /\
          fired = Absent /\ caller = Absent /\ reading = Absent /\ closing = Absent /\ up = Absent /\
          pinged = Absent /\ lastPing = Absent /\ lastPong = Absent /\ table = Absent

\* The variables of the other parts.
OthersOff(part) ==
    /\ part # "manager" => ManagerOff
    /\ part # "query" => QueryOff
    /\ part # "sync" => SyncOff
    /\ part # "server" => ServerOff
    /\ part # "peer" => PeerOff
    /\ part # "dial" => DialOff
    /\ part # "table" => TableOff
    /\ part # "lookup" => LookupOff
    /\ part # "loop" => LoopOff
    /\ part # "udp" => UdpOff
OthersSame(part) ==
    /\ UNCHANGED scenario
    /\ part # "manager" => UNCHANGED managerVars
    /\ part # "query" => UNCHANGED queryVars
    /\ part # "sync" => UNCHANGED syncVars
    /\ part # "server" => UNCHANGED serverVars
    /\ part # "peer" => UNCHANGED peerVars
    /\ part # "dial" => UNCHANGED dialVars
    /\ part # "table" => UNCHANGED tableVars
    /\ part # "lookup" => UNCHANGED lookupVars
    /\ part # "loop" => UNCHANGED loopVars
    /\ part # "udp" => UNCHANGED udpVars

Init ==
    \/ scenario = "again" /\ Again!Init /\ OthersOff("manager")
    \/ scenario = "two" /\ Two!Init /\ OthersOff("manager")
    \/ scenario = "leave" /\ Leave!Init /\ OthersOff("manager")
    \/ scenario = "headers" /\ Answers!Init /\ OthersOff("query")
    \/ scenario = "mode" /\ Mode!Init /\ OthersOff("sync")
    \/ scenario = "server" /\ Server!Init /\ OthersOff("server")
    \/ scenario = "peer" /\ Run!Init /\ OthersOff("peer")
    \/ scenario = "dial" /\ Dials!Init /\ OthersOff("dial")
    \/ scenario = "buckets" /\ Buckets!Init /\ OthersOff("table")
    \/ scenario = "lookup" /\ Look!Init /\ OthersOff("lookup")
    \/ scenario = "table" /\ Loop!Init /\ OthersOff("loop")
    \/ scenario = "udp" /\ Udp!Init /\ OthersOff("udp")

Next ==
    \/ scenario = "again" /\ Again!Next /\ OthersSame("manager")
    \/ scenario = "two" /\ Two!Next /\ OthersSame("manager")
    \/ scenario = "leave" /\ Leave!Next /\ OthersSame("manager")
    \/ scenario = "headers" /\ Answers!Next /\ OthersSame("query")
    \/ scenario = "mode" /\ Mode!Next /\ OthersSame("sync")
    \/ scenario = "server" /\ Server!Next /\ OthersSame("server")
    \/ scenario = "peer" /\ Run!Next /\ OthersSame("peer")
    \/ scenario = "dial" /\ Dials!Next /\ OthersSame("dial")
    \/ scenario = "buckets" /\ Buckets!Next /\ OthersSame("table")
    \/ scenario = "lookup" /\ Look!Next /\ OthersSame("lookup")
    \/ scenario = "table" /\ Loop!Next /\ OthersSame("loop")
    \/ scenario = "udp" /\ Udp!Next /\ OthersSame("udp")

Spec == Init /\ [][Next]_vars

-----------------------------------------------------------------------------
(* A registered peer has every transaction of the pool, or it is on its way,
   whichever of registration, snapshot and broadcast comes first; while
   transactions wait in txsyncLoop a package is being sent; and when
   ProtocolManager.Stop has returned no handler of a peer is left past
   registration. *)
PeersServed ==
    /\ scenario = "again" => Again!TypeOK /\ Again!NoTxMissed /\ Again!NeverIdle
    /\ scenario = "two" => Two!TypeOK /\ Two!NoTxMissed /\ Two!NeverIdle
    /\ scenario = "leave" => Leave!TypeOK /\ Leave!NoTxMissed /\ Leave!NeverIdle /\ Leave!StoppedQuiet

(* The headers answered to GetBlockHeaders by hash are of one chain, Skip + 1
   apart, on overflow and across a reorganisation too. *)
AnswerLinked ==
    scenario = "headers" => Answers!TypeOK /\ Answers!AnswerLinked

(* Transactions are accepted only by a node with a block beyond genesis, and
   fast synchronisation is off once a synchronisation has succeeded, with one
   call of synchronise at a time. *)
ModeSound ==
    scenario = "mode" => Mode!TypeOK /\ Mode!AcceptsLate /\ Mode!FastSyncDisabled

(* The peers of Server.run are exactly the connections that run or wait on
   delpeer, its inbound counter is that of the inbound ones, no more
   unprivileged peers are let in than the limits allow and the node never
   itself, and a stopped server has no running peer. *)
PeersExact ==
    scenario = "server" => Server!TypeOK /\ Server!PeersExact /\ Server!InboundExact /\ Server!Bounded /\
                              Server!StoppedClean

(* One write at a time uses the connection of a peer, and when Peer.run has
   left its loop each of its goroutines finds room in the channel it reports
   to. *)
PeerQuiet ==
    scenario = "peer" => Run!TypeOK /\ Run!OneWriter /\ Run!NoneBlocked

(* A node has one dial task if it is marked as being dialed and none
   otherwise, at most maxDynDials nodes from discovery are connected or being
   dialed, and while more connections are wanted a task runs whose end wakes
   the loop. *)
DialsExact ==
    scenario = "dial" => Dials!TypeOK /\ Dials!DialOnce /\ Dials!DynBounded /\ Dials!Awake

(* An id is at most once in its bucket and ReadRandomNodes returns every node
   once; a lookup asks each node of its result, which is ordered and begins
   with the closest one it came to know; one refresh of the table runs at a
   time and releases every lookup that waits for one; and nothing of the
   table runs when Close returns. *)
TableExact ==
    /\ scenario = "buckets" => Buckets!TypeOK /\ Buckets!NoDuplicates /\ Buckets!RandomNodesAll
    /\ scenario = "lookup" => Look!TypeOK /\ Look!AllAsked /\ Look!Closest
    /\ scenario = "table" => Loop!TypeOK /\ Loop!OneRefresh /\ Loop!RefreshComes /\ Loop!ClosedQuiet

(* A request of the discovery protocol is answered exactly once, by a reply,
   a timeout or the end of the loop; while one waits, the timer is set early
   enough or has gone off; and a peer that pings us enters the table only
   after a pong of its own. *)
RequestsAnswered ==
    scenario = "udp" => Udp!TypeOK /\ Udp!AnsweredOnce /\ Udp!TimerArmed /\ Udp!TableBonded
=============================================================================
