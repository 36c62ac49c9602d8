-------------------------------- MODULE MCLive --------------------------------
(*****************************************************************************)
(* What has to happen in the end, each part under the fairness its module    *)
(* states; a scenario fixes the part, and the variables of the others stay   *)
(* Absent.  The fairness is repeated here for each scenario.                 *)
(*                                                                           *)
(* future: a chain that puts blocks aside whose time has not come            *)
(* bodies, headers: the download of bodies and of headers                    *)
(* fast, resume, full, light: whole synchronisations                         *)
(* leave: a protocol manager that stops                                      *)
(* mode: calls of synchronise, with failures                                 *)
(*****************************************************************************)
EXTENDS Integers, Sequences, FiniteSets, TLC

CONSTANTS g, a1, a2, b1, b2, b3, c1, peer1, peer2, master, NoValue, Absent

VARIABLES
    scenario,
    db, mem, now, status, used,
    queued, cache, offset, limit, filled, closed, peers, conn, asked, scheduled, loop, qStatus, qUsed,
    at, from, skeleton, batch, hq, pend, finished, cont, alive, wire, procCh, processed, head, spent,
    remote, heads, states, dFrom, dProcCh, rollback, got, dScheduled, ready, taken, dClosed, pivot, committed,
    oldPivot, sync, done, canceled, err, dUsed,
    pool, events, stage, mPeers, broken, known, mQueued, casting, snap, pending, sending, mGot, lost, removal,
    stop, mUsed,
    block, fast, ptd, fastSync, acceptTxs, synchronising, call, succeeded, failures

chainVars == <<db, mem, now, status, used>>
queueVars == <<queued, cache, offset, limit, filled, closed, peers, conn, asked, scheduled, loop, qStatus,
                qUsed>>
headersVars == <<at, from, skeleton, batch, hq, pend, finished, cont, alive, wire, procCh, processed, head,
                  spent>>
sessionVars == <<remote, heads, states, dFrom, dProcCh, rollback, got, dScheduled, ready, taken, dClosed,
                  pivot, committed, oldPivot, sync, done, canceled, err, dUsed>>
managerVars == <<pool, events, stage, mPeers, broken, known, mQueued, casting, snap, pending, sending, mGot,
                  lost, removal, stop, mUsed>>
syncVars == <<block, fast, ptd, fastSync, acceptTxs, synchronising, call, succeeded, failures>>

vars == <<scenario,
          db, mem, now, status, used,
          queued, cache, offset, limit, filled, closed, peers, conn, asked, scheduled, loop, qStatus, qUsed,
          at, from, skeleton, batch, hq, pend, finished, cont, alive, wire, procCh, processed, head, spent,
          remote, heads, states, dFrom, dProcCh, rollback, got, dScheduled, ready, taken, dClosed, pivot,
          committed, oldPivot, sync, done, canceled, err, dUsed,
          pool, events, stage, mPeers, broken, known, mQueued, casting, snap, pending, sending, mGot, lost,
          removal, stop, mUsed,
          block, fast, ptd, fastSync, acceptTxs, synchronising, call, succeeded, failures>>

At(h, f, b) == [header |-> h, fast |-> f, block |-> b]

\* Two branches of the chain, a1 - a2 and b1 - b2 - b3; b3 is invalid, c1 malformed.
Forked == [b \in {a1, a2, b1, b2, b3, c1} |->
    CASE b \in {a1, b1} -> g [] b \in {a2, c1} -> a1 [] b = b2 -> b1 [] b = b3 -> b2]
Slices ==
    {<<b>> : b \in DOMAIN Forked}
    \cup {s \in [1..2 -> DOMAIN Forked] : Forked[s[2]] = s[1]}
    \cup {s \in [1..3 -> DOMAIN Forked] : Forked[s[2]] = s[1] /\ Forked[s[3]] = s[2]}

Ahead == INSTANCE BlockChain WITH
    Block <- {g} \cup DOMAIN Forked, Genesis <- g, Parent <- Forked,
    Difficulty <- [b \in {g} \cup DOMAIN Forked |-> CASE b = b2 -> 4 [] b = g -> 1 [] OTHER -> 2], Tx <- {},
    Txs <- [b \in {g} \cup DOMAIN Forked |-> {}],
    Time <- [b \in {g} \cup DOMAIN Forked |-> CASE b \in {a2, b2} -> 1 [] b = b3 -> 2 [] OTHER -> 0],
    Malformed <- {c1}, Invalid <- {b3}, Preserved <- {}, Mined <- {}, Segments <- Slices, Rewinds <- {},
    CacheDisabled <- TRUE, TriesInMemory <- 4, MaxAhead <- 1, MaxTime <- 2, MaxRewinds <- 0, MaxStops <- 0,
    MaxCrashes <- 0, MaxCuts <- 0, None <- NoValue

Bodies == INSTANCE DownloadQueue WITH
    Peer <- {peer1, peer2}, Master <- peer1, Kinds <- {"body"}, Height <- 4, Chunk <- 3,
    Noop <- [k \in {"body"} |-> {2}], CacheItems <- 3, Limits <- {1, 3}, MaxResults <- 2, MaxQueued <- 4,
    Capacity <- 3, MaxExpiries <- 1, MaxLeaves <- 1, MaxJoins <- 0, MaxJunk <- 1, status <- qStatus,
    used <- qUsed

Headers == INSTANCE HeaderFetch WITH
    Peer <- {master, peer1, peer2}, Master <- master,
    Serves <- [i \in {master, peer1, peer2} |-> CASE i = master -> {1, 3, 5, 7} [] i = peer1 -> {1, 5} [] OTHER -> {3, 7}],
    Height <- 9, F <- 2, MaxSkeletonSize <- 2, reorgProtThreshold <- 1, reorgProtHeaderDelay <- 1,
    MaxExpiries <- 1, MaxJunk <- 1

Fast == INSTANCE Downloader WITH
    Mode <- "fast", Local <- At(0, 0, 0), Remote <- 3, MaxRemote <- 5, Bad <- 0, Batch <- 2,
    fsMinFullBlocks <- 1, fsHeaderSafetyNet <- 3, fsHeaderForceVerify <- 1, MaxCancels <- 1,
    MaxStateErrors <- 1, from <- dFrom, procCh <- dProcCh, scheduled <- dScheduled, closed <- dClosed,
    used <- dUsed

Resume == INSTANCE Downloader WITH
    Mode <- "fast", Local <- At(3, 2, 0), Remote <- 3, MaxRemote <- 4, Bad <- 4, Batch <- 2,
    fsMinFullBlocks <- 1, fsHeaderSafetyNet <- 3, fsHeaderForceVerify <- 1, MaxCancels <- 1,
    MaxStateErrors <- 0, from <- dFrom, procCh <- dProcCh, scheduled <- dScheduled, closed <- dClosed,
    used <- dUsed

Full == INSTANCE Downloader WITH
    Mode <- "full", Local <- At(1, 1, 1), Remote <- 3, MaxRemote <- 4, Bad <- 4, Batch <- 2,
    fsMinFullBlocks <- 1, fsHeaderSafetyNet <- 3, fsHeaderForceVerify <- 1, MaxCancels <- 1,
    MaxStateErrors <- 0, from <- dFrom, procCh <- dProcCh, scheduled <- dScheduled, closed <- dClosed,
    used <- dUsed

Light == INSTANCE Downloader WITH
    Mode <- "light", Local <- At(1, 0, 0), Remote <- 4, MaxRemote <- 6, Bad <- 6, Batch <- 2,
    fsMinFullBlocks <- 1, fsHeaderSafetyNet <- 3, fsHeaderForceVerify <- 1, MaxCancels <- 1,
    MaxStateErrors <- 0, from <- dFrom, procCh <- dProcCh, scheduled <- dScheduled, closed <- dClosed,
    used <- dUsed

Leave == INSTANCE ProtocolManager WITH
    Conn <- {peer1, peer2}, ID <- (peer1 :> "i") @@ (peer2 :> "j"), Tx <- {"x"}, MaxPeers <- 2,
    MaxQueuedTxs <- 1, MaxKnownTxs <- 1, MaxPack <- 1, MaxBreaks <- 1, MaxDrops <- 0, MayStop <- TRUE,
    None <- NoValue, peers <- mPeers, queued <- mQueued, got <- mGot, used <- mUsed

Mode == INSTANCE ChainSync WITH
    Call <- {peer1, peer2}, MaxTd <- 3, MaxFailures <- 2

-----------------------------------------------------------------------------
ChainOff == db = Absent /\ mem = Absent /\ now = Absent /\ status = Absent /\ used = Absent
QueueOff == queued = Absent /\ cache = Absent /\ offset = Absent /\ limit = Absent /\ filled = Absent /\
            closed = Absent /\ peers = Absent /\ conn = Absent /\ asked = Absent /\ scheduled = Absent /\
            loop = Absent /\ qStatus = Absent /\ qUsed = Absent
HeadersOff == at = Absent /\ from = Absent /\ skeleton = Absent /\ batch = Absent /\ hq = Absent /\
              pend = Absent /\ finished = Absent /\ cont = Absent /\ alive = Absent /\ wire = Absent /\
              procCh = Absent /\ processed = Absent /\ head = Absent /\ spent = Absent
SessionOff == remote = Absent /\ heads = Absent /\ states = Absent /\ dFrom = Absent /\ dProcCh = Absent /\
              rollback = Absent /\ got = Absent /\ dScheduled = Absent /\ ready = Absent /\ taken = Absent /\
              dClosed = Absent /\ pivot = Absent /\ committed = Absent /\ oldPivot = Absent /\
              sync = Absent /\ done = Absent /\ canceled = Absent /\ err = Absent /\ dUsed = Absent
ManagerOff == pool = Absent /\ events = Absent /\ stage = Absent /\ mPeers = Absent /\ broken = Absent /\
              known = Absent /\ mQueued = Absent /\ casting = Absent /\ snap = Absent /\ pending = Absent /\
              sending = Absent /\ mGot = Absent /\ lost = Absent /\ removal = Absent /\ stop = Absent /\
              mUsed = Absent
SyncOff == block = Absent /\ fast = Absent /\ ptd = Absent /\ fastSync = Absent /\ acceptTxs = Absent /\
           synchronising = Absent /\ call = Absent /\ succeeded = Absent /\ failures = Absent

\* The variables of the other parts.
OthersOff(part) ==
    /\ part # "chain" => ChainOff
    /\ part # "queue" => QueueOff
    /\ part # "headers" => HeadersOff
    /\ part # "session" => SessionOff
    /\ part # "manager" => ManagerOff
    /\ part # "sync" => SyncOff
OthersSame(part) ==
    /\ UNCHANGED scenario
    /\ part # "chain" => UNCHANGED chainVars
    /\ part # "queue" => UNCHANGED queueVars
    /\ part # "headers" => UNCHANGED headersVars
    /\ part # "session" => UNCHANGED sessionVars
    /\ part # "manager" => UNCHANGED managerVars
    /\ part # "sync" => UNCHANGED syncVars

Init ==
    \/ scenario = "future" /\ Ahead!Init /\ OthersOff("chain")
    \/ scenario = "bodies" /\ Bodies!Init /\ OthersOff("queue")
    \/ scenario = "headers" /\ Headers!Init /\ OthersOff("headers")
    \/ scenario = "fast" /\ Fast!Init /\ OthersOff("session")
    \/ scenario = "resume" /\ Resume!Init /\ OthersOff("session")
    \/ scenario = "full" /\ Full!Init /\ OthersOff("session")
    \/ scenario = "light" /\ Light!Init /\ OthersOff("session")
    \/ scenario = "leave" /\ Leave!Init /\ OthersOff("manager")
    \/ scenario = "mode" /\ Mode!Init /\ OthersOff("sync")

Next ==
    \/ scenario = "future" /\ Ahead!Next /\ OthersSame("chain")
    \/ scenario = "bodies" /\ Bodies!Next /\ OthersSame("queue")
    \/ scenario = "headers" /\ Headers!Next /\ OthersSame("headers")
    \/ scenario = "fast" /\ Fast!Next /\ OthersSame("session")
    \/ scenario = "resume" /\ Resume!Next /\ OthersSame("session")
    \/ scenario = "full" /\ Full!Next /\ OthersSame("session")
    \/ scenario = "light" /\ Light!Next /\ OthersSame("session")
    \/ scenario = "leave" /\ Leave!Next /\ OthersSame("manager")
    \/ scenario = "mode" /\ Mode!Next /\ OthersSame("sync")

(* A behaviour stays in one scenario, so the conditions of all scenarios are joined in one
   formula of each kind.  Where a module bounds all that can happen, one condition for its
   steps together is enough; it is weaker than the one the module states. *)
Session ==
    \/ scenario = "fast" /\ Fast!Work
    \/ scenario = "resume" /\ Resume!Work
    \/ scenario = "full" /\ Full!Work
    \/ scenario = "light" /\ Light!Work

Manager ==
    /\ scenario = "leave"
    /\ \/ Leave!ClosePeers \/ Leave!Stopped
       \/ \E c \in {peer1, peer2} : \/ Leave!Handshake(c) \/ Leave!Register(c) \/ Leave!Snapshot(c)
                            \/ Leave!Offer(c) \/ Leave!Leave(c) \/ Leave!Remove(c)

Call(c) ==
    /\ scenario = "mode"
    /\ Mode!Read(c) \/ Mode!Choose(c) \/ Mode!Enter(c) \/ Mode!Succeed(c) \/ Mode!After(c)

Fairness ==
    /\ WF_vars(\/ Session /\ OthersSame("session")
               \/ Manager /\ OthersSame("manager")
               \/ Call(peer1) /\ OthersSame("sync")
               \/ scenario = "headers" /\ Headers!Next /\ OthersSame("headers")
               \/ scenario = "future" /\ Ahead!Tick /\ OthersSame("chain")
               \/ scenario = "bodies" /\ OthersSame("queue")
                  /\ (Bodies!Schedule \/ Bodies!Results \/ Bodies!Close \/ Bodies!Done))
    /\ WF_vars(\/ Call(peer2) /\ OthersSame("sync")
               \/ scenario = "future" /\ Ahead!FutureTimer /\ OthersSame("chain")
               \/ scenario = "bodies" /\ Bodies!Wake("body") /\ OthersSame("queue"))
    /\ WF_queueVars(scenario = "bodies" /\ (Bodies!NonePending("body") \/ Bodies!Finish("body")))
    /\ SF_queueVars(scenario = "bodies" /\ (Bodies!NoPeers("body") \/ Bodies!Unavailable("body")))
    /\ SF_queueVars(scenario = "bodies" /\ \E i \in {peer1, peer2} : Bodies!Reserve("body", i))
    /\ SF_queueVars(scenario = "bodies" /\ \E i \in {peer1, peer2} : Bodies!Answer("body", i))
    /\ []<>(scenario = "future" => mem.imp.pc # "write")
    /\ []<>(scenario = "future" => mem.imp.pc # "next")
    /\ []<>(scenario = "future" => ~(status = "running" /\ mem.imp = Ahead!Idle /\ mem.futq # {}))

Spec == Init /\ [][Next]_vars /\ Fairness

-----------------------------------------------------------------------------
(* A download of bodies ends if the peers answer what they are asked for,
   however late, and so does one of headers (fetchParts, fillHeaderSkeleton);
   every synchronisation ends, whichever of its goroutines fails or is
   canceled first (spawnSync); and the head catches up with the best peer,
   after failed synchronisations too (syncer). *)
SyncEnds ==
    []<>(/\ scenario = "bodies" => ~Bodies!Running \/ qUsed.junk > 0
         /\ scenario = "headers" => at \notin {"ask", "fill", "send"}
         /\ scenario = "fast" => Fast!Over
         /\ scenario = "resume" => Resume!Over
         /\ scenario = "full" => Full!Over
         /\ scenario = "light" => Light!Over
         /\ scenario = "mode" => block >= ptd)

(* A block put aside because its time had not come leaves the cache once it
   has come, unless it or an ancestor is no good (procFutureBlocks). *)
FutureImported ==
    []<>(scenario = "future" => mem.future \cap {a1, a2, b1, b2} = {})

(* Once ProtocolManager.Stop began it ends. *)
StopEnds ==
    []<>(scenario = "leave" => stop \in {"no", "stopped"})
=============================================================================
