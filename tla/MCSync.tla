------------------------------- MODULE MCSync -------------------------------
(***************************************************************************)
(* The parts of a synchronisation, one at a time; a scenario fixes the     *)
(* part, and the variables of the others stay Absent.                         *)
(*                                                                         *)
(* bodies, parts: the download queue of a full and of a fast               *)
(*     synchronisation, with two peers                                     *)
(* state: the download of the states r and t, which share the leaf c; the  *)
(*     accounts of a and c have the same code x, that of a the storage s   *)
(* fast, full, light, resume: a whole synchronisation in each mode, and a  *)
(*     fast one on a chain that already has headers                        *)
(* headers: two skeletons of two gaps and one more header, three peers     *)
(* ancestor: the search for the common ancestor                            *)
(***************************************************************************)
EXTENDS Integers, Sequences, TLC

CONSTANTS peer1, peer2, master, Absent

VARIABLES
    scenario,
    queued, cache, offset, limit, filled, closed, peers, conn, asked, scheduled, loop, status, used,
    db, root, sched, tasks, sStatus, active, finished, busy, sPeers, wire, sUsed,
    remote, heads, states, from, procCh, rollback, got, dScheduled, ready, taken, dClosed,
    pivot, committed, oldPivot, sync, done, canceled, err, dUsed,
    at, hFrom, skeleton, batch, hq, pend, hFinished, cont, alive, hWire, hProcCh, processed, head, spent,
    localHeight, remoteHeight, common, start, end, phase, number, imports

queueVars == <<queued, cache, offset, limit, filled, closed, peers, conn, asked, scheduled, loop, status, used>>
stateVars == <<db, root, sched, tasks, sStatus, active, finished, busy, sPeers, wire, sUsed>>
sessionVars == <<remote, heads, states, from, procCh, rollback, got, dScheduled, ready, taken, dClosed,
                 pivot, committed, oldPivot, sync, done, canceled, err, dUsed>>
headersVars == <<at, hFrom, skeleton, batch, hq, pend, hFinished, cont, alive, hWire, hProcCh, processed, head, spent>>
searchVars == <<localHeight, remoteHeight, common, start, end, phase, number, imports>>

vars == <<scenario,
          queued, cache, offset, limit, filled, closed, peers, conn, asked, scheduled, loop, status, used,
          db, root, sched, tasks, sStatus, active, finished, busy, sPeers, wire, sUsed,
          remote, heads, states, from, procCh, rollback, got, dScheduled, ready, taken, dClosed, pivot, committed, oldPivot, sync, done, canceled, err, dUsed,
          at, hFrom, skeleton, batch, hq, pend, hFinished, cont, alive, hWire, hProcCh, processed, head, spent,
          localHeight, remoteHeight, common, start, end, phase, number, imports>>

Bodies == INSTANCE DownloadQueue WITH
    Peer <- {peer1, peer2}, Master <- peer1, Kinds <- {"body"}, Height <- 4, Chunk <- 3,
    Noop <- [k \in {"body"} |-> {2}], CacheItems <- 3, Limits <- {1, 3}, MaxResults <- 2,
    MaxQueued <- 4, Capacity <- 3, MaxExpiries <- 1, MaxLeaves <- 1, MaxJoins <- 1, MaxJunk <- 1

Parts == INSTANCE DownloadQueue WITH
    Peer <- {peer1, peer2}, Master <- peer1, Kinds <- {"body", "receipt"}, Height <- 2, Chunk <- 2,
    Noop <- [k \in {"body", "receipt"} |-> IF k = "body" THEN {} ELSE {2}],
    CacheItems <- 2, Limits <- {1, 2}, MaxResults <- 2, MaxQueued <- 2, Capacity <- 2,
    MaxExpiries <- 1, MaxLeaves <- 0, MaxJoins <- 0, MaxJunk <- 0

StateKids == [n \in {"r", "a", "c", "s", "x", "t"} |->
    CASE n = "r" -> <<"a", "c">> [] n = "a" -> <<"c", "c">> [] n = "t" -> <<"c">> [] OTHER -> << >>]
StateAccounts == [n \in {"r", "a", "c", "s", "x", "t"} |->
    CASE n = "c" -> {[root |-> "0", code |-> "x"]}
      [] n = "a" -> {[root |-> "s", code |-> "x"]}
      [] OTHER -> {}]

State == INSTANCE StateSync WITH
    Node <- {"r", "a", "c", "s", "x", "t"}, Empty <- "0", Code <- {"x"},
    Kids <- StateKids, Accounts <- StateAccounts,
    Peer <- {peer1, peer2}, Has <- [i \in {peer1, peer2} |-> {"r", "a", "c", "s", "t"} \cup (IF i = peer1 THEN {"x"} ELSE {})],
    Roots <- {"r", "t"}, Capacity <- 3,
    MaxTimeouts <- 1, MaxDrops <- 1, MaxJoins <- 1, MaxMoves <- 1, MaxCrashes <- 1,
    status <- sStatus, peers <- sPeers, used <- sUsed

At(h, f, b) == [header |-> h, fast |-> f, block |-> b]

Fast == INSTANCE Downloader WITH
    Mode <- "fast", Local <- At(0, 0, 0), Remote <- 3, MaxRemote <- 5, Bad <- 0, Batch <- 2,
    fsMinFullBlocks <- 1, fsHeaderSafetyNet <- 3, fsHeaderForceVerify <- 1,
    MaxCancels <- 1, MaxStateErrors <- 1,
    scheduled <- dScheduled, closed <- dClosed, used <- dUsed

Resume == INSTANCE Downloader WITH
    Mode <- "fast", Local <- At(3, 2, 0), Remote <- 3, MaxRemote <- 4, Bad <- 4, Batch <- 2,
    fsMinFullBlocks <- 1, fsHeaderSafetyNet <- 3, fsHeaderForceVerify <- 1,
    MaxCancels <- 1, MaxStateErrors <- 0,
    scheduled <- dScheduled, closed <- dClosed, used <- dUsed

Full == INSTANCE Downloader WITH
    Mode <- "full", Local <- At(1, 1, 1), Remote <- 3, MaxRemote <- 4, Bad <- 4, Batch <- 2,
    fsMinFullBlocks <- 1, fsHeaderSafetyNet <- 3, fsHeaderForceVerify <- 1,
    MaxCancels <- 1, MaxStateErrors <- 0,
    scheduled <- dScheduled, closed <- dClosed, used <- dUsed

Light == INSTANCE Downloader WITH
    Mode <- "light", Local <- At(1, 0, 0), Remote <- 4, MaxRemote <- 6, Bad <- 6, Batch <- 2,
    fsMinFullBlocks <- 1, fsHeaderSafetyNet <- 3, fsHeaderForceVerify <- 1,
    MaxCancels <- 1, MaxStateErrors <- 0,
    scheduled <- dScheduled, closed <- dClosed, used <- dUsed

Headers == INSTANCE HeaderFetch WITH
    Peer <- {master, peer1, peer2}, Master <- master,
    Serves <- [i \in {master, peer1, peer2} |-> CASE i = master -> {1, 3, 5, 7} [] i = peer1 -> {1, 5} [] OTHER -> {3, 7}],
    Height <- 9, F <- 2, MaxSkeletonSize <- 2, reorgProtThreshold <- 1, reorgProtHeaderDelay <- 1,
    MaxExpiries <- 1, MaxJunk <- 1,
    from <- hFrom, finished <- hFinished, wire <- hWire, procCh <- hProcCh

Search == INSTANCE Ancestor WITH
    Heights <- {0, 1, 2, 5, 9, 14}, MaxHeaderFetch <- 48, MaxForkAncestry <- 7, MaxSpan <- 4, MaxImports <- 1

-----------------------------------------------------------------------------
QueueOff ==
    /\ queued = Absent /\ cache = Absent /\ offset = Absent /\ limit = Absent /\ filled = Absent /\ closed = Absent
    /\ peers = Absent /\ conn = Absent /\ asked = Absent /\ scheduled = Absent /\ loop = Absent /\ status = Absent /\ used = Absent
StateOff ==
    /\ db = Absent /\ root = Absent /\ sched = Absent /\ tasks = Absent /\ sStatus = Absent /\ active = Absent
    /\ finished = Absent /\ busy = Absent /\ sPeers = Absent /\ wire = Absent /\ sUsed = Absent
SessionOff ==
    /\ remote = Absent /\ heads = Absent /\ states = Absent /\ from = Absent /\ procCh = Absent /\ rollback = Absent /\ got = Absent
    /\ dScheduled = Absent /\ ready = Absent /\ taken = Absent /\ dClosed = Absent /\ pivot = Absent /\ committed = Absent
    /\ oldPivot = Absent /\ sync = Absent /\ done = Absent /\ canceled = Absent /\ err = Absent /\ dUsed = Absent
HeadersOff ==
    /\ at = Absent /\ hFrom = Absent /\ skeleton = Absent /\ batch = Absent /\ hq = Absent /\ pend = Absent /\ hFinished = Absent
    /\ cont = Absent /\ alive = Absent /\ hWire = Absent /\ hProcCh = Absent /\ processed = Absent /\ head = Absent /\ spent = Absent
SearchOff ==
    /\ localHeight = Absent /\ remoteHeight = Absent /\ common = Absent /\ start = Absent /\ end = Absent /\ phase = Absent
    /\ number = Absent /\ imports = Absent

Init ==
    \/ /\ StateOff /\ SessionOff /\ HeadersOff /\ SearchOff
       /\ \/ scenario = "bodies" /\ Bodies!Init
          \/ scenario = "parts" /\ Parts!Init
    \/ /\ scenario = "state" /\ State!Init
       /\ QueueOff /\ SessionOff /\ HeadersOff /\ SearchOff
    \/ /\ QueueOff /\ StateOff /\ HeadersOff /\ SearchOff
       /\ \/ scenario = "fast" /\ Fast!Init
          \/ scenario = "resume" /\ Resume!Init
          \/ scenario = "full" /\ Full!Init
          \/ scenario = "light" /\ Light!Init
    \/ /\ scenario = "headers" /\ Headers!Init
       /\ QueueOff /\ StateOff /\ SessionOff /\ SearchOff
    \/ /\ scenario = "ancestor" /\ Search!Init
       /\ QueueOff /\ StateOff /\ SessionOff /\ HeadersOff

Next ==
    /\ UNCHANGED scenario
    /\ \/ /\ UNCHANGED <<stateVars, sessionVars, headersVars, searchVars>>
          /\ \/ scenario = "bodies" /\ Bodies!Next
             \/ scenario = "parts" /\ Parts!Next
       \/ /\ scenario = "state" /\ State!Next
          /\ UNCHANGED <<queueVars, sessionVars, headersVars, searchVars>>
       \/ /\ UNCHANGED <<queueVars, stateVars, headersVars, searchVars>>
          /\ \/ scenario = "fast" /\ Fast!Next
             \/ scenario = "resume" /\ Resume!Next
             \/ scenario = "full" /\ Full!Next
             \/ scenario = "light" /\ Light!Next
       \/ /\ scenario = "headers" /\ Headers!Next
          /\ UNCHANGED <<queueVars, stateVars, sessionVars, searchVars>>
       \/ /\ scenario = "ancestor" /\ Search!Next
          /\ UNCHANGED <<queueVars, stateVars, sessionVars, headersVars>>

Spec == Init /\ [][Next]_vars

-----------------------------------------------------------------------------
(***************************************************************************)
(* The properties of the modules, in the scenarios they are about.         *)
(***************************************************************************)

InQueue(F, G) == (scenario = "bodies" => F) /\ (scenario = "parts" => G)
InSession(F, G, H, I) ==
    /\ scenario = "fast" => F
    /\ scenario = "resume" => G
    /\ scenario = "full" => H
    /\ scenario = "light" => I

\* The download queue (queue.go): every scheduled part is in one place, waiting, asked of one
\* peer, or done, over reserveHeaders, deliver, expire and Revoke; what Results takes out is
\* whole and in order; the room resultSlots grants is there; and a download that ends well,
\* with no peer lost, has imported everything.
QueueExact ==
    /\ InQueue(Bodies!TypeOK, Parts!TypeOK)
    /\ InQueue(Bodies!TaskOnce, Parts!TaskOnce)
    /\ InQueue(Bodies!ResultsWhole, Parts!ResultsWhole)
    /\ InQueue(Bodies!SlotsSuffice, Parts!SlotsSuffice)
    /\ InQueue(Bodies!EndsComplete, Parts!EndsComplete)

\* The state download: nothing is in the database without all that is below it, the dependency
\* counters of trie.Sync are exact, no missing node is forgotten, a download with all its peers
\* is never stuck, and one that ends well leaves the whole state.
StateWhole ==
    scenario = "state" =>
        /\ State!TypeOK /\ State!DBClosed /\ State!DepsExact
        /\ State!NoTaskLost /\ State!NeverStuck /\ State!DoneWhole

\* A session: the state an import or a commit needs is there and the head block has one
\* (processFastSyncContent, FastSyncCommitHead), and a synchronisation that ends well is at
\* the head it was promised.
SessionSound ==
    /\ InSession(Fast!TypeOK, Resume!TypeOK, Full!TypeOK, Light!TypeOK)
    /\ InSession(Fast!StateThere, Resume!StateThere, Full!StateThere, Light!StateThere)
    /\ InSession(Fast!EndsAtHead, Resume!EndsAtHead, Full!EndsAtHead, Light!EndsAtHead)

\* A header processor that fails leaves no head on the newest headers (processHeaders).
RollsBack ==
    [][InSession(Fast!RollsBack, Resume!RollsBack, Full!RollsBack, Light!RollsBack)]_vars

\* The header processor gets every header once and in order; every gap of a skeleton is open
\* once, and a request is for an open gap; the loop that fills a skeleton is told once that it
\* is full (fillHeaderSkeleton, DeliverHeaders, ExpireHeaders).
HeadersExact ==
    scenario = "headers" =>
        Headers!TypeOK /\ Headers!InOrder /\ Headers!GapOnce /\ Headers!ToldOnce

\* The first request for an ancestor stays within bounds, every answer narrows the search, the
\* ancestor found is common, within the allowance and high enough, and a master is refused only
\* if its chain parts deep enough (findAncestor, calculateRequestSpan).
AncestorFound ==
    scenario = "ancestor" =>
        /\ Search!TypeOK /\ Search!SpanBounded /\ Search!SearchNarrows
        /\ Search!FoundCommon /\ Search!RefusedDeep

=============================================================================
