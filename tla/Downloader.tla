----------------------------- MODULE Downloader -----------------------------
(***************************************************************************)
(* One synchronisation of the chain with a master peer                     *)
(* (can/downloader/downloader.go): the header fetcher, the header          *)
(* processor with its rollback, and the content processor of the mode,     *)
(* with the pivot of a fast synchronisation, as spawnSync runs them.       *)
(*                                                                         *)
(* The chain of the master is the numbers 1..remote, and grows; the local  *)
(* chain is a prefix of it.  Of the chain only its heads matter            *)
(* (kernel/blockchain.go: InsertHeaderChain, InsertReceiptChain,           *)
(* FastSyncCommitHead, InsertChain, Rollback), and which blocks have a     *)
(* state.  Header Bad has an invalid seal, which is seen where the seal is *)
(* checked.  That bodies and receipts come back in order and whole is the  *)
(* promise of DownloadQueue; that a state that is done is whole, of        *)
(* StateSync.                                                              *)
(***************************************************************************)
EXTENDS Integers, Sequences, FiniteSets, FiniteSetsExt

CONSTANTS
    Mode,          \* "full", "fast" or "light"
    Local,         \* the local heads at the start: header, fast, block
    Remote,        \* height of the master at the start
    MaxRemote,     \* bound: how far it grows
    Bad,           \* 0, or a header of the master with a bad seal
    Batch,         \* headers per packet
    fsMinFullBlocks, fsHeaderSafetyNet, fsHeaderForceVerify,
    MaxCancels, MaxStateErrors    \* bounds

VARIABLES
    remote,
    heads,      \* CurrentHeader, CurrentFastBlock, CurrentBlock
    states,     \* blocks whose state is in the database
    from,       \* fetchHeaders: the next header to ask for
    procCh,     \* headerProcCh: the headers between two numbers, or nil
    rollback,   \* processHeaders: the headers to roll back
    got,        \* processHeaders: gotHeaders
    scheduled,  \* the last header in the queue
    ready,      \* the last block the queue has whole
    taken,      \* the last block the content processor took
    closed,     \* queue.closed
    pivot, committed, oldPivot,
    sync,       \* the state download of processFastSyncContent
    done,       \* goroutines of spawnSync that have returned
    canceled,   \* cancelCh is closed
    err,        \* the first error
    used        \* how much of each bound is used up

vars == <<remote, heads, states, from, procCh, rollback, got, scheduled, ready, taken,
          closed, pivot, committed, oldPivot, sync, done, canceled, err, used>>

Routines == {"fetchHeaders", "processHeaders", "fetchParts"}
                \cup IF Mode = "light" THEN {} ELSE {"content"}

Nil == << >>
Busy == <<0, 0>>   \* an empty channel

-----------------------------------------------------------------------------
\* syncWithPeer: the pivot is fsMinFullBlocks below the master's head; with a
\* chain shorter than that everything is imported in full.
Pivot == IF Mode = "fast" /\ Remote > fsMinFullBlocks THEN Remote - fsMinFullBlocks ELSE 0

Ancestor == CASE Mode = "full" -> Local.block [] Mode = "fast" -> Local.fast [] OTHER -> Local.header

Origin == CASE Mode = "fast" /\ Pivot = 0           -> 0
            [] Mode = "fast" /\ Pivot <= Ancestor   -> Pivot - 1
            [] OTHER                                -> Min({Ancestor, Remote - 1})

Init ==
    /\ remote = Remote
    /\ heads = Local
    /\ states = 0..Local.block
    /\ from = Origin + 1 /\ procCh = Busy
    /\ rollback = {} /\ got = FALSE
    /\ scheduled = Origin /\ ready = Origin /\ taken = Origin /\ closed = FALSE
    /\ pivot = Pivot /\ committed = (Pivot = 0) /\ oldPivot = 0
    /\ sync = [root |-> Remote, state |-> "run"]
    /\ done = {} /\ canceled = FALSE /\ err = "none"
    /\ used = [cancels |-> 0, errors |-> 0]

\* A goroutine returns.  The first error closes the queue and cancels the
\* rest; the queue is also closed when the last one is waited for.
\* Mutant: an error closes the queue but cancels nothing.
ReturnQuiet(r, e) ==
    /\ done' = done \cup {r}
    /\ err' = IF err = "none" THEN e ELSE err
    /\ closed' = (closed \/ e # "none" \/ Cardinality(Routines \ (done \cup {r})) <= 1)
    /\ UNCHANGED canceled
Return(r, e) ==
    /\ done' = done \cup {r}
    /\ err' = IF err = "none" THEN e ELSE err
    /\ closed' = (closed \/ e # "none" \/ Cardinality(Routines \ (done \cup {r})) <= 1)
    /\ canceled' = (canceled \/ e # "none")

Stays == UNCHANGED <<done, err, closed, canceled>>

-----------------------------------------------------------------------------
(***************************************************************************)
(* fetchHeaders.                                                           *)
(***************************************************************************)

Fetching == "fetchHeaders" \notin done

\* A packet of headers goes to the header processor.
Headers ==
    /\ Fetching /\ ~canceled /\ procCh = Busy
    /\ \E last \in from..Min({remote, from + Batch - 1}) :
        procCh' = <<from, last>> /\ from' = last + 1
    /\ Stays
    /\ UNCHANGED <<remote, heads, states, rollback, got, scheduled, ready, taken, pivot,
                   committed, oldPivot, sync, used>>

MayStop == committed \/ Pivot > from

\* An empty packet: fetchHeaders ends, unless it must wait for the pivot.
NoHeaders ==
    /\ Fetching /\ ~canceled /\ procCh = Busy /\ MayStop
    /\ procCh' = Nil
    /\ Return("fetchHeaders", "none")
    /\ UNCHANGED <<remote, heads, states, from, rollback, got, scheduled, ready, taken, pivot,
                   committed, oldPivot, sync, used>>

\* No answer in time: the master is dropped, which cancels everything.
HeaderTimeout ==
    /\ Fetching /\ ~canceled /\ used.cancels < MaxCancels
    /\ used' = [used EXCEPT !.cancels = @ + 1]
    /\ procCh' = IF procCh = Busy THEN Nil ELSE procCh
    /\ Return("fetchHeaders", "errBadPeer")
    /\ UNCHANGED <<remote, heads, states, from, rollback, got, scheduled, ready, taken, pivot,
                   committed, oldPivot, sync>>

FetchCanceled ==
    /\ Fetching /\ canceled
    /\ Return("fetchHeaders", "errCancelHeaderFetch")
    /\ UNCHANGED <<remote, heads, states, from, procCh, rollback, got, scheduled, ready, taken,
                   pivot, committed, oldPivot, sync, used>>

-----------------------------------------------------------------------------
(***************************************************************************)
(* processHeaders.                                                         *)
(***************************************************************************)

Processing == "processHeaders" \notin done

\* BlockChain.Rollback: from the last header down, a head that is one of
\* them moves to its parent.
Lowered(n, S) == IF n \in S THEN Max((0..n) \ S) ELSE n

RolledBack(S) == [header |-> Lowered(heads.header, S),
                  fast   |-> Lowered(heads.fast, S),
                  block  |-> Lowered(heads.block, S)]

\* Mutant: the headers of every chunk replace those of the one before.
NetForgets(old, new) == new

\* The newest headers that were not known before, as far as the safety net.
Net(old, new) ==
    LET all == old \cup new IN {n \in all : Cardinality({m \in all : m > n}) < fsHeaderSafetyNet}

\* The seal of a header is checked near the pivot, at the end of a chunk,
\* and now and then.
Detected(first, last) ==
    Bad \in first..last /\ (last + fsHeaderForceVerify > Pivot \/ Bad = last)

ProcessHeaders ==
    /\ Processing /\ ~canceled /\ procCh \notin {Busy, Nil}
    /\ procCh' = Busy /\ got' = TRUE
    /\ LET first == procCh[1]
           last == procCh[2]
           unknown == {n \in first..last : n > heads.header}
       IN  \E seen \in {Detected(first, last), Bad \in first..last} :
           IF Mode # "full" /\ seen
           THEN /\ heads' = RolledBack(rollback) /\ rollback' = {}
                /\ scheduled' = scheduled
                /\ Return("processHeaders", "errInvalidChain")
           ELSE /\ heads' = IF Mode = "full" THEN heads
                            ELSE [heads EXCEPT !.header = Max({@, last})]
                /\ rollback' = IF Mode = "full" THEN {} ELSE Net(rollback, unknown)
                /\ scheduled' = last
                /\ Stays
    /\ UNCHANGED <<remote, states, from, ready, taken, pivot, committed, oldPivot, sync, used>>

Stalls ==
    \/ Mode # "light" /\ ~got /\ Remote > heads.block
    \/ Mode # "full" /\ Remote > heads.header

\* No more headers: a master that promised more than it sent is stalling.
LastHeaders ==
    /\ Processing /\ ~canceled /\ procCh = Nil
    /\ procCh' = Busy
    /\ heads' = IF Stalls THEN RolledBack(rollback) ELSE heads
    /\ rollback' = {}
    /\ Return("processHeaders", IF Stalls THEN "errStallingPeer" ELSE "none")
    /\ UNCHANGED <<remote, states, from, got, scheduled, ready, taken, pivot, committed,
                   oldPivot, sync, used>>

ProcessCanceled ==
    /\ Processing /\ canceled
    /\ heads' = RolledBack(rollback) /\ rollback' = {}
    /\ Return("processHeaders", "errCancelHeaderProcessing")
    /\ UNCHANGED <<remote, states, from, procCh, got, scheduled, ready, taken, pivot, committed,
                   oldPivot, sync, used>>

-----------------------------------------------------------------------------
(***************************************************************************)
(* The queue, as DownloadQueue promises it.                                *)
(***************************************************************************)

Parts == "fetchParts" \notin done

Fill ==
    /\ Parts /\ ~canceled /\ ready < scheduled
    /\ ready' = ready + 1
    /\ Stays
    /\ UNCHANGED <<remote, heads, states, from, procCh, rollback, got, scheduled, taken, pivot,
                   committed, oldPivot, sync, used>>

PartsDone ==
    /\ Parts /\ (canceled \/ (~Processing /\ (ready = scheduled \/ Mode = "light")))
    /\ Return("fetchParts", IF canceled THEN "errCancelBodyFetch" ELSE "none")
    /\ UNCHANGED <<remote, heads, states, from, procCh, rollback, got, scheduled, ready, taken,
                   pivot, committed, oldPivot, sync, used>>

-----------------------------------------------------------------------------
(***************************************************************************)
(* The content processors.                                                 *)
(***************************************************************************)

Content == "content" \notin done /\ Mode # "light"

\* BlockChain.InsertChain: it needs the state of the parent, and stops at a
\* bad block.
Imported(have, S) == {n \in S : Min(S) - 1 \in have /\ (Bad \in S => n < Bad)}

ImportError(have, S) ==
    CASE S = {}                -> "none"
      [] Min(S) - 1 \notin have -> "errMissingState"
      [] Bad \in S             -> "errInvalidChain"
      [] OTHER                 -> "none"

MayReturn(r, e) == IF e = "none" THEN Stays ELSE Return(r, e)

ProcessFullSyncContent ==
    /\ Content /\ Mode = "full"
    /\ IF taken < ready
       THEN LET results == (taken + 1)..ready
                new == Imported(states, results)
            IN  /\ taken' = ready
                /\ states' = states \cup new
                /\ heads' = [heads EXCEPT !.block = Max({@} \cup new), !.fast = Max({@} \cup new),
                                          !.header = Max({@} \cup new)]
                /\ MayReturn("content", ImportError(states, results))
       ELSE /\ closed
            /\ Return("content", "none")
            /\ UNCHANGED <<taken, states, heads>>
    /\ UNCHANGED <<remote, from, procCh, rollback, got, scheduled, ready, pivot, committed,
                   oldPivot, sync, used>>

\* The pivot moves when the chain has run away from it.
MovedPivot(last) ==
    IF ~committed /\ last > pivot + 2 * fsMinFullBlocks THEN last - fsMinFullBlocks ELSE pivot

\* Mutant: blocks above the pivot are imported before its state is there.
HoldsNothing(p, results) == FALSE

\* The pivot block is among the results and its state is not there yet.
Holds(p, results) == p \in results /\ ~(oldPivot = p /\ sync.state = "done")

\* One round of processFastSyncContent.  The results are split around the
\* pivot: below it blocks and receipts are written, the pivot is committed
\* once its state is there (FastSyncCommitHead checks it), and what is above
\* is imported after that.
ProcessFastSyncContent ==
    /\ Content /\ Mode = "fast"
    /\ taken < ready \/ oldPivot # 0
    /\ LET results == (IF oldPivot # 0 THEN oldPivot ELSE taken + 1)..ready
           p == MovedPivot(ready)
           before == {n \in results : n < p}
           after == {n \in results : n > p}
           holds == Holds(p, results)
           commits == p \in results /\ ~holds
           missing == commits /\ p \notin states
           new == IF holds \/ missing THEN {} ELSE Imported(states, after)
           block == IF commits THEN p ELSE heads.block
       IN  /\ taken' = ready /\ pivot' = p
           /\ IF sync.state = "failed" /\ (before # {} \/ (p \in results /\ oldPivot = p))
              THEN /\ Return("content", "errStateSync")
                   /\ UNCHANGED <<heads, states, committed, oldPivot, sync>>
              ELSE IF missing
              THEN /\ Return("content", "errMissingState")
                   /\ UNCHANGED <<heads, states, committed, oldPivot, sync>>
              ELSE /\ oldPivot' = IF holds THEN p ELSE 0
                   /\ committed' = (committed \/ commits)
                   /\ sync' = IF p \in results /\ oldPivot # p
                              THEN [root |-> p, state |-> "run"] ELSE sync
                   /\ states' = states \cup new
                   /\ heads' = [header |-> Max({heads.header} \cup new),
                                fast   |-> Max({heads.fast, block} \cup before \cup new),
                                block  |-> Max({block} \cup new)]
                   /\ MayReturn("content", IF holds THEN "none" ELSE ImportError(states, after))
    /\ UNCHANGED <<remote, from, procCh, rollback, got, scheduled, ready, used>>

\* With nothing left, it waits for its state download to be canceled.
FastContentDone ==
    /\ Content /\ Mode = "fast" /\ taken = ready
    /\ IF oldPivot = 0 THEN closed ELSE canceled
    /\ Return("content", CASE sync.state = "done"   -> "none"
                          [] sync.state = "failed" -> "errStateSync"
                          [] OTHER                 -> "errCancelStateFetch")
    /\ UNCHANGED <<remote, heads, states, from, procCh, rollback, got, scheduled, ready, taken,
                   pivot, committed, oldPivot, sync, used>>

\* The state download ends; an error of it closes the queue.
StateDone ==
    /\ Content /\ Mode = "fast" /\ sync.state = "run" /\ ~canceled
    /\ sync' = [sync EXCEPT !.state = "done"]
    /\ states' = states \cup {sync.root}
    /\ Stays
    /\ UNCHANGED <<remote, heads, from, procCh, rollback, got, scheduled, ready, taken,
                   pivot, committed, oldPivot, used>>

StateFailed ==
    /\ Content /\ Mode = "fast" /\ sync.state = "run" /\ used.errors < MaxStateErrors
    /\ used' = [used EXCEPT !.errors = @ + 1]
    /\ sync' = [sync EXCEPT !.state = "failed"]
    /\ closed' = TRUE
    /\ UNCHANGED <<remote, heads, states, from, procCh, rollback, got, scheduled, ready, taken,
                   pivot, committed, oldPivot, done, canceled, err>>

-----------------------------------------------------------------------------
\* Cancel, from outside: the master leaves, or the node stops.
Cancel ==
    /\ done # Routines /\ ~canceled /\ used.cancels < MaxCancels
    /\ used' = [used EXCEPT !.cancels = @ + 1]
    /\ canceled' = TRUE
    /\ UNCHANGED <<remote, heads, states, from, procCh, rollback, got, scheduled, ready, taken,
                   closed, pivot, committed, oldPivot, sync, done, err>>

Grow ==
    /\ remote < MaxRemote /\ Fetching
    /\ remote' = remote + 1
    /\ UNCHANGED <<heads, states, from, procCh, rollback, got, scheduled, ready, taken,
                   closed, pivot, committed, oldPivot, sync, done, canceled, err, used>>

Next ==
    \/ Headers \/ NoHeaders \/ HeaderTimeout \/ FetchCanceled
    \/ ProcessHeaders \/ LastHeaders \/ ProcessCanceled
    \/ Fill \/ PartsDone
    \/ ProcessFullSyncContent \/ ProcessFastSyncContent \/ FastContentDone
    \/ StateDone \/ StateFailed
    \/ Cancel \/ Grow

\* Goroutines run when they can; the master answers, with the headers it has
\* or with none; a state download ends.  No cancellation is certain.
Work ==
    \/ Headers \/ NoHeaders \/ FetchCanceled \/ ProcessHeaders \/ LastHeaders \/ ProcessCanceled
    \/ Fill \/ PartsDone \/ ProcessFullSyncContent \/ ProcessFastSyncContent
    \/ FastContentDone \/ StateDone

Spec == Init /\ [][Next]_vars /\ WF_vars(Work)

-----------------------------------------------------------------------------
(***************************************************************************)
(* Properties.                                                             *)
(***************************************************************************)

Over == done = Routines

TypeOK ==
    /\ \A h \in {"header", "fast", "block"} : heads[h] \in 0..MaxRemote
    /\ states \subseteq 0..MaxRemote
    /\ taken <= ready /\ ready <= scheduled /\ scheduled < from
    /\ done \subseteq Routines

\* The state that an import or the commit of the pivot needs is there: no
\* block above the pivot is executed before the pivot is committed, and the
\* pivot not before its own state is whole.  So the head block has a state.
\* The one exception is real: a cancellation after the commit rolls back the
\* newest headers, and with them a head block within the safety net, to a
\* block below the pivot.
StateThere ==
    /\ err # "errMissingState"
    /\ heads.block \in states \/ (committed /\ canceled /\ heads.block < pivot)

\* A synchronisation that ends well, and was not canceled, has imported every
\* block it scheduled and, unless it is a full one, which accepts a shorter
\* chain, has the headers the master announced.  A failed download of a
\* state that is then replaced by that of the pivot is the exception: it has
\* closed the queue, and the content processor ends with what is ready.
EndsAtHead ==
    Over /\ err = "none" /\ ~canceled /\ used.errors = 0 =>
        /\ Mode # "light" => heads.block >= scheduled
        /\ Mode # "full" => heads.header >= Remote

\* When the header processor gives up, no head is left on one of the newest
\* headers of the session: their seals were not all checked.
RollsBack ==
    Processing /\ ~Processing' /\ canceled' /\ Mode # "full" =>
        \A h \in DOMAIN heads :
            heads'[h] <= Max({Local.header, scheduled - fsHeaderSafetyNet})

\* Every synchronisation ends.
Ends == <>Over

=============================================================================
