---------------------------- MODULE DownloadQueue ----------------------------
(***************************************************************************)
(* The block and receipt side of the download queue                        *)
(* (can/downloader/queue.go), with the loop that feeds it                  *)
(* (Downloader.fetchParts, once for bodies and once for receipts), the     *)
(* connections it assigns work to (can/downloader/peer.go) and the loop    *)
(* that takes finished results out.                                        *)
(*                                                                         *)
(* The headers to fill are the numbers of one chain; a header is its own   *)
(* hash.  The result cache is a function of the numbers it holds, instead  *)
(* of an array that is shifted.  Its limit by memory, a running average of *)
(* sizes, may be anything between one and its length.  A request is        *)
(* expired at any time, or never.  A peer answers a request, once, with    *)
(* some of what was asked from the front, or with something else (0).      *)
(***************************************************************************)
EXTENDS Integers, Sequences, FiniteSets, SequencesExt, FiniteSetsExt, BagsExt

CONSTANTS
    Peer,
    Master,          \* the peer the chain is synchronised with
    Kinds,           \* {"body"} in FullSync, {"body", "receipt"} in FastSync
    Height,          \* headers 1..Height are to be filled
    Chunk,           \* headers per call of Schedule (maxHeadersProcess)
    Noop,            \* Noop[k]: headers whose part of kind k is empty
    CacheItems,      \* blockCacheItems
    Limits,          \* the limits memory may put on the cache
    MaxResults,      \* maxResultsProcess
    MaxQueued,       \* maxQueuedHeaders
    Capacity,        \* items per request
    MaxExpiries, MaxLeaves, MaxJoins, MaxJunk   \* bounds

VARIABLES
    queued,    \* queue: task pool, task queue, pending and done pool by kind
    cache,     \* resultCache: number -> components still missing
    offset,    \* resultOffset
    limit,     \* the cache limit by resultSize
    filled,    \* the parts that were put into each result
    closed,
    peers,     \* the registered peers
    conn,      \* their connections: busy flags, lacking hashes
    asked,     \* requests on the wire
    scheduled, \* headers handed to Schedule so far
    loop,      \* where each fetchParts is, and whether it was told the end
    status,    \* the outcome of the synchronisation
    used       \* how much of each bound is used up

vars == <<queued, cache, offset, limit, filled, closed, peers, conn, asked,
          scheduled, loop, status, used>>

None == << >>

EmptyPools == [task |-> {}, queue |-> EmptyBag, pend |-> [p \in Peer |-> None], done |-> {}]

Idle == [busy |-> [k \in Kinds |-> FALSE], lacking |-> {}]

Running == status = "sync"

-----------------------------------------------------------------------------
(***************************************************************************)
(* queue.                                                                  *)
(***************************************************************************)

Push(q, S) == [q EXCEPT !.queue = @ (+) SetToBag(S)]

\* How many more parts fit: the limit, less what is done below it, less what
\* is in flight below it.
resultSlots(q) ==
    LET Below == offset..(offset + limit - 1)
        Prefix == {n \in Below : \A m \in offset..n : m \in DOMAIN cache}
        InFlight == {n \in Below : \E p \in Peer : n \in ToSet(q.pend[p])}
    IN  limit - Cardinality(Prefix \cap q.done) - Cardinality(InFlight)

countProcessableItems ==
    Cardinality({n \in DOMAIN cache : \A m \in offset..n : m \in DOMAIN cache /\ cache[m] = 0})

\* The headers reserveHeaders pops: in order, while there is space and the
\* request is not full.  Empty parts and parts the peer lacks take no place
\* in the request.
Popped(k, p) ==
    LET q == SetToSortSeq(BagToSet(queued[k].queue), <)
        Takes(n) == n \notin Noop[k] \cup conn[p].lacking
        Ok(j) == Len(SelectSeq(SubSeq(q, 1, j - 1), Takes)) < Capacity
        fits == {j \in 1..Len(q) : j <= resultSlots(queued[k]) /\ Ok(j)}
    IN  SubSeq(q, 1, Max({0} \cup fits))

\* The cache once the results of S exist and their empty parts are done.
Allocated(k, S) ==
    [n \in DOMAIN cache \cup S |->
        (IF n \in DOMAIN cache THEN cache[n] ELSE Cardinality(Kinds))
            - (IF n \in S \cap Noop[k] THEN 1 ELSE 0)]

\* Mutant: the headers of a revoked request are forgotten.
RevokeForgets(p) == [k \in Kinds |-> [queued[k] EXCEPT !.pend[p] = None]]

\* Revoke: the requests of a peer go back to the task queues.
Revoke(p) ==
    [k \in Kinds |-> Push([queued[k] EXCEPT !.pend[p] = None], ToSet(queued[k].pend[p]))]

-----------------------------------------------------------------------------
Init ==
    /\ queued = [k \in Kinds |-> EmptyPools]
    /\ cache = << >>
    /\ offset = 1
    /\ limit = CacheItems
    /\ filled = [n \in 1..Height |-> {}]
    /\ closed = FALSE
    /\ peers = Peer
    /\ conn = [p \in Peer |-> Idle]
    /\ asked = [p \in Peer |-> {}]
    /\ scheduled = 0
    /\ loop = [k \in Kinds |-> [at |-> "select", finished |-> FALSE]]
    /\ status = "sync"
    /\ used = [expiries |-> 0, leaves |-> 0, joins |-> 0, junk |-> 0]

\* processHeaders: waits while either task queue is too long, then schedules
\* the next chunk of headers.
Schedule ==
    /\ Running /\ scheduled < Height
    /\ \A k \in Kinds : BagCardinality(queued[k].queue) < MaxQueued
    /\ LET upto == Min({scheduled + Chunk, Height})
           new == (scheduled + 1)..upto
       IN  /\ scheduled' = upto
           /\ queued' = [k \in Kinds |->
                  [Push(queued[k], new \ queued[k].task) EXCEPT !.task = @ \cup new]]
    /\ UNCHANGED <<cache, offset, limit, filled, closed, peers, conn, asked, loop, status, used>>

\* processHeaders has no more headers: it sends false on the wake channel.
Wake(k) ==
    /\ Running /\ scheduled = Height /\ ~loop[k].finished
    /\ loop' = [loop EXCEPT ![k].finished = TRUE]
    /\ UNCHANGED <<queued, cache, offset, limit, filled, closed, peers, conn, asked, scheduled, status, used>>

\* fetchParts handles an update: requests that timed out go back to the
\* queue, and their peers are idle again if they had more than two headers,
\* else dropped.  Then, with nothing pending, it asks whether anything is in
\* flight (Finish); otherwise it hands out work (Assign).
Expire(k, p) ==
    LET n == Len(queued[k].pend[p])
    IN  /\ Running /\ loop[k].at = "select" /\ peers # {}
        /\ n > 0 /\ used.expiries < MaxExpiries
        /\ used' = [used EXCEPT !.expiries = @ + 1]
        /\ IF p \in peers /\ n <= 2
           THEN /\ peers' = peers \ {p}
                /\ queued' = Revoke(p)
                /\ status' = IF p = Master THEN "canceled" ELSE status
                /\ conn' = conn
           ELSE /\ queued' = [queued EXCEPT ![k] =
                      Push([@ EXCEPT !.pend[p] = None], ToSet(@.pend[p]))]
                /\ conn' = IF p \in peers THEN [conn EXCEPT ![p].busy[k] = FALSE] ELSE conn
                /\ UNCHANGED <<peers, status>>
    /\ UNCHANGED <<cache, offset, limit, filled, closed, asked, scheduled, loop>>

NoPeers(k) ==
    /\ Running /\ loop[k].at = "select" /\ peers = {}
    /\ status' = "errNoPeers"
    /\ UNCHANGED <<queued, cache, offset, limit, filled, closed, peers, conn, asked, scheduled, loop, used>>

\* pending() = 0, and then inFlight() under a lock of its own.
NonePending(k) ==
    /\ Running /\ loop[k].at = "select" /\ peers # {}
    /\ queued[k].queue = EmptyBag /\ loop[k].finished
    /\ loop' = [loop EXCEPT ![k].at = "check"]
    /\ UNCHANGED <<queued, cache, offset, limit, filled, closed, peers, conn, asked, scheduled, status, used>>

Finish(k) ==
    /\ Running /\ loop[k].at = "check"
    /\ loop' = [loop EXCEPT ![k].at =
           IF \A p \in Peer : queued[k].pend[p] = None THEN "done" ELSE "select"]
    /\ UNCHANGED <<queued, cache, offset, limit, filled, closed, peers, conn, asked, scheduled, status, used>>

\* reserveHeaders and the request to one idle peer.
Reserve(k, p) ==
    LET popped == ToSet(Popped(k, p))
        noop == popped \cap Noop[k]
        send == SelectSeq(Popped(k, p), LAMBDA n : n \notin noop \cup conn[p].lacking)
    IN  /\ Running /\ loop[k].at = "select"
        /\ p \in peers /\ ~conn[p].busy[k]
        /\ queued[k].queue # EmptyBag /\ resultSlots(queued[k]) > 0
        /\ queued[k].pend[p] = None /\ popped # {}
        /\ noop # {} \/ send # << >>
        /\ IF popped \subseteq offset..(offset + CacheItems - 1)
           THEN /\ cache' = Allocated(k, popped)
                /\ filled' = [n \in 1..Height |-> IF n \in noop THEN filled[n] \cup {k} ELSE filled[n]]
                /\ queued' = [queued EXCEPT ![k] =
                       [task  |-> @.task \ noop,
                        queue |-> @.queue (-) SetToBag(noop \cup ToSet(send)),
                        pend  |-> [@.pend EXCEPT ![p] = send],
                        done  |-> @.done \cup noop]]
                /\ IF send = << >> THEN UNCHANGED <<conn, asked>>
                   ELSE /\ conn' = [conn EXCEPT ![p].busy[k] = TRUE]
                        /\ asked' = [asked EXCEPT ![p] = @ \cup {[kind |-> k, hdrs |-> send]}]
                /\ status' = status
           ELSE /\ status' = "errInvalidChain"
                /\ UNCHANGED <<cache, filled, queued, conn, asked>>
        /\ UNCHANGED <<offset, limit, closed, peers, scheduled, loop, used>>

\* Every peer is idle, nothing is in flight, there is room, and no peer can
\* be given any of the headers that are left.
Unavailable(k) ==
    /\ Running /\ loop[k].at = "select" /\ peers # {}
    /\ queued[k].queue # EmptyBag /\ resultSlots(queued[k]) > 0
    /\ \A p \in Peer : queued[k].pend[p] = None
    /\ \A p \in peers : ~conn[p].busy[k]
                        /\ ToSet(Popped(k, p)) \subseteq conn[p].lacking \ Noop[k]
    /\ status' = "errPeersUnavailable"
    /\ UNCHANGED <<queued, cache, offset, limit, filled, closed, peers, conn, asked, scheduled, loop, used>>

Answers(r) == {SubSeq(r.hdrs, 1, j) : j \in 0..Len(r.hdrs)}
    \cup IF used.junk < MaxJunk THEN {<<0>>, <<r.hdrs[1], 0>>} ELSE {}

\* How many of the answered parts are accepted, from the front.
Accepted(hdrs, items) ==
    Max({j \in 0..Min({Len(hdrs), Len(items)}) :
             \A i \in 1..j : items[i] = hdrs[i] /\ hdrs[i] \in DOMAIN cache})

\* queue.deliver and what fetchParts makes of its result.
Deliver(k, p, items) ==
    LET hdrs == queued[k].pend[p]
        n == Accepted(hdrs, items)
        good == ToSet(SubSeq(hdrs, 1, n))
        failed == n < Min({Len(hdrs), Len(items)})
        invalid == failed /\ hdrs[n + 1] \notin DOMAIN cache
    IN  /\ Running /\ loop[k].at = "select"
        /\ IF p \notin peers THEN UNCHANGED <<queued, cache, filled, conn, status>>
           ELSE /\ cache' = [m \in DOMAIN cache |-> IF m \in good THEN cache[m] - 1 ELSE cache[m]]
                /\ filled' = [m \in 1..Height |-> IF m \in good THEN filled[m] \cup {k} ELSE filled[m]]
                /\ queued' = [queued EXCEPT ![k] =
                       Push([@ EXCEPT !.pend[p] = None, !.task = @ \ good, !.done = @ \cup good],
                            ToSet(hdrs) \ good)]
                /\ conn' = [conn EXCEPT
                       ![p].lacking = IF items = << >> THEN @ \cup ToSet(hdrs) ELSE @,
                       ![p].busy[k] = @ /\ failed /\ n = 0]
                /\ status' = IF invalid THEN "errInvalidChain" ELSE status

Answer(k, p) ==
    \E r \in asked[p] : r.kind = k /\ \E items \in Answers(r) :
        /\ Deliver(k, p, items)
        /\ asked' = [asked EXCEPT ![p] = @ \ {r}]
        /\ used' = [used EXCEPT !.junk = @ + (IF 0 \in ToSet(items) THEN 1 ELSE 0)]
        /\ UNCHANGED <<offset, limit, closed, peers, scheduled, loop>>

\* UnregisterPeer, when a connection ends.
Unregister(p) ==
    /\ Running /\ p \in peers /\ used.leaves < MaxLeaves
    /\ used' = [used EXCEPT !.leaves = @ + 1]
    /\ peers' = peers \ {p}
    /\ queued' = Revoke(p)
    /\ status' = IF p = Master THEN "canceled" ELSE status
    /\ UNCHANGED <<cache, offset, limit, filled, closed, conn, asked, scheduled, loop>>

\* RegisterPeer, with a new connection: what the old one was asked is gone.
Register(p) ==
    /\ Running /\ p \notin peers /\ used.joins < MaxJoins
    /\ used' = [used EXCEPT !.joins = @ + 1]
    /\ peers' = peers \cup {p}
    /\ conn' = [conn EXCEPT ![p] = Idle]
    /\ asked' = [asked EXCEPT ![p] = {}]
    /\ UNCHANGED <<queued, cache, offset, limit, filled, closed, scheduled, loop, status>>

ResultsGuard(nproc) == nproc = Min({countProcessableItems, MaxResults})

\* Results(true), and the import of what it returns.  The sizes of the new
\* results change the limit.
Results ==
    \E nproc \in 1..Height, l \in Limits :
        /\ Running /\ ResultsGuard(nproc)
        /\ LET out == offset..(offset + nproc - 1)
           IN  /\ cache' = [n \in DOMAIN cache \ out |-> cache[n]]
               /\ queued' = [k \in Kinds |-> [queued[k] EXCEPT !.done = @ \ out]]
        /\ offset' = offset + nproc
        /\ limit' = l
        /\ UNCHANGED <<filled, closed, peers, conn, asked, scheduled, loop, status, used>>

\* spawnSync closes the queue when only the content processor is left, and
\* that returns when it is woken with nothing to process.
Close ==
    /\ Running /\ ~closed
    /\ \A k \in Kinds : loop[k].at = "done"
    /\ closed' = TRUE
    /\ UNCHANGED <<queued, cache, offset, limit, filled, peers, conn, asked, scheduled, loop, status, used>>

Done ==
    /\ Running /\ closed /\ countProcessableItems = 0
    /\ status' = "done"
    /\ UNCHANGED <<queued, cache, offset, limit, filled, closed, peers, conn, asked, scheduled, loop, used>>

Next ==
    \/ Schedule \/ Results \/ Close \/ Done
    \/ \E k \in Kinds :
        \/ Wake(k) \/ NoPeers(k) \/ NonePending(k) \/ Finish(k) \/ Unavailable(k)
        \/ \E p \in Peer : Expire(k, p) \/ Reserve(k, p) \/ Answer(k, p)
    \/ \E p \in Peer : Unregister(p) \/ Register(p)

\* The loops run on a ticker and the processors when there is something to
\* do.  Go's select picks at random among the channels that are ready, so an
\* answer or a tick that is ready again and again is taken.  Requests are
\* answered, but need not expire, and no peer need leave or join.
Fairness ==
    /\ WF_vars(Schedule \/ Results \/ Close \/ Done)
    /\ \A k \in Kinds :
        /\ WF_vars(Wake(k)) /\ WF_vars(NonePending(k) \/ Finish(k))
        /\ SF_vars(NoPeers(k) \/ Unavailable(k))
        /\ SF_vars(\E p \in Peer : Reserve(k, p))
        /\ SF_vars(\E p \in Peer : Answer(k, p))

Spec == Init /\ [][Next]_vars /\ Fairness

-----------------------------------------------------------------------------
(***************************************************************************)
(* Properties.                                                             *)
(***************************************************************************)

TypeOK ==
    /\ \A k \in Kinds :
        /\ queued[k].task \subseteq 1..Height /\ queued[k].done \subseteq 1..Height
        /\ IsABag(queued[k].queue) /\ BagToSet(queued[k].queue) \subseteq 1..Height
        /\ \A p \in Peer : queued[k].pend[p] \in Seq(1..Height)
        /\ loop[k] \in [at : {"select", "check", "done"}, finished : BOOLEAN]
    /\ DOMAIN cache \subseteq offset..(offset + CacheItems - 1)
    /\ \A n \in DOMAIN cache : cache[n] \in 0..Cardinality(Kinds)
    /\ offset \in 1..(Height + 1) /\ limit \in 1..CacheItems
    /\ peers \subseteq Peer /\ scheduled \in 0..Height /\ closed \in BOOLEAN

InRequests(k, n) == {p \in Peer : n \in ToSet(queued[k].pend[p])}

\* A part that was scheduled is in one place: waiting once in the task queue,
\* asked of one peer, or done.  Whatever expires, is revoked, is delivered in
\* part or too late, nothing is lost and nothing is fetched twice at a time.
TaskOnce ==
    \A k \in Kinds, n \in 1..scheduled :
        LET waiting == CopiesIn(n, queued[k].queue)
            places == waiting + Cardinality(InRequests(k, n))
        IN  IF k \in filled[n] THEN places = 0 /\ n \notin queued[k].task
            ELSE status = "sync" => places = 1 /\ n \in queued[k].task

\* The count of missing parts, which alone decides when a result is taken
\* out, agrees with the parts that were put in; what was taken out is whole.
ResultsWhole ==
    /\ \A n \in DOMAIN cache : cache[n] = Cardinality(Kinds \ filled[n])
    /\ \A n \in 1..(offset - 1) : filled[n] = Kinds

\* The space that resultSlots grants is there: reserveHeaders and deliver
\* never run beyond the cache or into a result that is missing ("index
\* allocation went beyond available resultCache space").
SlotsSuffice == status # "errInvalidChain"

\* A synchronisation that ends well has imported everything, if no peer left
\* between the two looks of fetchParts at the queue.
EndsComplete ==
    status = "done" /\ used.leaves + used.expiries = 0 => offset = Height + 1

=============================================================================
