------------------------------- MODULE Fetcher -------------------------------
(***************************************************************************)
(* The block fetcher (can/fetcher): the goroutine that turns announcements *)
(* of block hashes and propagated blocks into imports.                     *)
(*                                                                         *)
(* Fetcher.loop is one goroutine.  Each round of it expires old fetches,   *)
(* imports what the chain is ready for, then takes one event: a call of    *)
(* the protocol handler (Notify, Enqueue, FilterHeaders, FilterBodies), a  *)
(* timer, or the end of an import.  An import runs in a goroutine of its   *)
(* own, and other parts of the node grow the chain meanwhile, so the loop  *)
(* is split where it reads the chain: pc says where it is.                 *)
(*                                                                         *)
(* A hash is announced, then fetching (its header is asked for), fetched   *)
(* (the header is here), completing (its body is asked for) and queued.    *)
(* Time is abstracted: which announcements are old enough to be fetched,   *)
(* and which fetches are older than fetchTimeout, is a free choice; only   *)
(* whether a timer is running is kept.  Broadcasts, metrics and the test   *)
(* hooks are left out.                                                     *)
(***************************************************************************)
EXTENDS Integers, Sequences, FiniteSets, Functions

CONSTANTS
    Peer,
    Block,         \* blocks, identified with their hashes
    Genesis,
    Parent,        \* Block \ {Genesis} -> Block
    Number,        \* Block -> Nat
    Body,          \* Block -> the transactions and uncles of a block
    EmptyBody,
    Verdict,       \* Block -> what header verification and import make of it
    HashLimit,     \* hashLimit
    BlockLimit,    \* blockLimit
    MaxUncleDist,  \* maxUncleDist
    MaxQueueDist,  \* maxQueueDist
    Honest,        \* peers that only offer good blocks, under their number
    Claims,        \* numbers the other peers may announce for any block
    Synced,        \* blocks that other parts of the node may import
    MayExpire,     \* whether fetches may get older than fetchTimeout
    MayStop,       \* whether the node may stop the fetcher
    MaxNotifies, MaxEnqueues, MaxSpurious,  \* bounds on what the peers send
    None

\* An announcement, and a block that waits to be imported.
Announce == [origin : Peer, number : Nat, header : BOOLEAN]
Op == [origin : Peer, hash : Block]

ASSUME FetcherAssumption ==
    /\ Genesis \in Block /\ IsFiniteSet(Block)
    /\ Parent \in [Block \ {Genesis} -> Block]
    /\ Number \in [Block -> Nat]
    /\ Verdict \in [Block -> {"ok", "future", "badHeader", "badBlock"}]
    /\ BlockLimit \in Nat \ {0} /\ HashLimit \in Nat \ {0}
    /\ MaxUncleDist \in Nat /\ MaxQueueDist \in Nat
    /\ Honest \subseteq Peer /\ Claims \subseteq Nat /\ Synced \subseteq Block
    /\ None \notin Peer /\ None \notin Announce

VARIABLES
    ann,       \* the announcements: announces, announced, fetching, fetched, completing
    queue,     \* the priority queue of [origin, hash] operations
    queues,    \* how many blocks each peer has queued
    queued,    \* Block -> the peer whose operation is queued or being imported
    imports,   \* the import goroutines
    timer,     \* whether fetchTimer and completeTimer are running
    pc,        \* "top", "import", "select", "enqueue" or "stopped"
    height,    \* the chain height the current round has read
    blocks,    \* what a filter still has to enqueue
    chain,     \* the blocks of the local chain
    dropped,   \* the peers dropPeer was called for
    requests,  \* requests on their way to the peers or being answered
    used       \* how much of the bounds is used up

queueVars == <<queue, queues, queued>>
outside == <<chain, dropped, requests, used>>
vars == <<ann, queue, queues, queued, imports, timer, pc, height, blocks,
          chain, dropped, requests, used>>

-----------------------------------------------------------------------------
(* Operators.                                                              *)

chainHeight ==
    CHOOSE n \in {Number[b] : b \in chain} : \A b \in chain : Number[b] <= n

\* The distance of a block to the head of the chain is within limits.
Near(n) == n - chainHeight >= - MaxUncleDist /\ n - chainHeight <= MaxQueueDist

\* The keys of a map whose absent entries are empty lists.
Keys(m) == {h \in Block : m[h] # <<>>}

\* How often peer p stands in the lists and entries of a hash.
Mentions(h, p) ==
    LET In(s) == Len(SelectSeq(s, LAMBDA a : a.origin = p))
        Is(a) == IF a = None THEN 0 ELSE IF a.origin = p THEN 1 ELSE 0
    IN  In(ann.announced[h]) + Is(ann.fetching[h])
        + In(ann.fetched[h]) + Is(ann.completing[h])

Without(m, S, nil) == [h \in Block |-> IF h \in S THEN nil ELSE m[h]]

\* The counts of announcements without those of the hashes of S.
Discounted(S) ==
    [p \in Peer |-> ann.announces[p] - SumFunctionOnSet([h \in Block |-> Mentions(h, p)], S)]

\* forgetHash for every hash of S.
forgetHash(S) ==
    [announces  |-> Discounted(S),
     announced  |-> Without(ann.announced, S, <<>>),
     fetching   |-> Without(ann.fetching, S, None),
     fetched    |-> Without(ann.fetched, S, <<>>),
     completing |-> Without(ann.completing, S, None)]

forgetBlock(h) ==
    /\ queued' = [queued EXCEPT ![h] = None]
    /\ queues' = IF queued[h] = None THEN queues
                 ELSE [queues EXCEPT ![queued[h]] = @ - 1]

\* Mutant: the limit is one too high.
ExceededByTwo(p) == queues[p] > BlockLimit

\* Peer p has no room for another block.
Exceeded(p) == queues[p] + 1 > BlockLimit

\* A block offered by p goes into the queue, unless p has too many there or
\* the block is far from the head.
enqueue(p, h) ==
    IF Exceeded(p) \/ ~ Near(Number[h])
    THEN ann' = forgetHash({h}) /\ UNCHANGED queueVars
    ELSE /\ queue' = IF queued[h] = None THEN queue \union {[origin |-> p, hash |-> h]} ELSE queue
         /\ queued' = IF queued[h] = None THEN [queued EXCEPT ![h] = p] ELSE queued
         /\ queues' = IF queued[h] = None THEN [queues EXCEPT ![p] = @ + 1] ELSE queues
         /\ UNCHANGED ann

-----------------------------------------------------------------------------
Init ==
    /\ ann = [announces  |-> [p \in Peer |-> 0],
              announced  |-> [h \in Block |-> <<>>],
              fetching   |-> [h \in Block |-> None],
              fetched    |-> [h \in Block |-> <<>>],
              completing |-> [h \in Block |-> None]]
    /\ queue = {}
    /\ queues = [p \in Peer |-> 0]
    /\ queued = [h \in Block |-> None]
    /\ imports = {}
    /\ timer = [fetch |-> TRUE, complete |-> TRUE]
    /\ pc = "top"
    /\ height = 0
    /\ blocks = {}
    /\ chain = {Genesis}
    /\ dropped = {}
    /\ requests = {}
    /\ used = [notifies |-> 0, enqueues |-> 0, spurious |-> 0]

\* The round begins: fetches that took too long are forgotten, and the height
\* of the chain is read.
Expire ==
    /\ pc = "top"
    /\ \E late \in SUBSET {h \in Block : ann.fetching[h] # None} :
          /\ late # {} => MayExpire
          /\ ann' = forgetHash(late)
    /\ height' = chainHeight
    /\ pc' = "import"
    /\ UNCHANGED <<queueVars, imports, timer, blocks, outside>>

First(op) == \A other \in queue : Number[op.hash] <= Number[other.hash]

\* Mutant: the child of the head is too early, too.
TooEarlyAtHead(op) == Number[op.hash] > height

TooEarly(op) == Number[op.hash] > height + 1

Unwanted(op) == Number[op.hash] + MaxUncleDist < height \/ op.hash \in chain

\* Mutant: the popped operation is lost.
PutBackNever(op) == queue' = queue \ {op}

\* The queue when an operation has been popped and pushed again.
PutBack(op) == queue' = queue

\* The lowest operation of the queue: too early (the round goes on to wait for
\* an event), no longer wanted, or handed to an import goroutine.
ImportNext ==
    /\ pc = "import"
    /\ UNCHANGED <<ann, timer, height, blocks, outside>>
    /\ \/ queue = {} /\ pc' = "select" /\ UNCHANGED <<queueVars, imports>>
       \/ \E op \in queue :
            /\ First(op)
            /\ \/ /\ TooEarly(op)
                  /\ PutBack(op)
                  /\ pc' = "select"
                  /\ UNCHANGED <<queues, queued, imports>>
               \/ /\ ~ TooEarly(op) /\ Unwanted(op)
                  /\ queue' = queue \ {op}
                  /\ forgetBlock(op.hash)
                  /\ UNCHANGED <<pc, imports>>
               \/ /\ ~ TooEarly(op) /\ ~ Unwanted(op)
                  /\ queue' = queue \ {op}
                  /\ imports' = imports \union {[op |-> op, done |-> FALSE]}
                  /\ UNCHANGED <<pc, queues, queued>>

\* Mutant: a block from the future counts as a failed verification.
DropsFuture(op) == Verdict[op.hash] \in {"badHeader", "future"}

\* verifyHeader fails for another reason than the block's time.
Drops(op) == Verdict[op.hash] = "badHeader"

\* The goroutine of insert: with its parent there, the block is verified and
\* inserted.  A block from the future is only put aside by the chain.
InsertBlock(i) ==
    /\ ~ i.done
    /\ imports' = (imports \ {i}) \union {[i EXCEPT !.done = TRUE]}
    /\ LET b == i.op.hash
           here == Parent[b] \in chain
       IN  /\ dropped' = IF here /\ Drops(i.op) THEN dropped \union {i.op.origin} ELSE dropped
           /\ chain' = IF here /\ Verdict[b] = "ok" THEN chain \union {b} ELSE chain
    /\ UNCHANGED <<ann, queueVars, timer, pc, height, blocks, requests, used>>

\* The import goroutine has ended: everything about its hash is forgotten.
Done(i) ==
    /\ pc = "select"
    /\ i.done
    /\ imports' = imports \ {i}
    /\ ann' = forgetHash({i.op.hash})
    /\ forgetBlock(i.op.hash)
    /\ pc' = "top"
    /\ UNCHANGED <<queue, timer, height, blocks, outside>>

-----------------------------------------------------------------------------
(* What the protocol handler calls.                                        *)

\* Mutant: does not look whether the body is being fetched.
RefusesUnlessFetching(p, h, n) ==
    \/ ann.announces[p] + 1 > HashLimit
    \/ n > 0 /\ ~ Near(n)
    \/ ann.fetching[h] # None

\* Too many announcements, too far away, or already being fetched.
Refuses(p, h, n) ==
    \/ ann.announces[p] + 1 > HashLimit
    \/ n > 0 /\ ~ Near(n)
    \/ ann.fetching[h] # None
    \/ ann.completing[h] # None

Notify(p, h, n) ==
    /\ pc = "select"
    /\ pc' = "top"
    /\ IF Refuses(p, h, n) THEN UNCHANGED <<ann, timer>>
       ELSE LET a == [origin |-> p, number |-> n, header |-> FALSE]
            IN  /\ ann' = [ann EXCEPT !.announces[p] = @ + 1,
                                      !.announced[h] = Append(@, a)]
                /\ timer' = [timer EXCEPT
                       !.fetch = @ \/ Cardinality(Keys(ann'.announced)) = 1]
    /\ UNCHANGED <<queueVars, imports, height, blocks, chain, dropped, requests>>

Enqueue(p, h) ==
    /\ pc = "select"
    /\ pc' = "top"
    /\ enqueue(p, h)
    /\ UNCHANGED <<imports, timer, height, blocks, chain, dropped, requests>>

\* The announcement, now that its header is here.
WithHeader(a) == [a EXCEPT !.header = TRUE]

\* Peer p delivers the header of h.  A header nobody waits for goes on to the
\* downloader; one of an empty block completes it at once.
FilterHeaders(p, h) ==
    LET a == ann.fetching[h]
        expected == /\ a # None /\ a.origin = p
                    /\ ann.fetched[h] = <<>> /\ ann.completing[h] = None
                    /\ queued[h] = None
    IN  /\ pc = "select"
        /\ \/ /\ ~ expected
              /\ pc' = "top"
              /\ UNCHANGED <<ann, timer, blocks, dropped>>
           \/ /\ expected /\ Number[h] # a.number
              /\ dropped' = dropped \union {p}
              /\ ann' = forgetHash({h})
              /\ pc' = "top"
              /\ UNCHANGED <<timer, blocks>>
           \/ /\ expected /\ Number[h] = a.number /\ h \in chain
              /\ ann' = forgetHash({h})
              /\ pc' = "top"
              /\ UNCHANGED <<timer, blocks, dropped>>
           \/ /\ expected /\ Number[h] = a.number /\ h \notin chain
              /\ Body[h] = EmptyBody
              /\ ann' = [ann EXCEPT !.fetching[h] = WithHeader(a),
                                    !.completing[h] = WithHeader(a)]
              /\ blocks' = {h}
              /\ pc' = "enqueue"
              /\ UNCHANGED <<timer, dropped>>
           \/ /\ expected /\ Number[h] = a.number /\ h \notin chain
              /\ Body[h] # EmptyBody
              /\ ann' = [ann EXCEPT !.fetching[h] = WithHeader(a),
                                    !.fetched[h] = Append(@, WithHeader(a))]
              /\ timer' = [timer EXCEPT
                     !.complete = @ \/ Cardinality(Keys(ann'.fetched)) = 1]
              /\ pc' = "top"
              /\ UNCHANGED <<blocks, dropped>>
        /\ UNCHANGED <<queueVars, imports, height, chain>>

\* Peer p delivers bodies: each completes every block of p that waits for it.
FilterBodies(p, bodies) ==
    LET matched == {h \in Block : /\ ann.completing[h] # None
                                  /\ ann.completing[h].origin = p
                                  /\ queued[h] = None
                                  /\ Body[h] \in bodies}
    IN  /\ pc = "select"
        /\ ann' = forgetHash(matched \intersect chain)
        /\ blocks' = matched \ chain
        /\ pc' = "enqueue"
        /\ UNCHANGED <<queueVars, imports, timer, height, chain, dropped>>

\* A filter enqueues the blocks it has completed, one after the other.
EnqueueNext ==
    /\ pc = "enqueue"
    /\ \/ /\ blocks = {}
          /\ pc' = "top"
          /\ UNCHANGED <<ann, queueVars, blocks>>
       \/ \E h \in blocks :
            /\ blocks' = blocks \ {h}
            /\ IF ann.completing[h] # None THEN enqueue(ann.completing[h].origin, h)
               ELSE UNCHANGED <<ann, queueVars>>
            /\ UNCHANGED pc
    /\ UNCHANGED <<imports, timer, height, outside>>

-----------------------------------------------------------------------------
(* The timers.                                                             *)

\* rescheduleFetch and rescheduleComplete start the timer when there is
\* something to wait for.
reschedule(m) == Keys(m) # {}

\* One announcement for each hash of S.
Picks(m, S) ==
    {pick \in [S -> UNION {Range(m[h]) : h \in S}] : \A h \in S : pick[h] \in Range(m[h])}

\* The entry of hash h when those of S, but for known blocks, are fetched.
NowFetching(S, pick, h) == IF h \in S \ chain THEN pick[h] ELSE None

\* fetchTimer: the headers of the announcements that are old enough are asked
\* for, each from one of the peers that announced it.
FetchTimer(old) ==
    /\ pc = "select"
    /\ timer.fetch
    /\ old \subseteq Keys(ann.announced)
    /\ \E pick \in Picks(ann.announced, old) :
          /\ ann' = [forgetHash(old) EXCEPT !.fetching =
                        [h \in Block |-> IF h \in old THEN NowFetching(old, pick, h)
                                         ELSE ann.fetching[h]]]
          /\ requests' = requests \union
                {[what |-> "header", peer |-> pick[h].origin, hashes |-> {h}] : h \in old \ chain}
    /\ timer' = [timer EXCEPT !.fetch = reschedule(ann'.announced)]
    /\ pc' = "top"
    /\ UNCHANGED <<queueVars, imports, height, blocks, chain, dropped, used>>

\* completeTimer: the bodies of everything fetched are asked for.
CompleteTimer ==
    LET S == Keys(ann.fetched)
    IN  /\ pc = "select"
        /\ timer.complete
        /\ \E pick \in Picks(ann.fetched, S) :
              /\ ann' = [forgetHash(S) EXCEPT !.completing =
                            [h \in Block |-> IF h \in S THEN NowFetching(S, pick, h)
                                             ELSE ann.completing[h]]]
              /\ requests' = requests \union
                    {[what |-> "bodies", peer |-> p,
                      hashes |-> {h \in S \ chain : pick[h].origin = p}] :
                          p \in {pick[h].origin : h \in S \ chain}}
        /\ timer' = [timer EXCEPT !.complete = reschedule(ann'.fetched)]
        /\ pc' = "top"
        /\ UNCHANGED <<queueVars, imports, height, blocks, chain, dropped, used>>

-----------------------------------------------------------------------------
(* The peers and the rest of the node.                                     *)

\* An honest peer offers good blocks only, and announces their number.
MayOffer(p, h) == h # Genesis /\ (p \in Honest => Verdict[h] # "badHeader")

\* A peer announces a block.
PeerAnnounces(p, h) ==
    /\ used.notifies < MaxNotifies
    /\ used' = [used EXCEPT !.notifies = @ + 1]
    /\ MayOffer(p, h)
    /\ \E n \in (IF p \in Honest THEN {} ELSE Claims) \union {Number[h]} : Notify(p, h, n)

\* A peer propagates a block.
PeerPropagates(p, h) ==
    /\ used.enqueues < MaxEnqueues
    /\ used' = [used EXCEPT !.enqueues = @ + 1]
    /\ MayOffer(p, h)
    /\ Enqueue(p, h)

\* A peer answers a request.
HeaderReply(r) ==
    /\ r.what = "header"
    /\ requests' = requests \ {r}
    /\ \E h \in r.hashes : FilterHeaders(r.peer, h)
    /\ UNCHANGED used

BodiesReply(r) ==
    /\ r.what = "bodies"
    /\ requests' = requests \ {r}
    /\ FilterBodies(r.peer, {Body[h] : h \in r.hashes})
    /\ UNCHANGED used

\* A peer sends a header or a body nobody asked it for.
Spurious(p, h) ==
    /\ used.spurious < MaxSpurious
    /\ used' = [used EXCEPT !.spurious = @ + 1]
    /\ FilterHeaders(p, h) \/ FilterBodies(p, {Body[h]})
    /\ UNCHANGED requests

\* The downloader, the miner or the queue of future blocks imports a block.
Sync(b) ==
    /\ b \notin chain /\ Parent[b] \in chain
    /\ chain' = chain \union {b}
    /\ UNCHANGED <<ann, queueVars, imports, timer, pc, height, blocks, dropped, requests, used>>

Stop ==
    /\ MayStop
    /\ pc = "select"
    /\ pc' = "stopped"
    /\ UNCHANGED <<ann, queueVars, imports, timer, height, blocks, outside>>

Next ==
    \/ Expire \/ ImportNext \/ EnqueueNext \/ CompleteTimer \/ Stop
    \/ \E i \in imports : InsertBlock(i)
    \/ \E i \in imports : Done(i)
    \/ \E old \in SUBSET Block : FetchTimer(old)
    \/ \E p \in Peer, h \in Block : PeerAnnounces(p, h)
    \/ \E p \in Peer, h \in Block : PeerPropagates(p, h)
    \/ \E p \in Peer, h \in Block : Spurious(p, h)
    \/ \E r \in requests : HeaderReply(r)
    \/ \E r \in requests : BodiesReply(r)
    \/ \E b \in Synced : Sync(b)

Spec == Init /\ [][Next]_vars

\* Go's select takes every case that stays ready, the goroutines run, and the
\* peers answer what they are asked.  An announcement that stays is old enough
\* for fetchTimer in the end.
FairSpec ==
    /\ Spec
    /\ WF_vars(Expire \/ ImportNext \/ EnqueueNext)
    /\ SF_vars(CompleteTimer)
    /\ \A h \in Block \ {Genesis} :
          /\ WF_vars(\E i \in imports : i.op.hash = h /\ InsertBlock(i))
          /\ SF_vars(\E i \in imports : i.op.hash = h /\ Done(i))
          /\ SF_vars(\E old \in SUBSET Block : h \in old /\ FetchTimer(old))
          /\ SF_vars(\E r \in requests : h \in r.hashes /\ HeaderReply(r))
          /\ SF_vars(\E r \in requests : h \in r.hashes /\ BodiesReply(r))

-----------------------------------------------------------------------------
(* Properties.                                                             *)

\* The maps, counters and timers of the fetcher have the shapes the loop gives
\* them; no peer has more than blockLimit blocks queued.
TypeOK ==
    /\ ann.announces \in [Peer -> Int]
    /\ \A h \in Block :
          /\ \A a \in Range(ann.announced[h]) \union Range(ann.fetched[h]) : a \in Announce
          /\ ann.fetching[h] \in Announce \union {None}
          /\ ann.completing[h] \in Announce \union {None}
    /\ queue \subseteq Op
    /\ queues \in [Peer -> 0..BlockLimit]
    /\ queued \in [Block -> Peer \union {None}]
    /\ imports \subseteq [op : Op, done : BOOLEAN]
    /\ timer \in [fetch : BOOLEAN, complete : BOOLEAN]
    /\ pc \in {"top", "import", "select", "enqueue", "stopped"}
    /\ height \in Nat
    /\ blocks \subseteq Block /\ chain \subseteq Block
    /\ dropped \subseteq Peer

\* enqueue and forgetBlock keep queues in step with queued: the count of a peer
\* is the number of its blocks that are queued or being imported, so the count
\* compared with blockLimit neither drifts nor leaks over any run.
QueuesCount ==
    \A p \in Peer : queues[p] = Cardinality({h \in Block : queued[h] = p})

\* Every queued block is either in the priority queue or with exactly one
\* import goroutine, under the peer it is counted for, and nothing else is
\* there: no block is imported twice at a time, and none is lost.
QueuedTracked ==
    /\ \A h \in Block : queued[h] # None =>
          \/ [origin |-> queued[h], hash |-> h] \in queue
          \/ \E i \in imports : i.op = [origin |-> queued[h], hash |-> h]
    /\ \A op \in queue : queued[op.hash] = op.origin
    /\ \A i \in imports : queued[i.op.hash] = i.op.origin /\ i.op \notin queue
    /\ \A i, j \in imports : i.op.hash = j.op.hash => i = j

\* The records of the import queue agree with each other.
QueueExact == QueuesCount /\ QueuedTracked

\* The loop moves a hash through its stages without leaving it behind in an
\* earlier one: what is announced is in no later stage, what is fetched is still
\* marked as being fetched, and never waits for its body as well.
StagesExclusive ==
    \A h \in Block :
        /\ ann.announced[h] # <<>> =>
              ann.fetching[h] = None /\ ann.fetched[h] = <<>> /\ ann.completing[h] = None
        /\ ann.fetched[h] # <<>> => ann.fetching[h] # None /\ ann.completing[h] = None

\* FilterBodies reads announce.header of everything in completing: it is there.
HeadersKnown ==
    \A h \in Block : ann.completing[h] # None => ann.completing[h].header

\* While announcements wait, fetchTimer is running, and completeTimer while
\* headers wait for their bodies: neither is stranded without an event.
TimersRunning ==
    /\ Keys(ann.announced) # {} => timer.fetch
    /\ Keys(ann.fetched) # {} => timer.complete

\* The stages of an announcement and the timers that move it on.
StagesExact == StagesExclusive /\ HeadersKnown /\ TimersRunning

\* dropPeer is never called for a peer that only announced blocks with a good
\* header under their right number, whatever the other peers sent.
HonestKept == dropped \intersect Honest = {}

\* A peer has at most hashLimit announcements waiting.
AnnouncesBounded ==
    \A p \in Peer :
        SumFunction([h \in Block |-> Len(SelectSeq(ann.announced[h], LAMBDA a : a.origin = p))])
            <= HashLimit

\* When the peers answer and nothing times out, an announced block whose parent
\* is there gets imported.
AnnouncedImported ==
    \A h \in Block \ {Genesis} : (ann.announced[h] # <<>> /\ Parent[h] \in chain) ~> h \in chain

\* A queued block the chain is ready for does not stay in the queue.
QueueDrains ==
    \A h \in Block \ {Genesis} : (queued[h] # None /\ Parent[h] \in chain) ~> queued[h] = None

\* Nothing the chain is ready for stays behind in the fetcher.
FetcherProgresses == AnnouncedImported /\ QueueDrains

=============================================================================
