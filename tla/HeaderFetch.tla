---------------------------- MODULE HeaderFetch ----------------------------
(***************************************************************************)
(* How a synchronisation gets its headers (can/downloader): fetchHeaders   *)
(* asks the master for a skeleton, every F-th header ahead; the gaps are   *)
(* filled by all peers (fillHeaderSkeleton, with the header side of        *)
(* queue.go) and handed to the header processor as they become contiguous; *)
(* the rest is fetched from the master alone.                              *)
(*                                                                         *)
(* A header is its number on the master's chain.  A task is the first      *)
(* number of a gap of F headers.  An answer is good when it has the F      *)
(* headers that lead to the skeleton's next header, and bad otherwise.     *)
(* headerProcCh holds one packet of headers, a pair of first and last.     *)
(***************************************************************************)
EXTENDS Integers, Sequences, FiniteSets, FiniteSetsExt

CONSTANTS
    Peer, Master,
    Serves,        \* Serves[p]: the tasks peer p has the headers for
    Height,        \* headers of the master
    F,             \* MaxHeaderFetch
    MaxSkeletonSize,
    reorgProtThreshold, reorgProtHeaderDelay,
    MaxExpiries, MaxJunk     \* bounds

VARIABLES
    at,        \* where fetchHeaders is: "ask", "fill", "send", "done" or an error
    from,      \* the next header it asks for
    skeleton,  \* it is asking for skeletons
    batch,     \* the packet it is sending
    hq,        \* queue: header task pool and queue, misses, results, proced, offset
    pend,      \* queue.headerPendPool: the task of each peer, or 0
    finished,  \* fetchParts was told that the skeleton is full
    cont,      \* queue.headerContCh
    alive,     \* the registered peers
    wire,      \* requests under way; a peer is busy while it has one
    procCh,    \* headerProcCh
    processed, \* the last header the processor took
    head,      \* the head of the local chain
    spent      \* how much of each bound is used up

vars == <<at, from, skeleton, batch, hq, pend, finished, cont, alive, wire, procCh,
          processed, head, spent>>

filling == <<hq, pend, finished, cont, alive, wire>>

Gap(t) == t..(t + F - 1)
NoSkeleton == [pool |-> {}, queue |-> {}, miss |-> [p \in Peer |-> {}],
               results |-> {}, size |-> 0, proced |-> 0, offset |-> 0]

Init ==
    /\ at = "ask" /\ from = 1 /\ skeleton = TRUE /\ batch = << >>
    /\ hq = NoSkeleton /\ pend = [p \in Peer |-> 0] /\ finished = FALSE /\ cont = 0
    /\ alive = Peer /\ wire = [p \in Peer |-> 0]
    /\ procCh = << >> /\ processed = 0 /\ head = 0
    /\ spent = [expiries |-> 0, junk |-> 0]

-----------------------------------------------------------------------------
(***************************************************************************)
(* fetchHeaders.                                                           *)
(***************************************************************************)

\* ScheduleSkeleton: a task for every gap.
ScheduleSkeleton(k) ==
    LET tasks == {from + i * F : i \in 0..(k - 1)}
    IN  /\ hq' = [NoSkeleton EXCEPT !.pool = tasks, !.queue = tasks, !.size = k * F, !.offset = from]
        /\ finished' = FALSE /\ cont' = 0

\* The master answers with the skeleton, or has none that long.
Skeleton ==
    /\ at = "ask" /\ skeleton
    /\ LET k == Min({MaxSkeletonSize, (Height - from + 1) \div F})
       IN  IF k = 0
           THEN skeleton' = FALSE /\ UNCHANGED <<at, filling>>
           ELSE at' = "fill" /\ ScheduleSkeleton(k) /\ UNCHANGED <<skeleton, pend, alive, wire>>
    /\ UNCHANGED <<from, batch, procCh, processed, head, spent>>

\* The last headers of a chain the master may still reorganise are left for
\* later, unless the local head is near.
Kept(last) == IF head + reorgProtThreshold < last THEN Max({from - 1, last - reorgProtHeaderDelay}) ELSE last

\* The master answers with headers: they are sent, or all delayed and asked
\* for again.
LastHeaders ==
    /\ at = "ask" /\ ~skeleton /\ from <= Height
    /\ LET last == Kept(Min({Height, from + F - 1}))
       IN  IF last < from
           THEN UNCHANGED <<at, batch>>
           ELSE at' = "send" /\ batch' = <<from, last>>
    /\ UNCHANGED <<from, skeleton, filling, procCh, processed, head, spent>>

\* The master has no more: nil is sent.
NoMore ==
    /\ at = "ask" /\ ~skeleton /\ from > Height
    /\ at' = "send" /\ batch' = << >>
    /\ UNCHANGED <<from, skeleton, filling, procCh, processed, head, spent>>

Send ==
    /\ at = "send" /\ procCh = << >>
    /\ IF batch = << >>
       THEN at' = "done" /\ UNCHANGED <<procCh, from>>
       ELSE procCh' = <<batch>> /\ from' = batch[2] + 1 /\ at' = "ask"
    /\ UNCHANGED <<skeleton, batch, filling, processed, head, spent>>

\* What fillHeaderSkeleton found already handed to the processor.
Proced == hq.proced

\* fetchParts has ended well: what is left of the skeleton is sent.
Filled ==
    /\ at = "fill" /\ finished /\ hq.queue = {} /\ \A p \in Peer : pend[p] = 0
    /\ from' = from + Proced
    /\ IF Proced < hq.size
       THEN at' = "send" /\ batch' = <<from + Proced, from + hq.size - 1>>
       ELSE at' = "ask" /\ batch' = << >>
    /\ hq' = NoSkeleton
    /\ UNCHANGED <<skeleton, pend, finished, cont, alive, wire, procCh, processed, head, spent>>

-----------------------------------------------------------------------------
(***************************************************************************)
(* fillHeaderSkeleton: fetchParts over the header tasks.                   *)
(***************************************************************************)

\* HeaderIdlePeers.
Idles == {p \in alive : wire[p] = 0}

\* ReserveHeaders: the first task the peer did not miss.
Reservable(p) == IF pend[p] # 0 THEN {} ELSE hq.queue \ hq.miss[p]

ReserveHeaders(p) ==
    /\ at = "fill" /\ p \in Idles /\ Reservable(p) # {}
    /\ LET t == Min(Reservable(p))
       IN  /\ hq' = [hq EXCEPT !.queue = @ \ {t}]
           /\ pend' = [pend EXCEPT ![p] = t]
           /\ wire' = [wire EXCEPT ![p] = t]
    /\ UNCHANGED <<at, from, skeleton, batch, finished, cont, alive, procCh, processed, head, spent>>

\* Mutant: a gap is handed over even if one before it is missing.
ReadyAny(q) == F * Cardinality({t \in q.results : t >= q.offset + q.proced})

\* The filled headers that follow what was handed over.
Ready(q) ==
    LET first == q.offset + q.proced
        Contiguous(n) == \A i \in 0..(n - 1) : first + i * F \in q.results
    IN  F * Max({n \in 0..Cardinality(q.results) : Contiguous(n)})

\* They go to the processor if it has taken the last packet.
HandedOver(q) ==
    IF Ready(q) > 0 /\ procCh = << >>
    THEN /\ procCh' = <<<<q.offset + q.proced, q.offset + q.proced + Ready(q) - 1>>>>
         /\ hq' = [q EXCEPT !.proced = @ + Ready(q)]
    ELSE /\ hq' = q /\ UNCHANGED procCh

\* The last gap is filled.
FullNow(t) == hq.pool = {t}

\* DeliverHeaders: a bad answer puts the task back, and the peer is not asked
\* for it again.  An answer without a request only makes the peer idle.
DeliverHeaders(p, good) ==
    /\ wire' = [wire EXCEPT ![p] = 0]
    /\ pend' = [pend EXCEPT ![p] = 0]
    /\ LET t == pend[p]
       IN  CASE t = 0 -> UNCHANGED <<hq, cont, procCh>>
             [] t # 0 /\ ~good ->
                    /\ hq' = [hq EXCEPT !.miss[p] = @ \cup {t}, !.queue = @ \cup {t}]
                    /\ UNCHANGED <<cont, procCh>>
             [] OTHER ->
                    /\ HandedOver([hq EXCEPT !.results = @ \cup {t}, !.pool = @ \ {t}])
                    /\ cont' = cont + (IF FullNow(t) THEN 1 ELSE 0)

Answer(p) ==
    /\ at = "fill" /\ p \in alive /\ wire[p] # 0
    /\ DeliverHeaders(p, wire[p] \in Serves[p])
    /\ UNCHANGED <<at, from, skeleton, batch, finished, alive, processed, head, spent>>

\* A peer sends headers nobody waits for, or other headers than it was asked.
Junk(p) ==
    /\ at = "fill" /\ p \in alive /\ spent.junk < MaxJunk
    /\ spent' = [spent EXCEPT !.junk = @ + 1]
    /\ DeliverHeaders(p, FALSE)
    /\ UNCHANGED <<at, from, skeleton, batch, finished, alive, processed, head>>

\* The wake channel of this loop.
Continue ==
    /\ at = "fill" /\ cont > 0
    /\ cont' = cont - 1 /\ finished' = TRUE
    /\ UNCHANGED <<at, from, skeleton, batch, hq, pend, alive, wire, procCh, processed, head, spent>>

\* expire: the task goes back to the queue.
Expired(p) == hq.queue \cup {pend[p]}

\* A header request that expires has the peer dropped: it counts no headers.
\* With the master the synchronisation is canceled.
ExpireHeaders(p) ==
    /\ at = "fill" /\ pend[p] # 0 /\ spent.expiries < MaxExpiries
    /\ spent' = [spent EXCEPT !.expiries = @ + 1]
    /\ hq' = [hq EXCEPT !.queue = Expired(p)]
    /\ pend' = [pend EXCEPT ![p] = 0]
    /\ alive' = alive \ {p} /\ wire' = [wire EXCEPT ![p] = 0]
    /\ at' = IF p = Master THEN "errCancelHeaderFetch" ELSE at
    /\ UNCHANGED <<from, skeleton, batch, finished, cont, procCh, processed, head>>

\* Everyone is idle and nobody can be given one of the tasks.
Unavailable ==
    /\ at = "fill" /\ hq.queue # {} /\ Idles = alive
    /\ \A p \in Peer : pend[p] = 0
    /\ \A p \in alive : Reservable(p) = {}
    /\ at' = "errPeersUnavailable"
    /\ UNCHANGED <<from, skeleton, batch, filling, procCh, processed, head, spent>>

-----------------------------------------------------------------------------
(***************************************************************************)
(* The header processor, and the chain that grows behind it.               *)
(***************************************************************************)

Process ==
    /\ procCh # << >>
    /\ processed' = procCh[1][2] /\ procCh' = << >>
    /\ UNCHANGED <<at, from, skeleton, batch, filling, head, spent>>

Import ==
    /\ head < processed
    /\ head' = processed
    /\ UNCHANGED <<at, from, skeleton, batch, filling, procCh, processed, spent>>

Next ==
    \/ Skeleton \/ LastHeaders \/ NoMore \/ Send \/ Filled
    \/ \E p \in Peer : ReserveHeaders(p) \/ Answer(p) \/ Junk(p) \/ ExpireHeaders(p)
    \/ Continue \/ Unavailable \/ Process \/ Import

\* The goroutines run, and a peer that is registered answers.
Fairness ==
    /\ WF_vars(Skeleton \/ NoMore \/ Send \/ Filled \/ Continue \/ Unavailable)
    /\ WF_vars(Process) /\ WF_vars(Import) /\ WF_vars(LastHeaders)
    /\ \A p \in Peer : WF_vars(ReserveHeaders(p)) /\ WF_vars(Answer(p))

Spec == Init /\ [][Next]_vars /\ Fairness

-----------------------------------------------------------------------------
(***************************************************************************)
(* Properties.                                                             *)
(***************************************************************************)

TypeOK ==
    /\ at \in {"ask", "fill", "send", "done", "errCancelHeaderFetch", "errPeersUnavailable"}
    /\ hq.queue \subseteq hq.pool /\ hq.results \cap hq.pool = {}
    /\ \A p \in Peer : wire[p] # 0 => wire[p] = pend[p]
    /\ alive \subseteq Peer

\* The header processor gets every header once and in order, whichever peers
\* filled the gaps and however much was handed over before the skeleton was
\* full: the packet in the channel, and the one fetchHeaders is sending
\* behind it, continue what was processed, and none is handed over before it is there.
InOrder ==
    LET sent == IF procCh = << >> THEN processed ELSE procCh[1][2]
    IN  /\ procCh # << >> => procCh[1][1] = processed + 1
        /\ at = "send" /\ batch # << >> => batch[1] = sent + 1
        /\ at = "ask" => from = sent + 1
        /\ hq.offset..(hq.offset + hq.proced - 1) \subseteq UNION {Gap(t) : t \in hq.results}

\* Every gap of the skeleton is waiting, asked for once, or filled; a request
\* is always for a gap that is still open (its target is read without a check).
GapOnce ==
    at = "fill" =>
        /\ \A t \in hq.pool : Cardinality({p \in Peer : pend[p] = t}) = (IF t \in hq.queue THEN 0 ELSE 1)
        /\ \A p \in Peer : pend[p] # 0 => pend[p] \in hq.pool

\* The loop is told once that the skeleton is full: the channel has one place
\* and is written with the lock of the queue held.
ToldOnce == cont <= 1 /\ (at = "fill" /\ cont + (IF finished THEN 1 ELSE 0) = 1 <=> at = "fill" /\ hq.pool = {})

=============================================================================
