----------------------------- MODULE StateSync ------------------------------
(***************************************************************************)
(* Downloading a state (can/downloader/statesync.go): the loop of a        *)
(* stateSync assigns missing nodes to idle peers and processes what comes  *)
(* back, runStateSync routes requests, answers, timeouts and dropped peers *)
(* to it, and syncState replaces the running download when the pivot       *)
(* moves.  The process may die; the database stays.                        *)
(*                                                                         *)
(* A peer is asked for a set of hashes.  An answer is a set of nodes; it   *)
(* is matched to whatever request of that peer is active when it arrives.  *)
(* Timeouts may come at any time.  Channels between the two goroutines     *)
(* are synchronous, so a hand-over is one step.                            *)
(***************************************************************************)
EXTENDS TrieSync, FiniteSets

CONSTANTS
    Peer,
    Has,       \* Has[p]: the nodes peer p can deliver
    Roots,     \* the state roots the pivot may have
    Capacity,  \* items per request
    MaxTimeouts, MaxDrops, MaxJoins, MaxMoves, MaxCrashes   \* bounds

VARIABLES
    db,       \* stateDB
    root,     \* the root the running stateSync works for
    sched,    \* its trie.Sync
    tasks,    \* its tasks: hash -> peers that were tried
    status,   \* "idle", "run", "done", or the error it ended with
    active,   \* runStateSync: the active request of each peer
    finished, \* runStateSync: requests waiting to be processed
    busy,     \* peerConnection.stateIdle
    peers,    \* registered peers
    wire,     \* requests peers did not answer yet
    used      \* how much of each bound is used up

vars == <<db, root, sched, tasks, status, active, finished, busy, peers, wire, used>>

NoReq == [peer |-> "none"]

Running == status = "run"

Init ==
    /\ db = {} /\ root = Empty /\ sched = NewSync /\ tasks = << >>
    /\ status = "idle"
    /\ active = [p \in Peer |-> NoReq] /\ finished = << >>
    /\ busy = [p \in Peer |-> FALSE] /\ peers = Peer
    /\ wire = [p \in Peer |-> {}]
    /\ used = [timeouts |-> 0, drops |-> 0, joins |-> 0, moves |-> 0, crashes |-> 0]

\* What a stateSync leaves when it ends, however it ends: its last batch.
Flushed == db \cup ToSet(sched.batch)

\* The busy flag of a peer when runStateSync returns: active requests free
\* their peers.
Abandoned(p) == busy[p] /\ active[p] = NoReq

\* syncState: a new stateSync starts, in place of the running one if any.
Start(r) ==
    /\ \/ status = "idle" /\ UNCHANGED used
       \/ status = "run" /\ r # root /\ used.moves < MaxMoves
          /\ used' = [used EXCEPT !.moves = @ + 1]
    /\ root' = r
    /\ db' = Flushed
    /\ sched' = addEntry(Flushed, NewSync, r, FALSE, << >>)
    /\ tasks' = << >>
    /\ status' = "run"
    /\ busy' = [p \in Peer |-> Abandoned(p)]
    /\ active' = [p \in Peer |-> NoReq] /\ finished' = << >>
    /\ UNCHANGED <<peers, wire>>

\* fillTasks: new hashes are taken while there are fewer tasks than fit; of
\* the tasks, up to Capacity that the peer was not tried for are asked.
Pool(new) == [h \in DOMAIN tasks \cup new |-> IF h \in DOMAIN tasks THEN tasks[h] ELSE {}]

Take(S, n) == {T \in SUBSET S : Cardinality(T) = Min({n, Cardinality(S)})}

Assign(p) ==
    /\ Running /\ Pending(sched) > 0 /\ p \in peers /\ ~busy[p]
    /\ \E new \in Take(sched.queue, Max({0, Capacity - Cardinality(DOMAIN tasks)})) :
       \E items \in Take({h \in DOMAIN Pool(new) : p \notin Pool(new)[h]}, Capacity) :
        /\ sched' = [sched EXCEPT !.queue = @ \ new]
        /\ tasks' = [h \in DOMAIN Pool(new) \ items |-> Pool(new)[h]]
        /\ items # {} \/ new # {}
        /\ IF items = {} THEN UNCHANGED <<active, busy, wire>>
           ELSE /\ active' = [active EXCEPT ![p] =
                       [peer |-> p, items |-> items,
                        tasks |-> [h \in items |-> Pool(new)[h] \cup {p}],
                        response |-> {}, dropped |-> FALSE, timedOut |-> TRUE]]
                /\ busy' = [busy EXCEPT ![p] = TRUE]
                /\ wire' = [wire EXCEPT ![p] = @ \cup {items}]
    /\ UNCHANGED <<db, root, status, finished, peers, used>>

\* runStateSync: the active request of p is finished, by the answer, by a
\* timeout or because the peer was dropped.
Finished(p, req) ==
    /\ active' = [active EXCEPT ![p] = NoReq]
    /\ finished' = Append(finished, req)

Answer(p) ==
    /\ Running
    /\ \E items \in wire[p] : \E got \in {items \cap Has[p]} :
        /\ wire' = [wire EXCEPT ![p] = @ \ {items}]
        /\ IF active[p] = NoReq THEN UNCHANGED <<active, finished>>
           ELSE Finished(p, [active[p] EXCEPT !.response = got, !.timedOut = FALSE])
    /\ UNCHANGED <<db, root, sched, tasks, status, busy, peers, used>>

Timeout(p) ==
    /\ Running /\ active[p] # NoReq /\ used.timeouts < MaxTimeouts
    /\ used' = [used EXCEPT !.timeouts = @ + 1]
    /\ Finished(p, active[p])
    /\ UNCHANGED <<db, root, sched, tasks, status, busy, peers, wire>>

Drop(p) ==
    /\ Running /\ p \in peers /\ used.drops < MaxDrops
    /\ used' = [used EXCEPT !.drops = @ + 1]
    /\ peers' = peers \ {p}
    /\ wire' = [wire EXCEPT ![p] = {}]
    /\ IF active[p] = NoReq THEN UNCHANGED <<active, finished>>
       ELSE Finished(p, [active[p] EXCEPT !.dropped = TRUE])
    /\ UNCHANGED <<db, root, sched, tasks, status, busy>>

\* A peer that registers is a new connection, idle, even under an old id.
Join(p) ==
    /\ Running /\ p \notin peers /\ used.joins < MaxJoins
    /\ used' = [used EXCEPT !.joins = @ + 1]
    /\ peers' = peers \cup {p} /\ busy' = [busy EXCEPT ![p] = FALSE]
    /\ UNCHANGED <<db, root, sched, tasks, status, active, finished, wire>>

\* process: the tasks of a request that its response did not settle.  The
\* peer counts as tried only if it answered with nothing.
Retry(req) ==
    [h \in req.items \ req.response |->
        IF req.response # {} \/ req.timedOut THEN req.tasks[h] \ {req.peer} ELSE req.tasks[h]]

\* SetNodeDataIdle.
Freed(req) == [busy EXCEPT ![req.peer] = FALSE]

\* loop takes the next finished request: a peer that let a small request
\* time out is dropped, the nodes are processed, the rest is put back to be
\* tried with others, unless all were tried.  The batch may be written.
Deliver ==
    /\ Running /\ Pending(sched) > 0 /\ finished # << >>
    /\ \E flush \in BOOLEAN :
        LET req == Head(finished)
            stalls == Cardinality(req.items) <= 2 /\ ~req.dropped /\ req.timedOut
            left == IF stalls THEN peers \ {req.peer} ELSE peers
            s == FoldLeft(LAMBDA t, h : Process(db, t, h), sched, SetToSeq(req.response))
            retry == Retry(req)
            failed == \E h \in DOMAIN retry : Cardinality(retry[h]) >= Cardinality(left)
        IN  /\ finished' = Tail(finished)
            /\ peers' = left
            /\ tasks' = [h \in DOMAIN tasks \cup DOMAIN retry |->
                             IF h \in DOMAIN retry THEN retry[h] ELSE tasks[h]]
            /\ status' = IF failed THEN "failed" ELSE status
            /\ busy' = IF failed THEN busy ELSE Freed(req)
            /\ IF flush \/ failed
               THEN db' = db \cup ToSet(s.batch) /\ sched' = [s EXCEPT !.batch = << >>]
               ELSE db' = db /\ sched' = s
    /\ UNCHANGED <<root, active, wire, used>>

\* Nothing is pending: loop returns and writes what is left of the batch.
Complete ==
    /\ Running /\ Pending(sched) = 0
    /\ db' = Flushed
    /\ sched' = [sched EXCEPT !.batch = << >>]
    /\ status' = "done"
    /\ UNCHANGED <<root, tasks, active, finished, busy, peers, wire, used>>

\* The synchronisation is canceled.
Cancel ==
    /\ Running
    /\ db' = Flushed
    /\ sched' = [sched EXCEPT !.batch = << >>]
    /\ status' = "canceled"
    /\ UNCHANGED <<root, tasks, active, finished, busy, peers, wire, used>>

Crash ==
    /\ used.crashes < MaxCrashes
    /\ used' = [used EXCEPT !.crashes = @ + 1]
    /\ root' = Empty /\ sched' = NewSync /\ tasks' = << >> /\ status' = "idle"
    /\ active' = [p \in Peer |-> NoReq] /\ finished' = << >>
    /\ busy' = [p \in Peer |-> FALSE] /\ peers' = Peer
    /\ wire' = [p \in Peer |-> {}]
    /\ UNCHANGED db

Next ==
    \/ \E r \in Roots : Start(r)
    \/ \E p \in Peer : Assign(p) \/ Answer(p) \/ Timeout(p) \/ Drop(p) \/ Join(p)
    \/ Deliver \/ Complete \/ Cancel \/ Crash

Spec == Init /\ [][Next]_vars

-----------------------------------------------------------------------------
(***************************************************************************)
(* Properties.                                                             *)
(***************************************************************************)

InRequests == UNION {DOMAIN active[p].tasks : p \in {q \in Peer : active[q] # NoReq}}
              \cup UNION {DOMAIN finished[i].tasks : i \in DOMAIN finished}

TypeOK ==
    /\ db \subseteq Node /\ root \in Roots \cup {Empty}
    /\ DOMAIN sched.req \subseteq Node /\ sched.queue \subseteq DOMAIN sched.req
    /\ status \in {"idle", "run", "done", "failed", "canceled"}
    /\ \A p \in Peer : active[p] # NoReq => busy[p] /\ active[p].peer = p

\* Nothing is in the database without everything below it, whenever the
\* process dies: a state root that is present is a whole state.  AddSubTrie
\* and children rely on it when they skip what the database has.
DBClosed == \A n \in db : Reach(n) \subseteq db

\* A download that ends without an error leaves the whole state.
DoneWhole == status = "done" => Reach(root) \subseteq db

\* A node that is missing is waiting to be asked for, or asked of someone:
\* whatever times out, is dropped or answered late, nothing is forgotten.
NoTaskLost ==
    status = "run" =>
        \A h \in DOMAIN sched.req : ~sched.req[h].data =>
            h \in sched.queue \cup DOMAIN tasks \cup InRequests

\* The counters that hold a node back count the requests that name it as a
\* parent.
DepsExact ==
    \A h \in DOMAIN sched.req :
        sched.req[h].deps =
            MapThenSumSet(LAMBDA c : Len(SelectSeq(sched.req[c].parents, LAMBDA q : q = h)),
                          DOMAIN sched.req)

\* The goroutines and the peers never all wait for each other: while nodes
\* are missing, something is to be processed, answered or assigned.  This is
\* for one root and as long as no peer is lost.  A pivot that moves forgets
\* the requests in finished, and their peers stay busy; and when a peer
\* leaves, a task that all who stay were tried for is not looked at again.
NeverStuck ==
    Running /\ Pending(sched) > 0 /\ used.moves = 0 /\ peers = Peer =>
        \/ finished # << >>
        \/ \E p \in Peer : active[p] # NoReq /\ wire[p] # {}
        \/ \E p \in Peer : ~busy[p] /\
              \/ \E h \in DOMAIN tasks : p \notin tasks[h]
              \/ sched.queue # {} /\ Cardinality(DOMAIN tasks) < Capacity

=============================================================================
