-------------------------------- MODULE Dial --------------------------------
(***************************************************************************)
(* The dial scheduler of the p2p server (lib/p2p/dial.go, with the task    *)
(* loop of Server.run in lib/p2p/server.go).  Every event of the loop is   *)
(* followed by scheduleTasks: queued tasks are started, then newTasks is   *)
(* asked for more.  Nothing else wakes the loop, so whatever has to be     *)
(* dialed later needs a task that ends by then.                            *)
(*                                                                         *)
(* Time is a counter; the order of the queued tasks is left open.  The     *)
(* state of the loop is one record, s below:                               *)
(*   peers     how each node is connected: "no", "in", "dyn" or "static"   *)
(*   dialing   the flag of each node being dialed, or "no"                 *)
(*   static    the static nodes                                            *)
(*   hist      until when each node is not dialed again, or 0              *)
(*   lookupBuf, lookupRunning                                              *)
(*   running, queued   the tasks                                           *)
(***************************************************************************)
EXTENDS Integers, Sequences, FiniteSets

CONSTANTS
    Node, Self,
    Static0,          \* the static nodes of the configuration
    Boot,             \* the bootstrap node, if any, in a set
    maxDynDials, maxActiveDialTasks,
    dialHistoryExpiration, fallbackInterval,
    MaxTime, MaxChanges   \* bounds

VARIABLES srv, now, changes

vars == <<srv, now, changes>>

DialTask(n, f) == [kind |-> "dial", node |-> n, flag |-> f]
DiscoverTask == [kind |-> "discover", node |-> Self, flag |-> "no"]
WaitTask == [kind |-> "wait", node |-> Self, flag |-> "no"]

-----------------------------------------------------------------------------
\* The errors of checkDial; nodes are never dialed twice, while connected, or soon again.
checkDial(s, n) == s.dialing[n] = "no" /\ s.peers[n] = "no" /\ n # Self /\ s.hist[n] = 0

needDynDials(s) ==
    maxDynDials - Cardinality({n \in Node : s.peers[n] = "dyn"}) - Cardinality({n \in Node : s.dialing[n] = "dyn"})

\* hist.expire.
Expired(s) == [s EXCEPT !.hist = [n \in Node |-> IF @[n] <= now THEN 0 ELSE @[n]]]

\* addDial for each of S that can be dialed: the state, and the new tasks.
Dialable(s, S) == {n \in S : checkDial(s, n)}
AddDials(s, S, f) == [s EXCEPT !.dialing = [n \in Node |-> IF n \in Dialable(s, S) THEN f ELSE @[n]],
                               !.fresh = @ \cup {DialTask(n, f) : n \in Dialable(s, S)}]

\* How much of the last lookup is looked at, to find as many as are needed.
Front(s, k) == {s.lookupBuf[i] : i \in 1..k}
Looked(s, need) ==
    CHOOSE k \in 0..Len(s.lookupBuf) :
        /\ k < Len(s.lookupBuf) => Cardinality(Dialable(s, Front(s, k))) >= need
        /\ \A j \in 0..(k - 1) : Cardinality(Dialable(s, Front(s, j))) < need

FromLookup(s) ==
    LET k == Looked(s, needDynDials(s))
    IN [AddDials(s, Front(s, k), "dyn") EXCEPT !.lookupBuf = SubSeq(@, k + 1, Len(@))]

Lookup(s) ==
    IF Len(s.lookupBuf) < needDynDials(s) /\ ~s.lookupRunning
    THEN [s EXCEPT !.lookupRunning = TRUE, !.fresh = @ \cup {DiscoverTask}] ELSE s

\* Mutant: nothing waits for the history.
AwaitNever(s) == s
Await(s) ==
    IF s.running = {} /\ s.queued = {} /\ s.fresh = {} /\ \E n \in Node : s.hist[n] > 0
    THEN [s EXCEPT !.fresh = {WaitTask}] ELSE s

Fallback(s) == (\A n \in Node : s.peers[n] = "no") /\ needDynDials(s) > 0 /\ now > fallbackInterval

\* newTasks: the static nodes, a bootstrap node when there is nobody, random nodes of the table
\* for half of what is missing, and the rest from the last lookup.
newTasks(s0) ==
    LET s1 == AddDials(Expired(s0), s0.static, "static")
        s2 == IF Fallback(s1) THEN AddDials(s1, Boot, "dyn") ELSE s1
        half == needDynDials(s2) \div 2
        Random == {R \in SUBSET Node : Cardinality(R) <= half \/ R = {}}
    IN {Await(Lookup(FromLookup(AddDials([s2 EXCEPT !.static = @ \ {Self}], R, "dyn")))) : R \in Random}

\* startTasks.
Started(s, ts) ==
    LET room == maxActiveDialTasks - Cardinality(s.running)
        n == IF Cardinality(ts) < room THEN Cardinality(ts) ELSE room
    IN {[s EXCEPT !.running = @ \cup T, !.queued = (@ \cup ts) \ T, !.fresh = {}] :
            T \in {U \in SUBSET ts : Cardinality(U) = n}}

\* scheduleTasks, which follows every event of the loop.
scheduleTasks(s0) ==
    UNION {IF Cardinality(s1.running) < maxActiveDialTasks
           THEN UNION {Started(s2, s2.fresh) : s2 \in newTasks(s1)}
           ELSE {s1} : s1 \in Started(s0, s0.queued)}

Round(s) == srv' \in scheduleTasks(s)

-----------------------------------------------------------------------------
Empty ==
    [peers |-> [n \in Node |-> "no"], dialing |-> [n \in Node |-> "no"], static |-> Static0,
     hist |-> [n \in Node |-> 0], lookupBuf |-> << >>, lookupRunning |-> FALSE,
     running |-> {}, queued |-> {}, fresh |-> {}]

\* After the first round.
Init ==
    /\ now = 1 /\ changes = 0
    /\ srv \in scheduleTasks(Empty)

\* dialTask.Do connects: the new peer reaches the loop before the end of its task does.
\* It is refused if the node is connected by then.
Connected(t) ==
    /\ t.kind = "dial" /\ srv.peers[t.node] = "no"
    /\ Round([srv EXCEPT !.peers[t.node] = t.flag])
    /\ UNCHANGED <<now, changes>>

\* taskDone.
DialDone(t) ==
    /\ t.kind = "dial"
    /\ Round([srv EXCEPT !.running = @ \ {t}, !.dialing[t.node] = "no",
                         !.hist[t.node] = now + dialHistoryExpiration])
    /\ UNCHANGED <<now, changes>>

DiscoverDone ==
    /\ DiscoverTask \in srv.running
    /\ \E r \in {<< >>} \cup {<<n>> : n \in Node} \cup {<<n, m>> : n \in Node, m \in Node} :
          Round([srv EXCEPT !.running = @ \ {DiscoverTask}, !.lookupRunning = FALSE, !.lookupBuf = @ \o r])
    /\ UNCHANGED <<now, changes>>

\* waitExpireTask.Do sleeps until the first entry of the history expires.
WaitDone ==
    /\ WaitTask \in srv.running
    /\ \E n \in Node : srv.hist[n] <= now
    /\ Round([srv EXCEPT !.running = @ \ {WaitTask}])
    /\ UNCHANGED <<now, changes>>

\* A peer comes by itself, or goes; AddPeer and RemovePeer.
Change(s) ==
    /\ changes < MaxChanges
    /\ changes' = changes + 1
    /\ Round(s)
    /\ UNCHANGED now

Accepted(n) == srv.peers[n] = "no" /\ n # Self /\ Change([srv EXCEPT !.peers[n] = "in"])
Dropped(n) == srv.peers[n] # "no" /\ Change([srv EXCEPT !.peers[n] = "no"])
AddStatic(n) == n \notin srv.static /\ Change([srv EXCEPT !.static = @ \cup {n}])
RemoveStatic(n) == n \in srv.static /\ Change([srv EXCEPT !.static = @ \ {n}, !.hist[n] = 0])

Tick ==
    /\ now < MaxTime
    /\ now' = now + 1
    /\ UNCHANGED <<srv, changes>>

Next ==
    \/ DiscoverDone \/ WaitDone \/ Tick
    \/ \E t \in srv.running : Connected(t) \/ DialDone(t)
    \/ \E n \in Node : Accepted(n) \/ Dropped(n) \/ AddStatic(n) \/ RemoveStatic(n)

Spec == Init /\ [][Next]_vars

-----------------------------------------------------------------------------
(* Properties. *)

Tasks == srv.running \cup srv.queued

TypeOK ==
    /\ Cardinality(srv.running) <= maxActiveDialTasks
    /\ srv.dialing \in [Node -> {"no", "dyn", "static"}]
    /\ srv.peers \in [Node -> {"no", "in", "dyn", "static"}]
    /\ srv.fresh = {}

\* A node has a dial task if and only if it is marked as being dialed, and one only: it is
\* never dialed twice at a time, and no mark is left behind that would keep it from being dialed.
DialOnce ==
    \A n \in Node : Cardinality({t \in Tasks : t.kind = "dial" /\ t.node = n})
                        = (IF srv.dialing[n] = "no" THEN 0 ELSE 1)

\* The nodes dialed from discovery, connected or being dialed, are at most maxDynDials.
DynBounded == Cardinality({n \in Node : srv.peers[n] = "dyn" \/ srv.dialing[n] = "dyn"}) <= maxDynDials

\* The loop does not fall asleep on unfinished business: while a static node is not connected,
\* or more nodes could be dialed, some task is running whose end starts the next round.
Awake ==
    (\E n \in srv.static : srv.peers[n] = "no") \/ needDynDials(srv) > 0 => srv.running # {}

=============================================================================
