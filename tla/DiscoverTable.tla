---------------------------- MODULE DiscoverTable ----------------------------
(***************************************************************************)
(* The buckets of the node table (lib/p2p/discover/table.go).  Replies to  *)
(* queries, pings and seeds add nodes; nodes that fail too many queries    *)
(* are deleted; revalidation pings the last node of a bucket and replaces  *)
(* it when it does not answer.  A step takes the mutex once: queries and   *)
(* the ping run without it, so what they found may be gone meanwhile.      *)
(*                                                                         *)
(* A node is its id and the network its address is in; the same id may be  *)
(* seen at several addresses.  The tables of addresses (netutil's          *)
(* DistinctNetSet) count, per network, the nodes of the table and of each  *)
(* bucket; the local network is not counted.  The state is one record:     *)
(*   ents, reps   entries and replacements of each bucket, newest first    *)
(*   ips, bips    the counts of the table and of each bucket               *)
(***************************************************************************)
EXTENDS Integers, Sequences, FiniteSets, SequencesExt

CONSTANTS
    Node,                 \* [id, net] records: the nodes seen, at their addresses
    Bucket, BucketOf,     \* the buckets, and the bucket of each id
    Lan,
    bucketSize, maxReplacements, bucketIPLimit, tableIPLimit,
    maxFindnodeFailures,
    Query, None,          \* the queries that may be under way
    MaxAdds               \* bound

VARIABLES tab, fails, query, revalidating, adds

vars == <<tab, fails, query, revalidating, adds>>

Id == {n.id : n \in Node}
Net == {n.net : n \in Node}
Ids(s) == {s[i].id : i \in DOMAIN s}

-----------------------------------------------------------------------------
addIPOk(t, b, net) == net = Lan \/ (t.ips[net] < tableIPLimit /\ t.bips[b][net] < bucketIPLimit)
Counted(t, b, net, by) == IF net = Lan THEN t
                          ELSE [t EXCEPT !.ips[net] = Max({0, @ + by}), !.bips[b][net] = Max({0, @ + by})]
addIP(t, b, n) == Counted(t, b, n.net, 1)
removeIP(t, b, n) == Counted(t, b, n.net, -1)

deleteNode(s, id) == SelectSeq(s, LAMBDA e : e.id # id)
pushNode(s, n, max) == <<n>> \o (IF Len(s) < max THEN s ELSE Front(s))

\* Moves the node with n's id to the front, as n: its address may be another one.
bump(s, n) == <<n>> \o deleteNode(s, n.id)

addReplacement(t, b, n) ==
    IF n.id \in Ids(t.reps[b]) \/ ~addIPOk(t, b, n.net) THEN t
    ELSE LET u == [addIP(t, b, n) EXCEPT !.reps[b] = pushNode(@, n, maxReplacements)]
         IN IF Len(t.reps[b]) = maxReplacements THEN removeIP(u, b, Last(t.reps[b])) ELSE u

TakenFrom(s, n) == deleteNode(s, n.id)

add(t, n) ==
    LET b == BucketOf[n.id]
    IN CASE n.id \in Ids(t.ents[b]) -> [t EXCEPT !.ents[b] = bump(@, n)]
         [] n.id \notin Ids(t.ents[b]) /\ Len(t.ents[b]) < bucketSize /\ addIPOk(t, b, n.net) ->
                [addIP(t, b, n) EXCEPT !.ents[b] = pushNode(@, n, bucketSize), !.reps[b] = TakenFrom(@, n)]
         [] OTHER -> addReplacement(t, b, n)

deleteInBucket(t, b, n) == removeIP([t EXCEPT !.ents[b] = deleteNode(@, n.id)], b, n)

\* The states replace may leave: any replacement may take the place of last.
Replaced(t, b, last) ==
    IF t.ents[b] = << >> \/ Last(t.ents[b]).id # last.id THEN {t}
    ELSE IF t.reps[b] = << >> THEN {deleteInBucket(t, b, last)}
    ELSE {removeIP([t EXCEPT !.reps[b] = RemoveAt(@, i), !.ents[b] = Front(@) \o <<t.reps[b][i]>>], b, last)
              : i \in DOMAIN t.reps[b]}

-----------------------------------------------------------------------------
Init ==
    /\ tab = [ents |-> [b \in Bucket |-> << >>], reps |-> [b \in Bucket |-> << >>],
              ips |-> [net \in Net |-> 0], bips |-> [b \in Bucket |-> [net \in Net |-> 0]]]
    /\ fails = [i \in Id |-> 0]
    /\ query = [q \in Query |-> None]
    /\ revalidating = None
    /\ adds = 0

\* A seed, a node named in a reply, or one that pinged us.
Add ==
    /\ adds < MaxAdds
    /\ adds' = adds + 1
    /\ \E n \in Node : tab' = add(tab, n)
    /\ UNCHANGED <<fails, query, revalidating>>

\* findnode reads the failures of the node before it asks, and writes them after.
Ask ==
    \E q \in Query, b \in Bucket :
        /\ query[q] = None
        /\ \E i \in DOMAIN tab.ents[b] :
               query' = [query EXCEPT ![q] = [node |-> tab.ents[b][i], fails |-> fails[tab.ents[b][i].id]]]
        /\ UNCHANGED <<tab, fails, revalidating, adds>>

\* The nodes of the answer are added one by one, by Add.
Answered ==
    \E q \in Query :
        /\ query[q] # None
        /\ LET r == query[q]
           IN fails' = IF r.fails > 0 THEN [fails EXCEPT ![r.node.id] = r.fails - 1] ELSE fails
        /\ query' = [query EXCEPT ![q] = None]
        /\ UNCHANGED <<tab, revalidating, adds>>

NoAnswer ==
    \E q \in Query :
        /\ query[q] # None
        /\ LET r == query[q]
           IN /\ r.fails + 1 <= maxFindnodeFailures
              /\ fails' = [fails EXCEPT ![r.node.id] = r.fails + 1]
              /\ tab' = IF r.fails + 1 >= maxFindnodeFailures
                        THEN deleteInBucket(tab, BucketOf[r.node.id], r.node) ELSE tab
        /\ query' = [query EXCEPT ![q] = None]
        /\ UNCHANGED <<revalidating, adds>>

nodeToRevalidate ==
    /\ revalidating = None
    /\ \E b \in Bucket : tab.ents[b] # << >> /\ revalidating' = [bucket |-> b, last |-> Last(tab.ents[b])]
    /\ UNCHANGED <<tab, fails, query, adds>>

\* A pong, or none; the node may have been deleted, or moved up, meanwhile.
doRevalidate ==
    /\ revalidating # None
    /\ LET b == revalidating.bucket
           last == revalidating.last
       IN \/ tab' = IF last.id \in Ids(tab.ents[b]) THEN [tab EXCEPT !.ents[b] = bump(@, last)] ELSE tab
          \/ tab' \in Replaced(tab, b, last)
    /\ revalidating' = None
    /\ UNCHANGED <<fails, query, adds>>

Next == Add \/ Ask \/ Answered \/ NoAnswer \/ nodeToRevalidate \/ doRevalidate
Spec == Init /\ [][Next]_vars

-----------------------------------------------------------------------------
(* The buffer ReadRandomNodes fills, of size k: one node of each bucket in
   turn, in some order of the buckets; an emptied bucket is cut out, and the
   one that moves into its place is passed over. *)
Sources(order) == SelectSeq([i \in DOMAIN order |-> tab.ents[order[i]]], LAMBDA s : s # << >>)
ReadStep(r) ==
    LET b == r.left[r.j]
        left == IF Len(b) = 1 THEN RemoveAt(r.left, r.j) ELSE [r.left EXCEPT ![r.j] = Tail(b)]
    IN [buf |-> Append(r.buf, Head(b)), left |-> left, j |-> IF left = << >> THEN 0 ELSE (r.j % Len(left)) + 1]
ReadRandomNodes(order, k) ==
    FoldLeft(LAMBDA r, i : IF r.left = << >> THEN r ELSE ReadStep(r),
             [buf |-> << >>, left |-> Sources(order), j |-> 1], [i \in 1..k |-> i]).buf

-----------------------------------------------------------------------------
TypeOK ==
    /\ \A b \in Bucket :
           /\ tab.ents[b] \in Seq(Node) /\ Len(tab.ents[b]) <= bucketSize
           /\ tab.reps[b] \in Seq(Node) /\ Len(tab.reps[b]) <= maxReplacements
           /\ \A net \in Net : tab.bips[b][net] \in 0..bucketIPLimit
    /\ \A net \in Net : tab.ips[net] \in 0..tableIPLimit
    /\ fails \in [Id -> 0..maxFindnodeFailures]
    /\ adds \in 0..MaxAdds

(* However additions, failed queries and late revalidations interleave, an
   id is at most once in its bucket, as an entry or as a replacement. *)
NoDuplicates ==
    \A b \in Bucket :
        LET all == tab.ents[b] \o tab.reps[b] IN Cardinality(Ids(all)) = Len(all)

(* ReadRandomNodes returns every node of the table, none twice, when the
   buffer has room for them, and fills it otherwise. *)
RandomNodesAll ==
    \A order \in SetToSeqs(Bucket), k \in 1..3 :
        LET got == ReadRandomNodes(order, k)
            all == UNION {{tab.ents[b][i].id : i \in DOMAIN tab.ents[b]} : b \in Bucket}
        IN /\ Len(got) = Min({k, Cardinality(all)})
           /\ Cardinality(Ids(got)) = Len(got)
=============================================================================
