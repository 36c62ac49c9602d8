--------------------------- MODULE DiscoverLookup ---------------------------
(***************************************************************************)
(* One lookup of the node table (Table.lookup, lib/p2p/discover/table.go): *)
(* the closest nodes known are asked for closer ones, alpha at a time,     *)
(* until all of the closest that are left have been asked.  A query is a   *)
(* goroutine; its answer waits in the reply channel.                       *)
(*                                                                         *)
(* A node is the rank of its distance to the target, so closest means      *)
(* least.  Any node may answer with any nodes but itself (its table does   *)
(* not hold it), or not at all.                                            *)
(***************************************************************************)
EXTENDS Integers, Sequences, FiniteSets, SequencesExt

CONSTANTS Node, Self, bucketSize, alpha, MaxReply

VARIABLES result, asked, seen, querying, reply, table0

vars == <<result, asked, seen, querying, reply, table0>>

-----------------------------------------------------------------------------
push(entries, n) ==
    LET ix == Cardinality({i \in DOMAIN entries : entries[i] <= n})
        kept == SubSeq(entries, 1, ix) \o <<n>> \o SubSeq(entries, ix + 1, Len(entries))
    IN IF Len(entries) < bucketSize THEN kept ELSE Front(kept)

Pushed(entries, s) == FoldLeft(push, entries, s)

\* Table.closest over the entries of the table.
closest(S) == Pushed(<< >>, SetToSeq(S))

ToAsk(r, a, pending) ==
    {i \in DOMAIN r : /\ r[i] \notin a
                      /\ \A j \in 1..(i - 1) : r[j] # r[i]
                      /\ Cardinality({r[j] : j \in 1..(i - 1)} \ a) + pending < alpha}

Outstanding(qs, rs) == Cardinality(qs) + Len(rs)

Init ==
    /\ table0 \in SUBSET (Node \ {Self})
    /\ result = closest(table0)
    /\ LET new == {result[i] : i \in ToAsk(result, {Self}, 0)}
       IN asked = {Self} \cup new /\ querying = new
    /\ seen = {}
    /\ reply = << >>

\* The query of n ends: an answer, an empty one, or an error, which has no nodes.
Answer ==
    \E n \in querying, k \in 0..MaxReply :
        /\ \E nodes \in [1..k -> Node \ {n}] : reply' = Append(reply, nodes)
        /\ querying' = querying \ {n}
        /\ UNCHANGED <<result, asked, seen, table0>>

\* The nodes of an answer that were in none before.
Fresh(nodes) == SelectSeq([i \in DOMAIN nodes |-> IF nodes[i] \in seen \/ \E j \in 1..(i - 1) : nodes[j] = nodes[i]
                                                  THEN 0 ELSE nodes[i]], LAMBDA n : n # 0)

\* One turn of the loop: an answer is taken in, and more nodes are asked.
Turn ==
    /\ reply # << >>
    /\ seen' = seen \cup ToSet(Head(reply))
    /\ result' = Pushed(result, Fresh(Head(reply)))
    /\ reply' = Tail(reply)
    /\ LET new == {result'[i] : i \in ToAsk(result', asked, Outstanding(querying, reply'))}
       IN asked' = asked \cup new /\ querying' = querying \cup new
    /\ UNCHANGED table0

Done == querying = {} /\ reply = << >>
Ended == Done /\ UNCHANGED vars

Next == Answer \/ Turn \/ Ended
Spec == Init /\ [][Next]_vars

-----------------------------------------------------------------------------
TypeOK ==
    /\ result \in Seq(Node) /\ Len(result) <= bucketSize
    /\ querying \subseteq asked \ {Self}
    /\ seen \subseteq Node
    /\ Outstanding(querying, reply) <= alpha

(* A lookup ends only when each node of its result was asked: none of the
   answers could still bring a closer one. *)
AllAsked == Done => ToSet(result) \subseteq asked

(* The result is ordered by distance, and begins with the closest of all
   the nodes the lookup came to know. *)
Closest ==
    /\ \A i \in 1..(Len(result) - 1) : result[i] <= result[i + 1]
    /\ \A n \in table0 \cup seen : result # << >> /\ result[1] <= n

(* The nodes of the result are distinct: TestTable_Lookup ("result set
   contains duplicate entries"). *)
ResultDistinct == Done => Cardinality(ToSet(result)) = Len(result)
=============================================================================
