------------------------------ MODULE TrieSync ------------------------------
(***************************************************************************)
(* The scheduler of a state download (lib/trie/sync.go, and the callback   *)
(* of kernel/state/sync.go): it hands out the hashes of missing trie nodes *)
(* and contract codes, takes their data in any order, and passes a node on *)
(* to the database only once everything below it has been passed on.       *)
(*                                                                         *)
(* A node is its own hash.  Kids lists the children of a trie node that    *)
(* are hashes (a full node may have the same child twice); Accounts is the *)
(* set of accounts among its values, each a storage root and a code hash.  *)
(* A scheduler is a record of its requests, the hashes that were not yet   *)
(* handed out, and the batch of finished nodes in the order of their       *)
(* completion.  The priority by depth only orders the hand-out and is left *)
(* out: any order is possible.                                             *)
(***************************************************************************)
EXTENDS Integers, Sequences, SequencesExt, FiniteSetsExt

CONSTANTS Node, Empty, Code, Kids, Accounts

\* Everything a state root stands for.
RECURSIVE Reach(_)
Reach(n) ==
    IF n = Empty THEN {}
    ELSE {n} \cup UNION {Reach(k) : k \in ToSet(Kids[n])}
             \cup UNION {Reach(a.root) \cup ({a.code} \ {Empty}) : a \in Accounts[n]}

NewSync == [req |-> << >>, queue |-> {}, batch |-> << >>]

schedule(s, h, raw, parents) ==
    IF h \in DOMAIN s.req
    THEN [s EXCEPT !.req[h].parents = @ \o parents]
    ELSE [s EXCEPT !.queue = @ \cup {h},
                   !.req = [r \in DOMAIN s.req \cup {h} |->
                       IF r = h THEN [data |-> FALSE, raw |-> raw, parents |-> parents, deps |-> 0]
                       ELSE s.req[r]]]

\* AddSubTrie and AddRawEntry, with at most one parent.
addEntry(db, s, h, raw, parents) ==
    IF h = Empty \/ h \in ToSet(s.batch) \/ h \in db THEN s
    ELSE schedule([s EXCEPT !.req = [r \in DOMAIN @ |->
                       IF r \in ToSet(parents) THEN [@[r] EXCEPT !.deps = @ + 1] ELSE @[r]]],
                  h, raw, parents)

\* The leaf callback of NewStateSync: storage trie, then code.
callback(db, s, n, account) ==
    addEntry(db, addEntry(db, s, account.root, FALSE, <<n>>), account.code, TRUE, <<n>>)

\* A finished node enters the batch, and its parents follow when it was the
\* last they waited for.
RECURSIVE commit(_, _)
commit(s, h) ==
    LET rest == [r \in DOMAIN s.req \ {h} |-> s.req[r]]
        Release(t, p) ==
            LET u == [t EXCEPT !.req[p].deps = @ - 1]
            IN  IF u.req[p].deps = 0 THEN commit(u, p) ELSE u
    IN  FoldLeft(Release, [s EXCEPT !.req = rest, !.batch = Append(@, h)], s.req[h].parents)

\* Mutant: the storage tries and codes below a node do not count.
processKidsOnly(db, s, n) ==
    LET new == SelectSeq(Kids[n], LAMBDA k : k \notin ToSet(s.batch) \cup db)
        t == FoldLeft(LAMBDA u, a : callback(db, u, n, a),
                      [s EXCEPT !.req[n].data = TRUE], SetToSeq(Accounts[n]))
    IN  IF new = << >> THEN commit(t, n)
        ELSE FoldLeft(LAMBDA u, k : schedule(u, k, FALSE, <<n>>),
                      [t EXCEPT !.req[n].deps = @ + Len(new)], new)

\* The data of a trie node: its accounts and children are requested; with
\* none missing it is finished.
processNode(db, s, n) ==
    LET new == SelectSeq(Kids[n], LAMBDA k : k \notin ToSet(s.batch) \cup db)
        t == FoldLeft(LAMBDA u, a : callback(db, u, n, a),
                      [s EXCEPT !.req[n].data = TRUE], SetToSeq(Accounts[n]))
    IN  IF new = << >> /\ t.req[n].deps = 0 THEN commit(t, n)
        ELSE FoldLeft(LAMBDA u, k : schedule(u, k, FALSE, <<n>>),
                      [t EXCEPT !.req[n].deps = @ + Len(new)], new)

\* Process, for one result.  Data that was not requested, or twice, is
\* reported and changes nothing.
Process(db, s, h) ==
    IF h \notin DOMAIN s.req \/ s.req[h].data THEN s
    ELSE IF s.req[h].raw THEN commit([s EXCEPT !.req[h].data = TRUE], h)
    ELSE processNode(db, s, h)

Pending(s) == Cardinality(DOMAIN s.req)

=============================================================================
