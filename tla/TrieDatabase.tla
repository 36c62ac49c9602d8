---------------------------- MODULE TrieDatabase ----------------------------
(***************************************************************************)
(* The database of trie nodes: dirty nodes in memory with reference counts *)
(* and the flush list, and the nodes on disk.                              *)
(*                                                                         *)
(* BlockChain.mu admits one writer at a time; a reader (an RPC call, a     *)
(* peer's request) comes between the steps.  Cap and Commit first write    *)
(* batches, each write a step at which the process may crash, and then     *)
(* clear the memory.  Nodes have size one.                                 *)
(***************************************************************************)
EXTENDS Integers, Sequences, SequencesExt, FiniteSets

CONSTANTS
    Order,      \* the nodes, each after those it refers to
    Children,   \* node |-> the hashes in it, repetitions included
    External,   \* node |-> the storage roots and codes of the accounts in it
    Root,       \* the roots of states
    Calls,      \* what happens in an instance, of "cap", "commit" and "read"
    MaxBlocks,  \* bounds: blocks written, calls of Cap and Commit, crashes
    MaxCalls, MaxCrashes

VARIABLES
    d,        \* [dirties, oldest, newest, size]
    disk, preimages, diskPreimages,
    triegc,   \* root |-> the times it is in BlockChain.triegc
    call,     \* the call of Cap or Commit between its steps
    reader,   \* the node a reader did not find in memory, and what it then got
    blocks, calls, crashes

vars == <<d, disk, preimages, diskPreimages, triegc, call, reader, blocks, calls, crashes>>

Node == Range(Order)
Meta == ""            \* common.Hash{}: the meta root, and the end of the list
NoExternal == [x \in {} |-> 0]

entry(prev) == [parents |-> 0, children |-> NoExternal, flushPrev |-> prev, flushNext |-> Meta]
NewDatabase == [dirties |-> Meta :> entry(Meta), oldest |-> Meta, newest |-> Meta, size |-> 0]
Idle == [op |-> "idle"]
NotReading == [node |-> Meta, got |-> TRUE]

Without(f, x) == [y \in DOMAIN f \ {x} |-> f[y]]

-----------------------------------------------------------------------------
\* childs: those of Reference, then those of the node itself.
childs(db, h) == SetToSeq(DOMAIN db.dirties[h].children) \o (IF h = Meta THEN << >> ELSE Children[h])

Counted(db, h) == IF h \in DOMAIN db.dirties THEN [db EXCEPT !.dirties[h].parents = @ + 1] ELSE db

Linked(db, h) ==
    IF db.oldest = Meta
    THEN [db EXCEPT !.dirties = @ @@ (h :> entry(db.newest)), !.oldest = h, !.newest = h, !.size = @ + 1]
    ELSE [db EXCEPT !.dirties = [@ EXCEPT ![db.newest].flushNext = h] @@ (h :> entry(db.newest)),
                    !.newest = h, !.size = @ + 1]

\* Mutant: a child that occurs twice in a node is counted once.
insertOnce(db, h) ==
    IF h \in DOMAIN db.dirties THEN db ELSE Linked(FoldLeft(Counted, db, SetToSeq(Range(Children[h]))), h)

insert(db, h) == IF h \in DOMAIN db.dirties THEN db ELSE Linked(FoldLeft(Counted, db, Children[h]), h)

reference(db, child, parent) ==
    IF \/ child \notin DOMAIN db.dirties
       \/ parent # Meta /\ child \in DOMAIN db.dirties[parent].children
    THEN db
    ELSE [db EXCEPT !.dirties[child].parents = @ + 1,
                    !.dirties[parent].children =
                        IF child \in DOMAIN @ THEN [@ EXCEPT ![child] = @ + 1] ELSE @ @@ (child :> 1)]

\* The three cases of dereference and uncache that take h off the flush list.
Unlinked(db, h) ==
    LET n == db.dirties[h]
    IN CASE h = db.oldest -> [db EXCEPT !.oldest = n.flushNext, !.dirties[n.flushNext].flushPrev = Meta]
         [] h = db.newest /\ h # db.oldest ->
                [db EXCEPT !.newest = n.flushPrev, !.dirties[n.flushPrev].flushNext = Meta]
         [] OTHER -> [db EXCEPT !.dirties[n.flushPrev].flushNext = n.flushNext,
                                !.dirties[n.flushNext].flushPrev = n.flushPrev]

Dropped(db, h) == [db EXCEPT !.dirties = Without(@, h), !.size = @ - 1]

Unreferenced(db, child, parent) ==
    IF child \notin DOMAIN db.dirties[parent].children THEN db
    ELSE [db EXCEPT !.dirties[parent].children =
                        IF @[child] = 1 THEN Without(@, child) ELSE [@ EXCEPT ![child] = @ - 1]]

Uncounted(db, h) == [db EXCEPT !.dirties[h].parents = IF @ > 0 THEN @ - 1 ELSE 0]

RECURSIVE dereference(_, _, _), AllDereferenced(_, _, _)
AllDereferenced(db, hs, parent) ==
    IF hs = << >> THEN db ELSE AllDereferenced(dereference(db, Head(hs), parent), Tail(hs), parent)
Released(db, child) ==
    IF child \notin DOMAIN db.dirties THEN db
    ELSE IF Uncounted(db, child).dirties[child].parents > 0 THEN Uncounted(db, child)
    ELSE Dropped(AllDereferenced(Unlinked(Uncounted(db, child), child), childs(db, child), child), child)
dereference(db, child, parent) == Released(Unreferenced(db, child, parent), child)

RECURSIVE uncache(_, _), AllUncached(_, _)
AllUncached(db, hs) == IF hs = << >> THEN db ELSE AllUncached(uncache(db, Head(hs)), Tail(hs))
uncache(db, h) ==
    IF h \notin DOMAIN db.dirties THEN db
    ELSE Dropped(AllUncached(Unlinked(db, h), childs(db, h)), h)

\* The nodes commit puts into the batch, children first.
RECURSIVE commit(_, _)
commit(db, h) ==
    IF h \notin DOMAIN db.dirties THEN << >>
    ELSE Append(FlattenSeq([i \in 1..Len(childs(db, h)) |-> commit(db, childs(db, h)[i])]), h)

\* The nodes Cap puts into the batch: from the oldest, until size is at most limit.
RECURSIVE Flushed(_, _, _, _)
Flushed(db, h, size, limit) ==
    IF size <= limit \/ h = Meta THEN << >>
    ELSE <<h>> \o Flushed(db, db.dirties[h].flushNext, size - 1, limit)

RECURSIVE Uncapped(_, _)
Uncapped(db, oldest) ==
    IF db.oldest = oldest
    THEN IF oldest = Meta THEN db ELSE [db EXCEPT !.dirties[oldest].flushPrev = Meta]
    ELSE Uncapped([Dropped(db, db.oldest) EXCEPT !.oldest = db.dirties[db.oldest].flushNext], oldest)

-----------------------------------------------------------------------------
\* What a state consists of.
RECURSIVE Closure(_)
Closure(h) == {h} \cup UNION {Closure(c) : c \in Range(Children[h]) \cup External[h]}

\* Node and node find a hash in memory or on disk.
Has(h) == h \in DOMAIN d.dirties \/ h \in disk

Init ==
    /\ d = NewDatabase /\ disk = {} /\ preimages = {} /\ diskPreimages = {}
    /\ triegc = [r \in Root |-> 0] /\ call = Idle /\ reader = NotReading
    /\ blocks = 0 /\ calls = 0 /\ crashes = 0

\* One node of a trie that is committed: insert, and the references of its accounts.
Committed(db, h) ==
    FoldLeft(LAMBDA x, e : reference(x, e, h), insert(db, h), SetToSeq(External[h]))

\* The nodes a trie commit inserts: what the block changed, up to the root.
Changed(root, base) ==
    {S \in SUBSET Closure(root) :
        /\ Closure(root) \ (IF base = Meta THEN {} ELSE Closure(base)) \subseteq S
        /\ root \in S
        /\ \A h \in S \ {root} : \E p \in S : h \in Range(Children[p]) \cup External[p]}

\* WriteBlockWithState: state.Commit on top of the state of the parent block, and Reference.
WriteBlock(root, base, changed) ==
    /\ call = Idle /\ blocks < MaxBlocks /\ blocks' = blocks + 1
    /\ IF base = Meta THEN \A r \in Root : ~Has(r) ELSE Has(base)
    /\ d' = reference(FoldLeft(Committed, d, SelectSeq(Order, LAMBDA h : h \in changed)), root, Meta)
    /\ preimages' = preimages \cup {root}
    /\ triegc' = [triegc EXCEPT ![root] = @ + 1]
    /\ UNCHANGED <<disk, diskPreimages, call, reader, calls, crashes>>

Dereference(root) ==
    /\ call = Idle /\ triegc[root] > 0
    /\ d' = dereference(d, root, Meta)
    /\ triegc' = [triegc EXCEPT ![root] = @ - 1]
    /\ UNCHANGED <<disk, preimages, diskPreimages, call, reader, blocks, calls, crashes>>

\* Cap: pre says whether the preimages are more than 4 MB.
Cap(limit, pre) ==
    /\ "cap" \in Calls /\ call = Idle /\ calls < MaxCalls /\ calls' = calls + 1
    /\ LET put == Flushed(d, d.oldest, d.size, limit)
       IN call' = [op |-> "cap", put |-> put, pre |-> IF pre THEN preimages ELSE {},
                   end |-> IF put = << >> THEN d.oldest ELSE d.dirties[Last(put)].flushNext]
    /\ UNCHANGED <<d, disk, preimages, diskPreimages, triegc, reader, blocks, crashes>>

Commit(root) ==
    /\ "commit" \in Calls /\ call = Idle /\ calls < MaxCalls /\ calls' = calls + 1
    /\ Has(root)
    /\ call' = [op |-> "commit", put |-> commit(d, root), pre |-> preimages, end |-> root]
    /\ UNCHANGED <<d, disk, preimages, diskPreimages, triegc, reader, blocks, crashes>>

\* batch.Write, when the batch is full or at the end.
WriteBatch(n) ==
    /\ call # Idle /\ call.put # << >>
    /\ disk' = disk \cup Range(SubSeq(call.put, 1, n))
    /\ diskPreimages' = diskPreimages \cup call.pre
    /\ call' = [call EXCEPT !.put = SubSeq(@, n + 1, Len(@))]
    /\ UNCHANGED <<d, preimages, triegc, reader, blocks, calls, crashes>>

\* A write that fails: the call returns the error.
WriteFails ==
    /\ call # Idle /\ call.put # << >>
    /\ call' = Idle
    /\ UNCHANGED <<d, disk, preimages, diskPreimages, triegc, reader, blocks, calls, crashes>>

\* The second half of Cap and Commit, under the write lock.
Clear ==
    /\ call # Idle /\ call.put = << >>
    /\ d' = IF call.op = "cap" THEN Uncapped(d, call.end) ELSE uncache(d, call.end)
    /\ diskPreimages' = diskPreimages \cup call.pre
    /\ preimages' = IF call.op = "commit" \/ call.pre # {} THEN {} ELSE preimages
    /\ call' = Idle
    /\ UNCHANGED <<disk, triegc, reader, blocks, calls, crashes>>

\* node: the node is not among the dirties, and the lock is released ...
Miss(h) ==
    /\ "read" \in Calls /\ reader = NotReading
    /\ h \notin DOMAIN d.dirties /\ h \in disk
    /\ reader' = [node |-> h, got |-> TRUE]
    /\ UNCHANGED <<d, disk, preimages, diskPreimages, triegc, call, blocks, calls, crashes>>

\* ... then it is read from disk.
ReadDisk ==
    /\ reader # NotReading
    /\ reader' = IF reader.node \in disk THEN NotReading ELSE [reader EXCEPT !.got = FALSE]
    /\ UNCHANGED <<d, disk, preimages, diskPreimages, triegc, call, blocks, calls, crashes>>

Crash ==
    /\ crashes < MaxCrashes /\ crashes' = crashes + 1
    /\ d' = NewDatabase /\ preimages' = {} /\ call' = Idle /\ reader' = NotReading
    /\ triegc' = [r \in Root |-> 0]
    /\ UNCHANGED <<disk, diskPreimages, blocks, calls>>

Next ==
    \/ \E root \in Root, base \in Root \cup {Meta} :
            \E changed \in Changed(root, base) : WriteBlock(root, base, changed)
    \/ \E root \in Root : Dereference(root) \/ Commit(root)
    \/ \E limit \in 0..d.size, pre \in BOOLEAN : Cap(limit, pre)
    \/ \E n \in 1..Len(Order) : call # Idle /\ n <= Len(call.put) /\ WriteBatch(n)
    \/ WriteFails \/ Clear
    \/ \E h \in Node : Miss(h)
    \/ ReadDisk \/ Crash

Spec == Init /\ [][Next]_vars

-----------------------------------------------------------------------------
\* The flush list, from the oldest.
RECURSIVE List(_, _)
List(h, n) == IF h = Meta \/ n = 0 \/ h \notin DOMAIN d.dirties THEN << >>
              ELSE <<h>> \o List(d.dirties[h].flushNext, n - 1)
FlushList == List(d.oldest, Len(Order) + 1)

\* accumulate: the dirty nodes that h leads to.
RECURSIVE Accumulated(_)
Accumulated(h) == IF h \notin DOMAIN d.dirties THEN {}
                  ELSE {h} \cup UNION {Accumulated(c) : c \in Range(childs(d, h))}

(* The dirty nodes are nodes or the meta root, which always stays.         *)
TypeOK ==
    /\ Meta \in DOMAIN d.dirties /\ DOMAIN d.dirties \subseteq Node \cup {Meta}
    /\ disk \subseteq Node
    /\ d.oldest \in DOMAIN d.dirties

(* A state that is referenced, or whose root is on disk, can be read whole *)
(* at every moment: while Cap and Commit move nodes to disk, after the     *)
(* states it shares nodes with are dereferenced, and after a crash.        *)
StatesWhole ==
    \A r \in Root : triegc[r] > 0 \/ r \in disk => \A h \in Closure(r) : Has(h)

(* Batches reach the disk with children first, so that what a crash leaves *)
(* on disk is complete.                                                    *)
DiskClosed == \A h \in disk : Closure(h) \subseteq disk

(* The flush list has each dirty node once, its links agree in both        *)
(* directions, it ends with newest, and dirtiesSize is its size.           *)
ListExact ==
    /\ Len(FlushList) = Cardinality(DOMAIN d.dirties) - 1
    /\ Range(FlushList) = DOMAIN d.dirties \ {Meta}
    /\ d.size = Len(FlushList)
    /\ \A i \in 2..Len(FlushList) : d.dirties[FlushList[i]].flushPrev = FlushList[i - 1]
    /\ FlushList # << >> => Last(FlushList) = d.newest

(* As verifyIntegrity has it, every dirty node is reachable from the meta  *)
(* root: dereferencing the last state that holds a node frees it.          *)
NoLeak == call = Idle => DOMAIN d.dirties \ {Meta} \subseteq Accumulated(Meta)

(* A reader that misses a node in memory finds it on disk.                 *)
ReadsFind == reader.got

(* A preimage is in memory or on disk, for every block not lost in a crash.*)
PreimagesKept == \A r \in Root : triegc[r] > 0 => r \in preimages \cup diskPreimages

=============================================================================
