---------------------------- MODULE TrieIterator ----------------------------
(***************************************************************************)
(* Iterating over tries: nodeIterator with its stack and its seek, and the *)
(* difference and the union of two iterators, one call of Next at a time.  *)
(* The order of two different hashes is left open.                         *)
(***************************************************************************)
EXTENDS TrieNodes, FiniteSets

CONSTANTS
    Key, Value,
    Modes      \* of "node", "difference", "union"

VARIABLES
    mode, a, b,   \* two iterators, over tries of contentA and contentB
    contentA, contentB, start,
    less,         \* the order of two different hashes or values, by the length of the path
    eof,          \* of differenceIterator
    heap,         \* the iterators in the heap of unionIterator: their names
    emitted,      \* the leaves returned, in order
    done

vars == <<mode, a, b, contentA, contentB, start, less, eof, heap, emitted, done>>

-----------------------------------------------------------------------------
\* nodeIterator: err is "", "end"; a state is [node, hash, index, pathlen].
State(node, pathlen) ==
    [node |-> node, hash |-> IF Inner(node) THEN node.flags.hash ELSE NoHash, index |-> -1, pathlen |-> pathlen]

Path(it) == it.path
Leaf(it) == hasTerm(it.path)
HashOf(it) == IF it.stack = << >> THEN NoHash ELSE Last(it.stack).hash
LeafKey(it) == hexToKeybytes(it.path)
LeafBlob(it) == Last(it.stack).node.v

\* resolve: a hash node is read from the database of the trie.
Resolved(db, st) ==
    IF st.node.t = "hash" THEN [st EXCEPT !.node = resolveHash(db, st.node, 0), !.hash = st.node.h] ELSE st

pop(it) == [it EXCEPT !.path = SubSeq(@, 1, Last(it.stack).pathlen), !.stack = Front(@)]

\* The children nextChild has yet to visit, in a branch or below a short node.
Coming(st) ==
    CASE st.node.t = "full" -> {i \in Index : i > st.index /\ st.node.ch[i] # Nil}
      [] st.node.t = "short" -> IF st.index < 0 THEN {0} ELSE {}
      [] OTHER -> {}

First(S) == CHOOSE i \in S : \A j \in S : i <= j

\* nextChild and resolve: [it, st, path, index], with the index of the child in its parent.
Child(it, st, i) ==
    IF st.node.t = "full"
    THEN [it |-> it, end |-> FALSE, index |-> i, path |-> Append(it.path, i),
          st |-> Resolved(it.db, State(st.node.ch[i], Len(it.path)))]
    ELSE [it |-> it, end |-> FALSE, index |-> 0, path |-> it.path \o st.node.key,
          st |-> Resolved(it.db, State(st.node.val, Len(it.path)))]

RECURSIVE Seen(_)
Seen(it) ==
    IF it.stack = << >> THEN [it |-> it, end |-> TRUE]
    ELSE IF Coming(Last(it.stack)) = {} THEN Seen(pop(it))
    ELSE Child(it, Last(it.stack), First(Coming(Last(it.stack))))

peek(it, descend) ==
    IF it.stack = << >>
    THEN [it |-> it, end |-> FALSE, index |-> -1, path |-> << >>,
          st |-> [node |-> it.root, index |-> -1, pathlen |-> 0,
                  hash |-> IF it.root = Nil THEN NoHash ELSE RootHash(it.root).h]]
    ELSE Seen(IF descend THEN it ELSE pop(it))

push(p) ==
    [p.it EXCEPT !.path = p.path,
        !.stack = Append(IF @ = << >> THEN @ ELSE [@ EXCEPT ![Len(@)].index = p.index], p.st)]

\* nodeIterator.Next; err = "end" when there is nothing more.
Pushed(p) == IF p.end THEN [p.it EXCEPT !.err = "end"] ELSE push(p)
NextNode(it, descend) == IF it.err = "end" THEN it ELSE Pushed(peek(it, descend))

\* bytes.Compare(x, y) >= 0
RECURSIVE AtLeast(_, _)
AtLeast(x, y) ==
    IF y = << >> THEN TRUE
    ELSE IF x = << >> THEN FALSE
    ELSE x[1] > y[1] \/ (x[1] = y[1] /\ AtLeast(Tail(x), Tail(y)))

RECURSIVE seek(_, _)
Sought(p, key) ==
    IF p.end THEN [p.it EXCEPT !.err = "end"]
    ELSE IF AtLeast(p.path, key) THEN p.it
    ELSE seek(push(p), key)
seek(it, key) == Sought(peek(it, IsPrefix(it.path, key)), key)

newNodeIterator(db, root, from) ==
    seek([db |-> db, root |-> root, stack |-> << >>, path |-> << >>, err |-> ""], Front(keybytesToHex(from)))

-----------------------------------------------------------------------------
\* compareNodes(a, b); order says which of two hashes or values of a path is less.
Before(x, y) == ~AtLeast(x, y)
Differing(x, order) == IF order[Len(Path(x)) % 2] THEN -1 ELSE 1

compareNodes(x, y, order) ==
    CASE Before(Path(x), Path(y)) -> -1
      [] Before(Path(y), Path(x)) -> 1
      [] Path(x) = Path(y) /\ HashOf(x) # HashOf(y) ->
            IF HashOf(x) = NoHash THEN -1 ELSE IF HashOf(y) = NoHash THEN 1 ELSE Differing(x, order)
      [] Path(x) = Path(y) /\ HashOf(x) = HashOf(y) ->
            IF Leaf(x) /\ LeafBlob(x) # LeafBlob(y) THEN Differing(x, order) ELSE 0

Ended(it) == it.err = "end"

\* The loop of differenceIterator.Next: [a, b, eof, ok].
RECURSIVE Differ(_, _, _)
After(x, y, order) ==
    IF Ended(y) THEN [a |-> x, b |-> y, eof |-> FALSE, ok |-> FALSE]
    ELSE IF Ended(x) THEN [a |-> x, b |-> y, eof |-> TRUE, ok |-> TRUE]
    ELSE Differ(x, y, order)
BothMoved(x, y, whole, order) == After(IF Ended(y) THEN x ELSE NextNode(x, whole), y, order)
Differ(x, y, order) ==
    CASE compareNodes(x, y, order) = -1 -> After(NextNode(x, TRUE), y, order)
      [] compareNodes(x, y, order) = 1 -> [a |-> x, b |-> y, eof |-> FALSE, ok |-> TRUE]
      [] OTHER -> BothMoved(x, NextNode(y, HashOf(x) = NoHash), HashOf(x) = NoHash, order)

-----------------------------------------------------------------------------
\* The trie with a content, hashed and on disk, or in memory.
RECURSIVE Build(_, _, _)
Build(n, c, ks) == IF ks = {} THEN n
    ELSE LET k == CHOOSE k \in ks : TRUE
         IN Build(insert({}, n, keybytesToHex(k), valueNode(c[k]), 0).node, c, ks \ {k})
TrieWith(c) == Build(Nil, c, {k \in Key : c[k] # None})

Opened(n, onDisk) ==
    IF n = Nil THEN [db |-> {}, root |-> Nil]
    ELSE LET r == hash(n, 0, 1, TRUE, TRUE)
         IN [db |-> r.puts, root |-> IF onDisk THEN resolveHash(r.puts, r.enc, 0) ELSE r.cached]

Iterator(n, onDisk, from) == newNodeIterator(Opened(n, onDisk).db, Opened(n, onDisk).root, from)

Content == [Key -> Value \cup {None}]

Init ==
    /\ mode \in Modes /\ contentA \in Content
    /\ contentB \in IF mode = "node" THEN {contentA} ELSE Content
    /\ start \in IF mode = "node" THEN Key \cup {<< >>} ELSE {<< >>}
    /\ \E onDisk \in BOOLEAN :
        /\ b = Iterator(TrieWith(contentB), onDisk, start)
        /\ a = LET it == Iterator(TrieWith(contentA), TRUE, start)
               IN IF mode = "difference" THEN NextNode(it, TRUE) ELSE it
    /\ less \in IF mode = "node" THEN {[i \in 0..1 |-> TRUE]} ELSE [0..1 -> BOOLEAN]
    /\ heap = IF mode = "union" THEN {"a", "b"} ELSE {}
    /\ eof = FALSE /\ emitted = << >> /\ done = FALSE

Emit(it, ok) ==
    emitted' = IF ok /\ Leaf(it) THEN Append(emitted, <<LeafKey(it), LeafBlob(it)>>) ELSE emitted

NextSingle ==
    /\ mode = "node" /\ ~done
    /\ b' = NextNode(b, TRUE)
    /\ done' = Ended(b')
    /\ Emit(b', ~Ended(b'))
    /\ UNCHANGED <<mode, a, contentA, contentB, start, less, eof, heap>>

\* differenceIterator.Next, once b has moved to y.
Difference(y) ==
    IF Ended(y) THEN [a |-> a, b |-> y, eof |-> eof, ok |-> FALSE]
    ELSE IF eof THEN [a |-> a, b |-> y, eof |-> TRUE, ok |-> TRUE]
    ELSE Differ(a, y, less)

NextDifference ==
    /\ mode = "difference" /\ ~done
    /\ LET r == Difference(NextNode(b, TRUE))
       IN /\ a' = r.a /\ b' = r.b /\ eof' = r.eof /\ done' = ~r.ok
          /\ Emit(r.b, r.ok)
    /\ UNCHANGED <<mode, contentA, contentB, start, less, heap>>

\* The items on top of a heap with the iterators x, y in S.
Least(S, x, y) ==
    IF S # {"a", "b"} THEN S
    ELSE CASE compareNodes(x, y, less) = -1 -> {"a"}
           [] compareNodes(x, y, less) = 1 -> {"b"}
           [] OTHER -> {"a", "b"}

Skipped(it) == NextNode(it, HashOf(it) = NoHash)

\* unionIterator.Next: z is the least; an equal one is skipped, with what is below it.
NextUnion(z) ==
    /\ mode = "union" /\ ~done
    /\ z \in Least(heap, a, b)
    /\ LET equal == Least(heap, a, b) = {"a", "b"}
       IN /\ a' = IF z = "a" THEN NextNode(a, TRUE) ELSE IF equal THEN Skipped(a) ELSE a
          /\ b' = IF z = "b" THEN NextNode(b, TRUE) ELSE IF equal THEN Skipped(b) ELSE b
    /\ heap' = {x \in heap : ~Ended(IF x = "a" THEN a' ELSE b')}
    /\ done' = (heap' = {})
    /\ Emit(IF "a" \in Least(heap', a', b') THEN a' ELSE b', ~done')
    /\ UNCHANGED <<mode, contentA, contentB, start, less, eof>>

Next == NextSingle \/ NextDifference \/ \E x \in {"a", "b"} : NextUnion(x)

Spec == Init /\ [][Next]_vars

-----------------------------------------------------------------------------
Leaves(c) == {<<k, c[k]>> : k \in {x \in Key : c[x] # None}}

Sorted(s) == \A i, j \in 1..Len(s) : i < j => Before(keybytesToHex(s[i][1]), keybytesToHex(s[j][1]))

(* A leaf that was returned is a pair of one of the two tries.             *)
TypeOK == Range(emitted) \subseteq Leaves(contentA) \cup Leaves(contentB)

(* An iterator returns the leaves from its start on, each once and in the  *)
(* order of the keys, the ones below unloaded nodes included.              *)
NodesExact ==
    (mode = "node" /\ done) =>
        /\ Sorted(emitted)
        /\ Range(emitted) = {e \in Leaves(contentA) : AtLeast(keybytesToHex(e[1]), Front(keybytesToHex(start)))}

(* The difference of two tries has exactly the leaves of the second that   *)
(* the first does not have, each once, though whole subtrees are skipped.  *)
DifferenceExact ==
    (mode = "difference" /\ done) =>
        /\ Sorted(emitted)
        /\ Range(emitted) = Leaves(contentB) \ Leaves(contentA)

(* The union of two tries has the leaves of both, the common ones once.    *)
UnionExact ==
    (mode = "union" /\ done) =>
        /\ IsInjective(emitted)
        /\ Range(emitted) = Leaves(contentA) \cup Leaves(contentB)
=============================================================================
