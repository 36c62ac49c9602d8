-------------------------------- MODULE Trie --------------------------------
(***************************************************************************)
(* A Trie over its node database: reads, updates, hashing, commits that    *)
(* unload old nodes from memory, opening a committed root, and nodes       *)
(* missing from the database (a state that was not fully retrieved).       *)
(***************************************************************************)
EXTENDS TrieNodes, FiniteSets

CONSTANTS
    Key,          \* keys of bytes
    Value,        \* the values; None deletes
    cachelimit,
    MaxLost,      \* bound on the nodes that go missing
    MaxRounds     \* bound on commits and openings

VARIABLES
    root, cachegen,
    db,           \* the encodings of the nodes in the database
    lost,         \* the nodes that went missing
    content,      \* what the updates made of each key
    saved,        \* the last committed root and its content
    rounds        \* commits and openings so far

vars == <<root, cachegen, db, lost, content, saved, rounds>>

NoContent == [k \in Key |-> None]

Init ==
    /\ root = Nil /\ cachegen = 0
    /\ db = {} /\ lost = {}
    /\ content = NoContent
    /\ saved = [root |-> Nil, content |-> NoContent]
    /\ rounds = 0

\* TryGet: the nodes it resolved stay in memory.
TryGet(k) ==
    /\ LET r == tryGet(db, root, keybytesToHex(k), cachegen)
       IN root' = IF r.ok /\ r.resolved THEN r.node ELSE root
    /\ UNCHANGED <<cachegen, db, lost, content, saved, rounds>>

\* TryUpdate and TryDelete: on an error the trie stays as it is.
Apply(k, v, r) ==
    /\ root' = IF r.ok THEN r.node ELSE root
    /\ content' = IF r.ok THEN [content EXCEPT ![k] = v] ELSE content
    /\ UNCHANGED <<cachegen, db, lost, saved, rounds>>

TryUpdate(k, v) == Apply(k, v, insert(db, root, keybytesToHex(k), valueNode(v), cachegen))
TryDelete(k) == Apply(k, None, delete(db, root, keybytesToHex(k), cachegen))

Hash ==
    /\ root # Nil
    /\ root' = hash(root, cachegen, cachelimit, FALSE, TRUE).cached
    /\ UNCHANGED <<cachegen, db, lost, content, saved, rounds>>

Commit ==
    /\ rounds < MaxRounds /\ rounds' = rounds + 1
    /\ LET r == hash(root, cachegen, cachelimit, TRUE, TRUE)
       IN IF root = Nil
          THEN /\ saved' = [root |-> Nil, content |-> content]
               /\ UNCHANGED <<root, db, lost>>
          ELSE /\ root' = r.cached
               /\ db' = db \cup r.puts
               /\ lost' = lost \ r.puts
               /\ saved' = [root |-> r.enc, content |-> content]
    /\ cachegen' = (cachegen + 1) % CacheGens
    /\ UNCHANGED content

\* trie.New on the last committed root.
New ==
    /\ rounds < MaxRounds /\ rounds' = rounds + 1
    /\ saved.root # Nil => saved.root.h \in db
    /\ root' = IF saved.root = Nil THEN Nil ELSE resolveHash(db, saved.root, 0)
    /\ cachegen' = 0
    /\ content' = saved.content
    /\ UNCHANGED <<db, lost, saved>>

Lose(e) ==
    /\ Cardinality(lost) < MaxLost
    /\ db' = db \ {e}
    /\ lost' = lost \cup {e}
    /\ UNCHANGED <<root, cachegen, content, saved, rounds>>

Next ==
    \/ \E k \in Key : TryGet(k) \/ TryDelete(k)
    \/ \E k \in Key, v \in Value : TryUpdate(k, v)
    \/ Hash \/ Commit \/ New
    \/ \E e \in db : Lose(e)

Spec == Init /\ [][Next]_vars

-----------------------------------------------------------------------------
\* A trie with no hash nodes and no flags: what the nodes say.
RECURSIVE Plain(_)
Plain(n) ==
    CASE n.t = "short" -> [t |-> "short", key |-> n.key, val |-> Plain(n.val)]
      [] n.t = "full" -> [t |-> "full", ch |-> [i \in Index |-> Plain(n.ch[i])]]
      [] n.t = "hash" -> Plain(decodeNode(n.h, n.h, 0))
      [] OTHER -> n

\* The trie of a set of <<nibbles, value>> pairs, whatever led to it.
RECURSIVE TrieOf(_)
TrieOf(S) ==
    IF S = {} THEN Nil
    ELSE IF \E e \in S : e[1] = << >> THEN valueNode((CHOOSE e \in S : TRUE)[2])
    ELSE LET p == LongestCommonPrefix({e[1] : e \in S})
         IN IF p # << >>
            THEN [t |-> "short", key |-> p, val |-> TrieOf({<<Rest(e[1], Len(p)), e[2]>> : e \in S})]
            ELSE [t |-> "full", ch |-> [i \in Index |->
                    TrieOf({<<Tail(e[1]), e[2]>> : e \in {x \in S : x[1][1] = i}})]]

Pairs(c) == {<<keybytesToHex(k), c[k]>> : k \in {x \in Key : c[x] # None}}

\* All nodes in memory.
RECURSIVE Nodes(_)
Nodes(n) == {n} \cup (CASE n.t = "short" -> Nodes(n.val)
                        [] n.t = "full" -> UNION {Nodes(n.ch[i]) : i \in Index}
                        [] OTHER -> {})

\* The hashes an encoding leads to, itself included.
RECURSIVE Reach(_)
Reach(e) ==
    CASE e.t = "hash" -> {e.h} \cup Reach(e.h)
      [] e.t = "short" -> Reach(e.val)
      [] e.t = "full" -> UNION {Reach(e.ch[i]) : i \in Index}
      [] OTHER -> {}

\* The node without the hashes its subtree remembers.
RECURSIVE Forgotten(_)
Forgotten(n) ==
    CASE n.t = "short" -> shortNode(n.key, Forgotten(n.val), newFlag(0))
      [] n.t = "full" -> fullNode([i \in Index |-> Forgotten(n.ch[i])], newFlag(0))
      [] OTHER -> n

(* Every node of the database encodes a node of a trie, the generation has *)
(* its width, and a lost node is not there.                                *)
TypeOK ==
    /\ \A e \in db \cup lost : e.t \in {"short", "full"}
    /\ db \cap lost = {}
    /\ cachegen \in 0..CacheGens - 1
    /\ content \in [Key -> Value \cup {None}]

(* Trie.TryGet answers what the updates made of a key, from memory, from   *)
(* the database or after unloading; it fails only if a node is missing.    *)
ReadsExact ==
    \A k \in Key : LET r == tryGet(db, root, keybytesToHex(k), cachegen)
                   IN IF r.ok THEN r.value = content[k] ELSE lost # {}

(* insert and delete leave the one trie of the content, with no branch of  *)
(* one child and no chain of short nodes, so that the root hash depends on *)
(* the content alone.                                                      *)
Canonical == Plain(root) = TrieOf(Pairs(content))

(* A hash a node remembers is the hash of what it now holds, and a node    *)
(* that is clean or unloaded can be read back.                             *)
CacheSound ==
    \A n \in Nodes(root) :
        /\ Inner(n) => n.flags.hash \in {NoHash, Enc(Forgotten(n))}
        /\ Inner(n) /\ ~n.flags.dirty /\ n.flags.hash # NoHash => n.flags.hash \in db \cup lost
        /\ n.t = "hash" => Reach(n) \subseteq db \cup lost

(* Everything below the last committed root is in the database.            *)
CommitWhole == Reach(saved.root) \subseteq db \cup lost

(* For a key of the trie Prove yields nodes from which VerifyProof gets    *)
(* its value, and for any other key nodes that show it is absent.          *)
ProofExact ==
    (root # Nil /\ lost = {}) =>
        \A k \in Key : VerifyProof(RootHash(root), k, Prove(db, root, k)) = content[k]

=============================================================================
