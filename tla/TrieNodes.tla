----------------------------- MODULE TrieNodes ------------------------------
(***************************************************************************)
(* The nodes of the Merkle Patricia trie and the functions on them: keys   *)
(* and their compact form, tryGet, insert, delete, hashing, proofs.        *)
(*                                                                         *)
(* The hash of a node is its encoding, so that two nodes have one hash     *)
(* exactly if they encode alike; encodings have the sizes of RLP.  Nibbles *)
(* go up to Top instead of 15, the index of a value in a branch is 16.     *)
(***************************************************************************)
EXTENDS Integers, Sequences, SequencesExt

CONSTANTS
    Top,        \* the largest nibble of a key, at most 15
    Large,      \* the values of 32 bytes or more
    CacheGens   \* 2^16: cachegen is a uint16

Term == 16
Index == (0..Top) \cup {Term}
None == "none"                \* no value
NoHash == [t |-> "none"]

Nil == [t |-> "nil"]
valueNode(v) == [t |-> "value", v |-> v]
hashNode(enc) == [t |-> "hash", h |-> enc]
shortNode(key, val, flags) == [t |-> "short", key |-> key, val |-> val, flags |-> flags]
fullNode(ch, flags) == [t |-> "full", ch |-> ch, flags |-> flags]

newFlag(gen) == [hash |-> NoHash, gen |-> gen, dirty |-> TRUE]
Loaded(enc, gen) == [hash |-> enc, gen |-> gen, dirty |-> FALSE]
NoChildren == [i \in Index |-> Nil]

Inner(n) == n.t \in {"short", "full"}
canUnload(n, gen, limit) == ~n.flags.dirty /\ (gen - n.flags.gen) % CacheGens >= limit

-----------------------------------------------------------------------------
(* Keys: bytes, nibbles with a terminator, and the compact form of nodes. *)

hasTerm(s) == s # << >> /\ Last(s) = Term
Body(s) == IF hasTerm(s) THEN Front(s) ELSE s

keybytesToHex(str) ==
    Append([i \in 1..2 * Len(str) |-> IF i % 2 = 1 THEN str[(i + 1) \div 2] \div 16
                                      ELSE str[i \div 2] % 16], Term)

decodeNibbles(s) == [i \in 1..Len(s) \div 2 |-> 16 * s[2 * i - 1] + s[2 * i]]

hexToKeybytes(hex) == decodeNibbles(Body(hex))

hexToCompact(hex) ==
    LET odd == Len(Body(hex)) % 2
        flag == (IF hasTerm(hex) THEN 32 ELSE 0) + 16 * odd
    IN <<IF odd = 1 THEN flag + hex[1] ELSE flag>> \o decodeNibbles(SubSeq(Body(hex), 1 + odd, Len(Body(hex))))

\* base still has the terminator keybytesToHex adds.
Chopped(base) ==
    SubSeq(base, 3 - (base[1] % 2), IF base[1] < 2 THEN Len(base) - 1 ELSE Len(base))
compactToHex(compact) == Chopped(keybytesToHex(compact))

prefixLen(a, b) == Len(LongestCommonPrefix({a, b}))
Rest(key, n) == SubSeq(key, n + 1, Len(key))

-----------------------------------------------------------------------------
(* Encodings: what rlp.Encode makes of a node whose children are hashed.  *)
(* An embedded child is the child's encoding itself.                      *)

RECURSIVE Size(_)
Size(e) ==
    CASE e.t = "nil" -> 1
      [] e.t = "value" -> IF e.v \in Large THEN 33 ELSE 1
      [] e.t = "hash" -> 33
      [] e.t = "short" -> 1 + (IF Len(e.key) = 1 THEN 1 ELSE 1 + Len(e.key)) + Size(e.val)
      [] OTHER -> 1 + (17 - (Top + 2)) + FoldFunctionOnSet(+, 0, [i \in Index |-> Size(e.ch[i])], Index)

EncShort(key, val) == [t |-> "short", key |-> hexToCompact(key), val |-> val]
EncFull(ch) == [t |-> "full", ch |-> ch]

\* store: a small node is embedded in its parent, any other is its hash.
store(enc, force) == IF Size(enc) < 32 /\ ~force THEN enc ELSE hashNode(enc)

\* decodeNode: the node whose hash is h, or an embedded one with h = NoHash.
RECURSIVE decodeNode(_, _, _)
decodeNode(h, e, gen) ==
    CASE e.t = "short" -> shortNode(compactToHex(e.key), decodeNode(NoHash, e.val, gen), Loaded(h, gen))
      [] e.t = "full" -> fullNode([i \in Index |-> decodeNode(NoHash, e.ch[i], gen)], Loaded(h, gen))
      [] OTHER -> e

\* resolveHash: Nil if the database has no such node.
resolveHash(db, n, gen) == IF n.h \in db THEN decodeNode(n.h, n.h, gen) ELSE Nil
resolve(db, n, gen) == IF n.t = "hash" THEN resolveHash(db, n, gen) ELSE n

-----------------------------------------------------------------------------
(* hasher.hash: [enc, cached, puts], the form in the parent, the node that *)
(* replaces n in memory, and the nodes inserted into the database.         *)

Hashed(enc, cached, puts) == [enc |-> enc, cached |-> cached, puts |-> puts]

WithHash(n, stored, toDb) ==
    [n EXCEPT !.flags.hash = IF stored.t = "hash" THEN stored.h ELSE NoHash,
              !.flags.dirty = IF toDb THEN FALSE ELSE @]

Stored(n, enc, puts, toDb, force) ==
    Hashed(store(enc, force), WithHash(n, store(enc, force), toDb),
           IF toDb /\ store(enc, force).t = "hash" THEN puts \cup {enc} ELSE puts)

RECURSIVE hash(_, _, _, _, _)
hash(n, gen, limit, toDb, force) ==
    CASE ~Inner(n) -> Hashed(n, n, {})
      [] Inner(n) /\ n.flags.hash # NoHash /\ toDb /\ canUnload(n, gen, limit) ->
            Hashed(hashNode(n.flags.hash), hashNode(n.flags.hash), {})
      [] Inner(n) /\ n.flags.hash # NoHash /\ ~(toDb /\ canUnload(n, gen, limit))
            /\ (~toDb \/ ~n.flags.dirty) -> Hashed(hashNode(n.flags.hash), n, {})
      [] OTHER ->
            IF n.t = "short"
            THEN LET c == hash(n.val, gen, limit, toDb, FALSE)
                 IN Stored([n EXCEPT !.val = c.cached], EncShort(n.key, c.enc), c.puts, toDb, force)
            ELSE LET c == [i \in Index |-> hash(n.ch[i], gen, limit, toDb, FALSE)]
                 IN Stored([n EXCEPT !.ch = [i \in Index |-> c[i].cached]],
                           EncFull([i \in Index |-> c[i].enc]), UNION {c[i].puts : i \in Index}, toDb, force)

\* The root hash, without touching the trie.
RootHash(root) == IF root = Nil THEN Nil ELSE hash(root, 0, 0, FALSE, TRUE).enc

-----------------------------------------------------------------------------
(* tryGet, insert and delete; ok = FALSE is a MissingNodeError.           *)

Got(ok, value, node, resolved) == [ok |-> ok, value |-> value, node |-> node, resolved |-> resolved]

RECURSIVE tryGet(_, _, _, _)
tryGet(db, n, key, gen) ==
    CASE n.t = "nil" -> Got(TRUE, None, Nil, FALSE)
      [] n.t = "value" -> Got(TRUE, n.v, n, FALSE)
      [] n.t = "short" ->
            IF ~IsPrefix(n.key, key) THEN Got(TRUE, None, n, FALSE)
            ELSE LET r == tryGet(db, n.val, Rest(key, Len(n.key)), gen)
                 IN IF r.ok /\ r.resolved
                    THEN [r EXCEPT !.node = [n EXCEPT !.val = r.node, !.flags.gen = gen]]
                    ELSE [r EXCEPT !.node = n]
      [] n.t = "full" ->
            LET r == tryGet(db, n.ch[key[1]], Tail(key), gen)
            IN IF r.ok /\ r.resolved
               THEN [r EXCEPT !.node = [n EXCEPT !.ch[key[1]] = r.node, !.flags.gen = gen]]
               ELSE [r EXCEPT !.node = n]
      [] OTHER ->
            IF resolveHash(db, n, gen) = Nil THEN Got(FALSE, None, n, TRUE)
            ELSE [tryGet(db, resolveHash(db, n, gen), key, gen) EXCEPT !.resolved = TRUE]

Did(ok, dirty, node) == [ok |-> ok, dirty |-> dirty, node |-> node]

RECURSIVE insert(_, _, _, _, _)
insert(db, n, key, value, gen) ==
    CASE key = << >> -> Did(TRUE, n # value, value)
      [] key # << >> /\ n.t = "short" ->
            LET m == prefixLen(key, n.key)
                r == insert(db, n.val, Rest(key, m), value, gen)
                branch == fullNode([NoChildren EXCEPT
                            ![n.key[m + 1]] = insert(db, Nil, Rest(n.key, m + 1), n.val, gen).node,
                            ![key[m + 1]] = insert(db, Nil, Rest(key, m + 1), value, gen).node], newFlag(gen))
            IN IF m = Len(n.key)
               THEN IF r.ok /\ r.dirty THEN Did(TRUE, TRUE, shortNode(n.key, r.node, newFlag(gen)))
                    ELSE Did(r.ok, FALSE, n)
               ELSE Did(TRUE, TRUE, IF m = 0 THEN branch
                                    ELSE shortNode(SubSeq(key, 1, m), branch, newFlag(gen)))
      [] key # << >> /\ n.t = "full" ->
            LET r == insert(db, n.ch[key[1]], Tail(key), value, gen)
            IN IF r.ok /\ r.dirty THEN Did(TRUE, TRUE, fullNode([n.ch EXCEPT ![key[1]] = r.node], newFlag(gen)))
               ELSE Did(r.ok, FALSE, n)
      [] key # << >> /\ n.t = "nil" -> Did(TRUE, TRUE, shortNode(key, value, newFlag(gen)))
      [] OTHER ->
            IF resolveHash(db, n, gen) = Nil THEN Did(FALSE, FALSE, Nil)
            ELSE LET rn == resolveHash(db, n, gen)
                     r == insert(db, rn, key, value, gen)
                 IN IF r.ok /\ r.dirty THEN r ELSE Did(r.ok, FALSE, rn)

\* Mutant: short nodes are not joined.
JoinedNot(key, child, gen) == shortNode(key, child, newFlag(gen))

\* A branch left with one child becomes a short node, joined with a short child.
Joined(key, child, gen) ==
    IF child.t = "short" THEN shortNode(key \o child.key, child.val, newFlag(gen))
    ELSE shortNode(key, child, newFlag(gen))

Left(ch) == {i \in Index : ch[i] # Nil}

Reduced(db, ch, gen) ==
    IF \E p \in Index : Left(ch) = {p}
    THEN LET p == CHOOSE p \in Index : Left(ch) = {p}
             c == resolve(db, ch[p], gen)
         IN IF p # Term /\ c = Nil THEN Did(FALSE, FALSE, Nil)
            ELSE Did(TRUE, TRUE, IF p # Term /\ c.t = "short" THEN Joined(<<p>>, c, gen)
                                 ELSE shortNode(<<p>>, ch[p], newFlag(gen)))
    ELSE Did(TRUE, TRUE, fullNode(ch, newFlag(gen)))

RECURSIVE delete(_, _, _, _)
delete(db, n, key, gen) ==
    CASE n.t = "short" ->
            LET m == prefixLen(key, n.key)
                r == delete(db, n.val, Rest(key, m), gen)
            IN IF m < Len(n.key) THEN Did(TRUE, FALSE, n)
               ELSE IF m = Len(key) THEN Did(TRUE, TRUE, Nil)
               ELSE IF r.ok /\ r.dirty THEN Did(TRUE, TRUE, Joined(n.key, r.node, gen))
               ELSE Did(r.ok, FALSE, n)
      [] n.t = "full" ->
            LET r == delete(db, n.ch[key[1]], Tail(key), gen)
            IN IF r.ok /\ r.dirty THEN Reduced(db, [n.ch EXCEPT ![key[1]] = r.node], gen)
               ELSE Did(r.ok, FALSE, n)
      [] n.t = "value" -> Did(TRUE, TRUE, Nil)
      [] n.t = "nil" -> Did(TRUE, FALSE, Nil)
      [] OTHER ->
            IF resolveHash(db, n, gen) = Nil THEN Did(FALSE, FALSE, Nil)
            ELSE LET rn == resolveHash(db, n, gen)
                     r == delete(db, rn, key, gen)
                 IN IF r.ok /\ r.dirty THEN r ELSE Did(r.ok, FALSE, rn)

-----------------------------------------------------------------------------
(* Proofs: the encodings of the nodes on the path of a key.               *)

RECURSIVE OnPath(_, _, _)
OnPath(db, n, key) ==
    IF key = << >> \/ n = Nil THEN << >>
    ELSE CASE n.t = "short" -> <<n>> \o (IF IsPrefix(n.key, key)
                                         THEN OnPath(db, n.val, Rest(key, Len(n.key))) ELSE << >>)
           [] n.t = "full" -> <<n>> \o OnPath(db, n.ch[key[1]], Tail(key))
           [] OTHER -> OnPath(db, resolveHash(db, n, 0), key)

\* The encoding of n, whether it is stored under its hash or not.
Enc(n) == hash(n, 0, 0, FALSE, TRUE).enc.h

\* Embedded nodes are part of their parent's encoding; the root never is one.
ProofOf(nodes) == {Enc(nodes[i]) : i \in {j \in 1..Len(nodes) : j = 1 \/ Size(Enc(nodes[j])) >= 32}}
Prove(db, root, key) == ProofOf(OnPath(db, root, keybytesToHex(key)))

\* get in proof.go: [key, node] where it stops.
RECURSIVE get(_, _)
get(n, key) ==
    CASE n.t = "short" -> IF IsPrefix(n.key, key) THEN get(n.val, Rest(key, Len(n.key)))
                          ELSE [key |-> << >>, node |-> Nil]
      [] n.t = "full" -> get(n.ch[key[1]], Tail(key))
      [] OTHER -> [key |-> key, node |-> n]

\* The value proved, None for a proved absence, "bad" for a missing node.
RECURSIVE Verified(_, _, _)
Verified(proof, want, key) ==
    IF want \notin proof THEN "bad"
    ELSE LET r == get(decodeNode(want, want, 0), key)
         IN CASE r.node.t = "nil" -> None
              [] r.node.t = "value" -> r.node.v
              [] OTHER -> Verified(proof, r.node.h, r.key)

VerifyProof(rootHash, key, proof) == Verified(proof, rootHash.h, keybytesToHex(key))

=============================================================================
