----------------------------- MODULE HeaderQuery -----------------------------
(***************************************************************************)
(* The answer to GetBlockHeadersMsg (can/handler.go): the headers from an  *)
(* origin, a hash or a number, with Skip headers left out between two, up  *)
(* or down the chain.  Numbers have W bits and wrap around.                *)
(*                                                                         *)
(* The chain is a tree of two branches that part above the block at Fork:  *)
(* block <<s, n>> has number n, and side s above the fork.  A              *)
(* reorganisation between two rounds of the loop makes the other side the  *)
(* canonical one.                                                          *)
(***************************************************************************)
EXTENDS Integers, Sequences

CONSTANTS
    W,                 \* 64 in the source
    Fork, Height,      \* where the branches part, and how high both are
    Amounts, Skips,    \* those asked for
    MaxHeaderFetch, MaxNonCanonical,
    MaxReorgs

VARIABLES
    side,      \* the canonical side
    query,     \* the origin, which moves, with the rest of the request
    headers,   \* the answer so far
    budget,    \* maxNonCanonical
    phase,     \* "first", "more" or "sent"
    reorgs

vars == <<side, query, headers, budget, phase, reorgs>>

NoBlock == <<"none", 0>>
Side(s, n) == IF n <= Fork THEN "trunk" ELSE s
At(s, n) == <<Side(s, n), n>>
Blocks == {At(s, n) : s \in {"a", "b"}, n \in 0..Height}
Wrap(n) == n % (2 ^ W)

\* GetCanonicalHash, GetHeaderByNumber.
Canonical(n) == IF n <= Height THEN At(side, n) ELSE NoBlock
Parent(b) == At(b[1], b[2] - 1)

\* The blocks below b, that of the given distance.
Below(b, k) == At(b[1], b[2] - k)

-----------------------------------------------------------------------------
\* GetAncestor: with the number, the block there, and what is left of the budget.
GetAncestor(b, anc, m) ==
    LET steps == {k \in 0..anc : Below(b, k) = Canonical(b[2] - k)}
        Off   == CHOOSE k \in steps : \A j \in steps : k <= j
    IN CASE anc > b[2] -> [block |-> NoBlock, left |-> m]
         [] anc = 1    -> [block |-> Parent(b), left |-> m]
         [] OTHER      ->
              IF steps # {} /\ Off <= m
              THEN [block |-> Canonical(b[2] - anc), left |-> m - Off]
              ELSE IF anc <= m THEN [block |-> Below(b, anc), left |-> m - anc]
              ELSE [block |-> NoBlock, left |-> 0]

Requests ==
    [hash : BOOLEAN, origin : Blocks, amount : Amounts, skip : Skips, reverse : BOOLEAN]

\* In number mode only the number of the origin counts; the block stands for it.
Init ==
    /\ side \in {"a", "b"}
    /\ query \in Requests
    /\ query.hash \/ query.origin[1] \in {"trunk", "a"}
    /\ headers = << >> /\ budget = MaxNonCanonical /\ phase = "first" /\ reorgs = 0

Found(q) == IF q.hash THEN q.origin ELSE Canonical(q.origin[2])

Full(q) == Len(headers) >= q.amount \/ Len(headers) >= MaxHeaderFetch

\* Where the loop goes on from, NoBlock when it does not.
StepDown(q, b) ==
    LET anc == Wrap(q.skip + 1)
    IN IF anc = 0 THEN [block |-> NoBlock, left |-> budget] ELSE GetAncestor(b, anc, budget)

Overflows(b, next) == next <= b[2]

\* Mutant: the next header is not compared with the last.
SameChainAny(old, b) == old # NoBlock
SameChain(old, b) == old = b

StepUp(q, b) ==
    LET next == Wrap(b[2] + q.skip + 1)
        up   == Canonical(next)
        old  == GetAncestor(up, Wrap(q.skip + 1), budget)
    IN IF Overflows(b, next) \/ up = NoBlock THEN [block |-> NoBlock, left |-> budget]
       ELSE [block |-> IF SameChain(old.block, b) THEN up ELSE NoBlock, left |-> old.left]

StepNumber(q, b) ==
    LET anc == Wrap(q.skip + 1)
        n   == IF q.reverse THEN b[2] - anc ELSE Wrap(b[2] + anc)
    IN [block |-> IF n < 0 THEN NoBlock ELSE <<"trunk", n>>, left |-> budget]

\* One round of the loop.
Round ==
    /\ phase # "sent" /\ ~Full(query)
    /\ LET b == Found(query)
           s == IF ~query.hash THEN StepNumber(query, b)
                ELSE IF query.reverse THEN StepDown(query, b) ELSE StepUp(query, b)
       IN IF b = NoBlock
          THEN phase' = "sent" /\ UNCHANGED <<query, headers, budget>>
          ELSE /\ headers' = Append(headers, b)
               /\ budget' = s.left
               /\ IF s.block = NoBlock
                  THEN phase' = "sent" /\ UNCHANGED query
                  ELSE phase' = "more" /\ query' = [query EXCEPT !.origin = s.block]
    /\ UNCHANGED <<side, reorgs>>

Sent ==
    /\ phase # "sent" /\ Full(query)
    /\ phase' = "sent"
    /\ UNCHANGED <<side, query, headers, budget, reorgs>>

Reorg ==
    /\ phase = "more" /\ reorgs < MaxReorgs
    /\ side' = IF side = "a" THEN "b" ELSE "a"
    /\ reorgs' = reorgs + 1
    /\ UNCHANGED <<query, headers, budget, phase>>

Next == Round \/ Sent \/ Reorg

Spec == Init /\ [][Next]_vars

-----------------------------------------------------------------------------
(* Properties. *)

\* The answer is no longer than asked for, and has headers of the chain only.
TypeOK ==
    /\ \A i \in 1..Len(headers) : headers[i] \in Blocks
    /\ Len(headers) <= MaxHeaderFetch /\ Len(headers) <= query.amount
    /\ budget \in 0..MaxNonCanonical

\* The headers of an answer to a hash are of one chain: each is Skip + 1 generations from
\* the next, whatever the skip wraps around to and whichever branch is canonical by then.
AnswerLinked ==
    query.hash => \A i \in 1..(Len(headers) - 1) :
        LET low  == headers[IF query.reverse THEN i + 1 ELSE i]
            high == headers[IF query.reverse THEN i ELSE i + 1]
        IN high[2] - low[2] = query.skip + 1 /\ low = Below(high, query.skip + 1)

=============================================================================
