------------------------------ MODULE MCFetcher ------------------------------
(***************************************************************************)
(* Small trees of blocks for the fetcher: g - b1 - b2 - b3, and c1 beside  *)
(* b1 with the same transactions.  b2 is empty.                            *)
(***************************************************************************)
EXTENDS Fetcher

CONSTANTS g, b1, b2, b3, c1, p, q,
    Future,     \* blocks from the future
    BadHeader, BadBlock

MCParent == [b \in Block \ {g} |-> CASE b = b2 -> b1 [] b = b3 -> b2 [] OTHER -> g]

MCNumber == [b \in Block |-> CASE b = g -> 0 [] b = b2 -> 2 [] b = b3 -> 3 [] OTHER -> 1]

MCBody == [b \in Block |-> CASE b \in {g, b2} -> "empty" [] b = b3 -> "other" [] OTHER -> "same"]

MCVerdict == [b \in Block |-> CASE b \in Future    -> "future"
                                [] b \in BadHeader -> "badHeader"
                                [] b \in BadBlock  -> "badBlock"
                                [] OTHER           -> "ok"]

=============================================================================
