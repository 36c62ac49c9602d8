----------------------------- MODULE MCBlockChain -----------------------------
(***************************************************************************)
(* Small trees of blocks for the model checker.                            *)
(*                                                                         *)
(*     g --- a1 --- a2 --- a3 --- a4                                       *)
(*      \      \-- m2                                                      *)
(*       \-- b1 --- b2 --- b3                                              *)
(*                                                                         *)
(* a1 and b1 weigh the same, b2 outweighs a2 and a3 (not a4), m2 is the    *)
(* miner's block next to a2.                                               *)
(***************************************************************************)
EXTENDS BlockChain

CONSTANTS g, a1, a2, a3, a4, b1, b2, b3, m2, x1, x2, x3,
    Heavy,      \* the difficulty of b2
    Scenarios   \* which of the scenarios are checked

VARIABLE scenario   \* fixes what may happen besides imports

MCParent ==
    [b \in Block \ {g} |->
        CASE b \in {a1, b1} -> g
          [] b \in {a2, m2} -> a1
          [] b = a3 -> a2
          [] b = a4 -> a3
          [] b = b2 -> b1
          [] b = b3 -> b2]

MCDifficulty == [b \in Block |-> CASE b = b2 -> Heavy [] b = g -> 1 [] OTHER -> 2]

\* x1 is in both branches, x2 and x3 in one each.
MCTxs == [b \in Block |-> CASE b = a1 -> {x1} [] b = b2 -> {x1}
                            [] b = a2 -> {x2} [] b = m2 -> {x2}
                            [] b = b1 -> {x3} [] OTHER -> {}]

NoDelay == [b \in Block |-> 0]


\* Every contiguous slice of at most three blocks.
MCSegments ==
    {<<b>> : b \in Block \ {g}}
    \cup {s \in [1..2 -> Block \ {g}] : MCParent[s[2]] = s[1]}
    \cup {s \in [1..3 -> Block \ {g}] : MCParent[s[2]] = s[1] /\ MCParent[s[3]] = s[2]}

-----------------------------------------------------------------------------
\* The bounds a scenario starts with used up: no rewinds and crashes when blocks are imported,
\* a shutdown and a crash between two writes, and rewinds with crashes between operations.
Started == [rewinds |-> MaxRewinds, stops |-> MaxStops, crashes |-> MaxCrashes, cuts |-> MaxCuts]

MCInit ==
    /\ scenario \in Scenarios
    /\ Start(CASE scenario = "import"   -> [Started EXCEPT !.stops = 0]
               [] scenario = "recovery" -> [Started EXCEPT !.stops = 0, !.cuts = 0]
               [] scenario = "rewind"   -> [Started EXCEPT !.rewinds = 0, !.crashes = 0]
               [] scenario = "torn"     -> [Started EXCEPT !.rewinds = 0, !.cuts = 0])

\* The blocks that take part.
Allowed == CASE scenario = "import"   -> Block
             [] scenario = "recovery" -> {g, a1, a2, a3, b1, b2}
             [] scenario = "rewind"   -> {g, a1, a2, b1, b2, m2}
             [] scenario = "torn"     -> {g, a1, a2, b1, b2}

MCNext ==
    /\ Next
    /\ UNCHANGED scenario
    /\ {mem'.imp.chain[i] : i \in DOMAIN mem'.imp.chain} \subseteq Allowed
    /\ mem'.tasks \subseteq Allowed

MCSpec == MCInit /\ [][MCNext]_<<vars, scenario>>

-----------------------------------------------------------------------------
(* The properties that a crash between two writes, or a rewind, may break. *)

\* The current block is stored and, unless the process died between two writes, the number index
\* leads from it to genesis, also when SetHead runs between the steps of an import.  A node that
\* only imports has one head, in memory and in the database, and the lookup entries are those of
\* the transactions of the canonical chain (insert, reorg, SetHead).
ChainExact ==
    /\ TypeOK
    /\ HeadStored
    /\ scenario # "recovery" => CanonicalLinked
    /\ scenario = "import" => HeadsAgree /\ LookupsExact

\* A node that only imports is on the heaviest block it has executed (WriteBlockWithState).
HeaviestWins == scenario = "import" => HeaviestIsHead

=============================================================================
