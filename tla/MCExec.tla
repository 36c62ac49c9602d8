-------------------------------- MODULE MCExec --------------------------------
(*****************************************************************************)
(* Executing transactions and storing the state, one part at a time; a       *)
(* scenario fixes the part, the variables of the others stay Absent.         *)
(*                                                                           *)
(* journal, storage, touch, destroy, counters: StateDB under five selections *)
(*     of operations, before and after EIP 158                               *)
(* machine, calls, refunds: transactions on the virtual machine              *)
(* ops, jumps, pushes, memory: one frame of the interpreter                  *)
(* keys, cache, embedded: the trie; iterate, compare, merge: its iterators   *)
(* sharing, crash, commits: the database of trie nodes                       *)
(*****************************************************************************)
EXTENDS InstructionSet, Integers, Sequences, TLC

CONSTANTS NoValue, Absent

VARIABLES
    scenario,
    s, saved,
    w, frames, readOnly, gp, usedGas, tx, txs,
    code, bits, scan, pc, height, mem, lastGasCost, paid, done, last,
    root, cachegen, db, lost, content, tSaved, rounds,
    mode, a, b, contentA, contentB, start, less, eof, heap, emitted, rDone,
    d, disk, preimages, diskPreimages, triegc, call, reader, blocks, calls, crashes

stateVars == <<s, saved>>
evmVars == <<w, frames, readOnly, gp, usedGas, tx, txs>>
interpVars == <<code, bits, scan, pc, height, mem, lastGasCost, paid, done, last>>
trieVars == <<root, cachegen, db, lost, content, tSaved, rounds>>
iterVars == <<mode, a, b, contentA, contentB, start, less, eof, heap, emitted, rDone>>
nodesVars == <<d, disk, preimages, diskPreimages, triegc, call, reader, blocks, calls, crashes>>

vars == <<scenario,
          s, saved,
          w, frames, readOnly, gp, usedGas, tx, txs,
          code, bits, scan, pc, height, mem, lastGasCost, paid, done, last,
          root, cachegen, db, lost, content, tSaved, rounds,
          mode, a, b, contentA, contentB, start, less, eof, heap, emitted, rDone,
          d, disk, preimages, diskPreimages, triegc, call, reader, blocks, calls, crashes>>

Params == [StackLimit |-> 17, W |-> 16, MaxWords |-> 511, QuadCoeffDiv |-> 4, MaxGas |-> 767]

\* Stack contents: all alike, or a large number in two places.
Same(v) == [i \in 1..7 |-> v]
Pair(i, j) == [k \in 1..7 |-> IF k \in {i, j} THEN 3 ELSE 0]
OpArgs == {Same(0), Same(3), Pair(1, 2), Pair(1, 3), Pair(2, 3), Pair(2, 4), Pair(3, 4), Pair(4, 5), Pair(5, 6), Pair(6, 7)}
OpCodes == {<<op>> : op \in {"STOP", "ADD", "MUL", "SUB", "DIV", "SDIV", "MOD", "SMOD", "EXP", "SIGNEXTEND", "LT", "GT",
    "SLT", "SGT", "EQ", "AND", "XOR", "OR", "BYTE", "ADDMOD", "MULMOD", "ISZERO", "NOT", "SHA3", "ADDRESS", "ORIGIN",
    "CALLER", "CALLVALUE", "CALLDATASIZE", "CODESIZE", "GASPRICE", "COINBASE", "TIMESTAMP", "NUMBER", "DIFFICULTY",
    "GASLIMIT", "BALANCE", "CALLDATALOAD", "EXTCODESIZE", "BLOCKHASH", "CALLDATACOPY", "CODECOPY", "EXTCODECOPY", "POP",
    "MLOAD", "MSTORE", "MSTORE8", "SLOAD", "SSTORE", "JUMP", "JUMPI", "PC", "MSIZE", "GAS", "JUMPDEST", "PUSH1", "PUSH32",
    "DUP1", "DUP2", "DUP16", "SWAP1", "SWAP2", "SWAP16", "LOG0", "LOG1", "LOG4", "CREATE", "CALL", "CALLCODE", "RETURN",
    "SELFDESTRUCT", "DELEGATECALL", "STATICCALL", "RETURNDATASIZE", "RETURNDATACOPY", "REVERT", "SHL", "SHR", "SAR",
    "EXTCODEHASH", "CREATE2", "INVALID"}}
JumpOps == {"JUMPDEST", "JUMP", "JUMPI", "PUSH1", "PUSH8", "PUSH32", "ADD"}
JumpCodes == UNION {[1..n -> JumpOps] : n \in 1..3}
JumpArgs == {<<0, 1>>, <<1, 1>>, <<2, 1>>, <<3, 0>>, <<3, 1>>}
PushCodes == {[i \in 1..n |-> IF i = n THEN p ELSE "ADD"] :
                n \in 1..9, p \in {"PUSH1", "PUSH7", "PUSH8", "PUSH9", "PUSH16", "PUSH31", "PUSH32"}}
MemArgs == {0, 1, 2, 100, 250, 254, 255, 256, 300, 510, 511, 512, 513, 1022}

\* Two states that share nodes; y has a child twice, c an account with the code e.
NodeOrder == <<"d", "e", "c", "y", "r1", "r2">>
NodeChildren == [d |-> << >>, e |-> << >>, c |-> <<"d">>, y |-> <<"d", "d">>, r1 |-> <<"c", "y">>, r2 |-> <<"y">>]
NodeExternal == [h \in {"d", "e", "c", "y", "r1", "r2"} |-> IF h = "c" THEN {"e"} ELSE {}]

Journal == INSTANCE StateDB WITH
    Address <- {"a"}, Key <- {"k"}, Ripemd <- "r", EIP158 <- FALSE, MaxJournal <- 3, MaxDirties <- 5,
    MaxRevisions <- 1, MaxBalance <- 1,
    Ops <- {"call", "create", "deploy", "nonce", "store", "read", "destruct"}

Storage == INSTANCE StateDB WITH
    Address <- {"a"}, Key <- {"k"}, Ripemd <- "r", EIP158 <- TRUE, MaxJournal <- 3, MaxDirties <- 5,
    MaxRevisions <- 2, MaxBalance <- 1, Ops <- {"call", "create", "deploy", "store", "destruct"}

Touch == INSTANCE StateDB WITH
    Address <- {"a", "r"}, Key <- {}, Ripemd <- "r", EIP158 <- TRUE, MaxJournal <- 3, MaxDirties <- 4,
    MaxRevisions <- 1, MaxBalance <- 1, Ops <- {"call", "create"}

Destroy == INSTANCE StateDB WITH
    Address <- {"a", "r"}, Key <- {}, Ripemd <- "r", EIP158 <- TRUE, MaxJournal <- 3, MaxDirties <- 4,
    MaxRevisions <- 1, MaxBalance <- 2, Ops <- {"call", "destruct"}

Counters == INSTANCE StateDB WITH
    Address <- {"a"}, Key <- {"k"}, Ripemd <- "r", EIP158 <- FALSE, MaxJournal <- 4, MaxDirties <- 5,
    MaxRevisions <- 2, MaxBalance <- 1, Ops <- {"call", "extra"}

Machine == INSTANCE EVM WITH
    Sender <- "s", Contract <- {"c"}, New <- {"n"}, Coinbase <- "m", Precompiled <- {"p"}, Net <- TRUE,
    CallDiv <- 4, W <- 5, CallCreateDepth <- 1, GasLimit <- 16, MaxTxs <- 1, MaxFunds <- 10, TxGases <- {8},
    Codes <- {"step", "sstore", "log", "selfdestruct", "return", "revert", "invalid", "call", "callcode", "delegate", "static", "create"}

Nested == INSTANCE EVM WITH
    Sender <- "s", Contract <- {"c", "d"}, New <- {}, Coinbase <- "m", Precompiled <- {}, Net <- TRUE,
    CallDiv <- 4, W <- 5, CallCreateDepth <- 1, GasLimit <- 16, MaxTxs <- 2, MaxFunds <- 10, TxGases <- {8},
    Codes <- {"sstore", "return", "revert", "call"}

Refunds == INSTANCE EVM WITH
    Sender <- "s", Contract <- {"c"}, New <- {}, Coinbase <- "m", Precompiled <- {}, Net <- FALSE,
    CallDiv <- 4, W <- 5, CallCreateDepth <- 1, GasLimit <- 16, MaxTxs <- 1, MaxFunds <- 10, TxGases <- {8},
    Codes <- {"sstore", "selfdestruct", "return", "call"}

EachOp == INSTANCE Interpreter WITH
    Codes <- OpCodes, Heights <- 0..7 \cup {16, 17}, Arg <- OpArgs,
    JumpTable <- newConstantinopleInstructionSet, StackLimit <- Params.StackLimit, W <- Params.W,
    MaxWords <- Params.MaxWords, QuadCoeffDiv <- Params.QuadCoeffDiv, MaxGas <- Params.MaxGas

Jumps == INSTANCE Interpreter WITH
    Codes <- JumpCodes, Heights <- {2}, Arg <- JumpArgs, JumpTable <- newConstantinopleInstructionSet,
    StackLimit <- Params.StackLimit, W <- Params.W, MaxWords <- Params.MaxWords,
    QuadCoeffDiv <- Params.QuadCoeffDiv, MaxGas <- Params.MaxGas

PushOps == INSTANCE Interpreter WITH
    Codes <- PushCodes, Heights <- {12}, Arg <- {<<0, 0>>}, JumpTable <- newConstantinopleInstructionSet,
    StackLimit <- Params.StackLimit, W <- Params.W, MaxWords <- Params.MaxWords,
    QuadCoeffDiv <- Params.QuadCoeffDiv, MaxGas <- Params.MaxGas

Memory == INSTANCE Interpreter WITH
    Codes <- {<<"MLOAD", "MSTORE8", "SHA3", "JUMPDEST">>}, Heights <- {8}, Arg <- MemArgs \X {1, 2},
    JumpTable <- newConstantinopleInstructionSet, StackLimit <- Params.StackLimit, W <- Params.W,
    MaxWords <- Params.MaxWords, QuadCoeffDiv <- Params.QuadCoeffDiv, MaxGas <- Params.MaxGas

Keys == INSTANCE Trie WITH
    Top <- 1, Large <- {"L"}, CacheGens <- 3, cachelimit <- 1, MaxLost <- 0,
    Key <- {<<0>>, <<1>>, <<16>>, <<0, 1>>, <<0, 16>>}, Value <- {"s", "L"}, MaxRounds <- 0, saved <- tSaved

Cache == INSTANCE Trie WITH
    Top <- 1, Large <- {"L"}, CacheGens <- 3, cachelimit <- 1, MaxLost <- 1, Key <- {<<0>>, <<1>>, <<16>>},
    Value <- {"L"}, MaxRounds <- 2, saved <- tSaved

Embedded == INSTANCE Trie WITH
    Top <- 1, Large <- {"L"}, CacheGens <- 3, cachelimit <- 1, MaxLost <- 0, Key <- {<<0>>, <<1>>, <<16>>},
    Value <- {"s", "L"}, MaxRounds <- 1, saved <- tSaved

Iterate == INSTANCE TrieIterator WITH
    Top <- 1, Large <- {"L"}, CacheGens <- 3, Key <- {<<0>>, <<1>>, <<16>>, <<0, 1>>}, Value <- {"s", "L"},
    Modes <- {"node"}, done <- rDone

Compare == INSTANCE TrieIterator WITH
    Top <- 1, Large <- {"L"}, CacheGens <- 3, Key <- {<<0>>, <<1>>}, Value <- {"s", "L"},
    Modes <- {"difference", "union"}, done <- rDone

Merge == INSTANCE TrieIterator WITH
    Top <- 1, Large <- {"L"}, CacheGens <- 3, Key <- {<<0>>, <<1>>, <<16>>}, Value <- {"L"},
    Modes <- {"difference", "union"}, done <- rDone

Sharing == INSTANCE TrieDatabase WITH
    Order <- NodeOrder, Children <- NodeChildren, External <- NodeExternal, Root <- {"r1", "r2"},
    Calls <- {"cap", "commit"}, MaxBlocks <- 3, MaxCalls <- 1, MaxCrashes <- 0

Crashing == INSTANCE TrieDatabase WITH
    Order <- NodeOrder, Children <- NodeChildren, External <- NodeExternal, Root <- {"r1", "r2"},
    Calls <- {"cap", "commit", "read"}, MaxBlocks <- 2, MaxCalls <- 1, MaxCrashes <- 1

Commits == INSTANCE TrieDatabase WITH
    Order <- NodeOrder, Children <- NodeChildren, External <- NodeExternal, Root <- {"r1", "r2"},
    Calls <- {"commit"}, MaxBlocks <- 3, MaxCalls <- 1, MaxCrashes <- 0

-----------------------------------------------------------------------------
StateOff == s = Absent /\ saved = Absent
EvmOff == w = Absent /\ frames = Absent /\ readOnly = Absent /\ gp = Absent /\ usedGas = Absent /\
          tx = Absent /\ txs = Absent
InterpOff == code = Absent /\ bits = Absent /\ scan = Absent /\ pc = Absent /\ height = Absent /\
             mem = Absent /\ lastGasCost = Absent /\ paid = Absent /\ done = Absent /\ last = Absent
TrieOff == root = Absent /\ cachegen = Absent /\ db = Absent /\ lost = Absent /\ content = Absent /\
           tSaved = Absent /\ rounds = Absent
IterOff == mode = Absent /\ a = Absent /\ b = Absent /\ contentA = Absent /\ contentB = Absent /\
           start = Absent /\ less = Absent /\ eof = Absent /\ heap = Absent /\ emitted = Absent /\
           rDone = Absent
NodesOff == d = Absent /\ disk = Absent /\ preimages = Absent /\ diskPreimages = Absent /\ triegc = Absent /\
            call = Absent /\ reader = Absent /\ blocks = Absent /\ calls = Absent /\ crashes = Absent

\* The variables of the other parts.
OthersOff(part) ==
    /\ part # "state" => StateOff
    /\ part # "evm" => EvmOff
    /\ part # "interp" => InterpOff
    /\ part # "trie" => TrieOff
    /\ part # "iter" => IterOff
    /\ part # "nodes" => NodesOff
OthersSame(part) ==
    /\ UNCHANGED scenario
    /\ part # "state" => UNCHANGED stateVars
    /\ part # "evm" => UNCHANGED evmVars
    /\ part # "interp" => UNCHANGED interpVars
    /\ part # "trie" => UNCHANGED trieVars
    /\ part # "iter" => UNCHANGED iterVars
    /\ part # "nodes" => UNCHANGED nodesVars

Init ==
    \/ scenario = "journal" /\ Journal!Init /\ OthersOff("state")
    \/ scenario = "storage" /\ Storage!Init /\ OthersOff("state")
    \/ scenario = "touch" /\ Touch!Init /\ OthersOff("state")
    \/ scenario = "destroy" /\ Destroy!Init /\ OthersOff("state")
    \/ scenario = "counters" /\ Counters!Init /\ OthersOff("state")
    \/ scenario = "machine" /\ Machine!Init /\ OthersOff("evm")
    \/ scenario = "calls" /\ Nested!Init /\ OthersOff("evm")
    \/ scenario = "refunds" /\ Refunds!Init /\ OthersOff("evm")
    \/ scenario = "ops" /\ EachOp!Init /\ OthersOff("interp")
    \/ scenario = "jumps" /\ Jumps!Init /\ OthersOff("interp")
    \/ scenario = "pushes" /\ PushOps!Init /\ OthersOff("interp")
    \/ scenario = "memory" /\ Memory!Init /\ OthersOff("interp")
    \/ scenario = "keys" /\ Keys!Init /\ OthersOff("trie")
    \/ scenario = "cache" /\ Cache!Init /\ OthersOff("trie")
    \/ scenario = "embedded" /\ Embedded!Init /\ OthersOff("trie")
    \/ scenario = "iterate" /\ Iterate!Init /\ OthersOff("iter")
    \/ scenario = "compare" /\ Compare!Init /\ OthersOff("iter")
    \/ scenario = "merge" /\ Merge!Init /\ OthersOff("iter")
    \/ scenario = "sharing" /\ Sharing!Init /\ OthersOff("nodes")
    \/ scenario = "crash" /\ Crashing!Init /\ OthersOff("nodes")
    \/ scenario = "commits" /\ Commits!Init /\ OthersOff("nodes")

Next ==
    \/ scenario = "journal" /\ Journal!Next /\ OthersSame("state")
    \/ scenario = "storage" /\ Storage!Next /\ OthersSame("state")
    \/ scenario = "touch" /\ Touch!Next /\ OthersSame("state")
    \/ scenario = "destroy" /\ Destroy!Next /\ OthersSame("state")
    \/ scenario = "counters" /\ Counters!Next /\ OthersSame("state")
    \/ scenario = "machine" /\ Machine!Next /\ OthersSame("evm")
    \/ scenario = "calls" /\ Nested!Next /\ OthersSame("evm")
    \/ scenario = "refunds" /\ Refunds!Next /\ OthersSame("evm")
    \/ scenario = "ops" /\ EachOp!Next /\ OthersSame("interp")
    \/ scenario = "jumps" /\ Jumps!Next /\ OthersSame("interp")
    \/ scenario = "pushes" /\ PushOps!Next /\ OthersSame("interp")
    \/ scenario = "memory" /\ Memory!Next /\ OthersSame("interp")
    \/ scenario = "keys" /\ Keys!Next /\ OthersSame("trie")
    \/ scenario = "cache" /\ Cache!Next /\ OthersSame("trie")
    \/ scenario = "embedded" /\ Embedded!Next /\ OthersSame("trie")
    \/ scenario = "iterate" /\ Iterate!Next /\ OthersSame("iter")
    \/ scenario = "compare" /\ Compare!Next /\ OthersSame("iter")
    \/ scenario = "merge" /\ Merge!Next /\ OthersSame("iter")
    \/ scenario = "sharing" /\ Sharing!Next /\ OthersSame("nodes")
    \/ scenario = "crash" /\ Crashing!Next /\ OthersSame("nodes")
    \/ scenario = "commits" /\ Commits!Next /\ OthersSame("nodes")

Spec == Init /\ [][Next]_vars

-----------------------------------------------------------------------------
(* RevertToSnapshot restores what every getter of StateDB returned, Finalise
   and Commit keep it but for destroyed and touched empty accounts, what
   Commit wrote can be read from the database alone, and a copy shows and
   commits the same accounts. *)
StateExact ==
    /\ scenario = "journal" => Journal!TypeOK /\ Journal!RevertExact /\ Journal!WritesBack /\
                               Journal!CommitWhole /\ Journal!CopyExact
    /\ scenario = "storage" => Storage!TypeOK /\ Storage!RevertExact /\ Storage!WritesBack /\
                               Storage!CommitWhole /\ Storage!CopyExact
    /\ scenario = "touch" => Touch!TypeOK /\ Touch!RevertExact /\ Touch!WritesBack /\ Touch!CommitWhole /\
                             Touch!CopyExact
    /\ scenario = "destroy" => Destroy!TypeOK /\ Destroy!RevertExact /\ Destroy!WritesBack /\
                               Destroy!CommitWhole /\ Destroy!CopyExact
    /\ scenario = "counters" => Counters!TypeOK /\ Counters!RevertExact /\ Counters!WritesBack /\
                                Counters!CommitWhole /\ Counters!CopyExact

(* Transactions conserve value whatever calls fail, revert or run dry; calls
   hold no more gas than was bought and a block stays in its limit; nothing
   changes below a static call; and the refund counter covers what SubRefund
   takes back. *)
EvmSound ==
    /\ scenario = "machine" => Machine!TypeOK /\ Machine!Conserved /\ Machine!GasBounded /\
                               Machine!StaticSound /\ Machine!RefundCovers
    /\ scenario = "calls" => Nested!TypeOK /\ Nested!Conserved /\ Nested!GasBounded /\ Nested!StaticSound /\
                             Nested!RefundCovers
    /\ scenario = "refunds" => Refunds!TypeOK /\ Refunds!Conserved /\ Refunds!GasBounded /\
                               Refunds!StaticSound /\ Refunds!RefundCovers

(* The jump table declares what the instructions do: none leaves the stack,
   touches memory that was not paid for, or changes the state undeclared; the
   program counter never stands in the data of a push; and codeBitmap stays
   in its vector. *)
InterpreterSafe ==
    /\ scenario = "ops" => EachOp!TypeOK /\ EachOp!StackSafe /\ EachOp!MemorySafe /\ EachOp!MemoryPaid /\
                           EachOp!WritesDeclared /\ EachOp!PcSound /\ EachOp!BitmapFits
    /\ scenario = "jumps" => Jumps!TypeOK /\ Jumps!StackSafe /\ Jumps!MemorySafe /\ Jumps!MemoryPaid /\
                             Jumps!WritesDeclared /\ Jumps!PcSound /\ Jumps!BitmapFits
    /\ scenario = "pushes" => PushOps!TypeOK /\ PushOps!StackSafe /\ PushOps!MemorySafe /\
                              PushOps!MemoryPaid /\ PushOps!WritesDeclared /\ PushOps!PcSound /\
                              PushOps!BitmapFits
    /\ scenario = "memory" => Memory!TypeOK /\ Memory!StackSafe /\ Memory!MemorySafe /\ Memory!MemoryPaid /\
                              Memory!WritesDeclared /\ Memory!PcSound /\ Memory!BitmapFits

(* A trie reads what was written, in memory, after Commit has unloaded nodes
   and after opening it again; it has one form for each content, its hashes
   are those of what it holds, its proofs verify; and the iterators return
   each leaf of the trie, the difference or the union once and in order. *)
TrieExact ==
    /\ scenario = "keys" => Keys!TypeOK /\ Keys!ReadsExact /\ Keys!Canonical /\ Keys!CacheSound /\
                            Keys!CommitWhole /\ Keys!ProofExact
    /\ scenario = "cache" => Cache!TypeOK /\ Cache!ReadsExact /\ Cache!Canonical /\ Cache!CacheSound /\
                             Cache!CommitWhole /\ Cache!ProofExact
    /\ scenario = "embedded" => Embedded!TypeOK /\ Embedded!ReadsExact /\ Embedded!Canonical /\
                                Embedded!CacheSound /\ Embedded!CommitWhole /\ Embedded!ProofExact
    /\ scenario = "iterate" => Iterate!TypeOK /\ Iterate!NodesExact
    /\ scenario = "compare" => Compare!TypeOK /\ Compare!DifferenceExact /\ Compare!UnionExact
    /\ scenario = "merge" => Merge!TypeOK /\ Merge!DifferenceExact /\ Merge!UnionExact

(* A referenced state can be read whole while Cap and Commit move its nodes
   to disk and other states are dereferenced, what is on disk is complete
   after a crash between any two batches, the flush list has every dirty node
   once, and without Cap none is left unreachable. *)
NodesKept ==
    /\ scenario = "sharing" => Sharing!TypeOK /\ Sharing!StatesWhole /\ Sharing!DiskClosed /\
                               Sharing!ListExact /\ Sharing!ReadsFind /\ Sharing!PreimagesKept
    /\ scenario = "crash" => Crashing!TypeOK /\ Crashing!StatesWhole /\ Crashing!DiskClosed /\
                             Crashing!ListExact /\ Crashing!ReadsFind /\ Crashing!PreimagesKept
    /\ scenario = "commits" => Commits!TypeOK /\ Commits!StatesWhole /\ Commits!DiskClosed /\
                               Commits!ListExact /\ Commits!ReadsFind /\ Commits!PreimagesKept /\
                               Commits!NoLeak
=============================================================================
