--------------------------- MODULE InstructionSet ---------------------------
(***************************************************************************)
(* The jump tables of the interpreter: what an instruction is declared to  *)
(* pop and push, the memory it is charged for as <<offset, size>>, by      *)
(* depth in the stack or as a number, and its flags.                       *)
(***************************************************************************)
EXTENDS Integers, TLC

CONSTANT Word   \* the bytes of a word

Num(n) == [num |-> n]
At(i) == [at |-> i]

Op(pop, push) == [pop |-> pop, push |-> push, mem |-> {}, flags |-> {}]
Mem(op, ranges) == [op EXCEPT !.mem = ranges]
Flag(op, flags) == [op EXCEPT !.flags = flags]

All(names, op) == [n \in names |-> op]

Arithmetic ==
    ("STOP" :> Flag(Op(0, 0), {"halts"}))
    @@ All({"ADD", "MUL", "SUB", "DIV", "SDIV", "MOD", "SMOD", "EXP", "SIGNEXTEND", "LT", "GT", "SLT",
            "SGT", "EQ", "AND", "XOR", "OR", "BYTE"}, Op(2, 1))
    @@ All({"ADDMOD", "MULMOD"}, Op(3, 1))
    @@ All({"ISZERO", "NOT"}, Op(1, 1))
    @@ ("SHA3" :> Mem(Op(2, 1), {<<At(0), At(1)>>}))

Environment ==
    All({"ADDRESS", "ORIGIN", "CALLER", "CALLVALUE", "CALLDATASIZE", "CODESIZE", "GASPRICE", "COINBASE",
         "TIMESTAMP", "NUMBER", "DIFFICULTY", "GASLIMIT"}, Op(0, 1))
    @@ All({"BALANCE", "CALLDATALOAD", "EXTCODESIZE", "BLOCKHASH"}, Op(1, 1))
    @@ All({"CALLDATACOPY", "CODECOPY"}, Mem(Op(3, 0), {<<At(0), At(2)>>}))
    @@ ("EXTCODECOPY" :> Mem(Op(4, 0), {<<At(1), At(3)>>}))

MemoryAndFlow ==
    ("POP" :> Op(1, 0))
    @@ ("MLOAD" :> Mem(Op(1, 1), {<<At(0), Num(Word)>>}))
    @@ ("MSTORE" :> Mem(Op(2, 0), {<<At(0), Num(Word)>>}))
    @@ ("MSTORE8" :> Mem(Op(2, 0), {<<At(0), Num(1)>>}))
    @@ ("SLOAD" :> Op(1, 1))
    @@ ("SSTORE" :> Flag(Op(2, 0), {"writes"}))
    @@ ("JUMP" :> Flag(Op(1, 0), {"jumps"})) @@ ("JUMPI" :> Flag(Op(2, 0), {"jumps"}))
    @@ All({"PC", "MSIZE", "GAS"}, Op(0, 1))
    @@ ("JUMPDEST" :> Op(0, 0))

PushSize == [PUSH1 |-> 1, PUSH7 |-> 7, PUSH8 |-> 8, PUSH9 |-> 9, PUSH16 |-> 16, PUSH31 |-> 31, PUSH32 |-> 32]
DupDepth == [DUP1 |-> 1, DUP2 |-> 2, DUP3 |-> 3, DUP16 |-> 16]
SwapDepth == [SWAP1 |-> 1, SWAP2 |-> 2, SWAP3 |-> 3, SWAP16 |-> 16]
LogTopics == [LOG0 |-> 0, LOG1 |-> 1, LOG2 |-> 2, LOG3 |-> 3, LOG4 |-> 4]

Pushes == All(DOMAIN PushSize, Op(0, 1))
Dups == [n \in DOMAIN DupDepth |-> Op(DupDepth[n], DupDepth[n] + 1)]
Swaps == [n \in DOMAIN SwapDepth |-> Op(SwapDepth[n] + 1, SwapDepth[n] + 1)]
Logs == [n \in DOMAIN LogTopics |-> Flag(Mem(Op(LogTopics[n] + 2, 0), {<<At(0), At(1)>>}), {"writes"})]

System ==
    ("CREATE" :> Flag(Mem(Op(3, 1), {<<At(1), At(2)>>}), {"writes", "returns"}))
    @@ All({"CALL", "CALLCODE"}, Flag(Mem(Op(7, 1), {<<At(5), At(6)>>, <<At(3), At(4)>>}), {"returns"}))
    @@ ("RETURN" :> Flag(Mem(Op(2, 0), {<<At(0), At(1)>>}), {"halts"}))
    @@ ("SELFDESTRUCT" :> Flag(Op(1, 0), {"halts", "writes"}))

newFrontierInstructionSet ==
    Arithmetic @@ Environment @@ MemoryAndFlow @@ Pushes @@ Dups @@ Swaps @@ Logs @@ System

newHomesteadInstructionSet ==
    newFrontierInstructionSet
    @@ ("DELEGATECALL" :> Flag(Mem(Op(6, 1), {<<At(4), At(5)>>, <<At(2), At(3)>>}), {"returns"}))

newByzantiumInstructionSet ==
    newHomesteadInstructionSet
    @@ ("STATICCALL" :> Flag(Mem(Op(6, 1), {<<At(4), At(5)>>, <<At(2), At(3)>>}), {"returns"}))
    @@ ("RETURNDATASIZE" :> Op(0, 1))
    @@ ("RETURNDATACOPY" :> Mem(Op(3, 0), {<<At(0), At(2)>>}))
    @@ ("REVERT" :> Flag(Mem(Op(2, 0), {<<At(0), At(1)>>}), {"reverts", "returns"}))

newConstantinopleInstructionSet ==
    newByzantiumInstructionSet
    @@ All({"SHL", "SHR", "SAR"}, Op(2, 1))
    @@ ("EXTCODEHASH" :> Op(1, 1))
    @@ ("CREATE2" :> Flag(Mem(Op(4, 1), {<<At(1), At(2)>>}), {"writes", "returns"}))

=============================================================================
