---------------------------- MODULE Interpreter -----------------------------
(***************************************************************************)
(* One frame of the interpreter: the instructions the jump table points to,*)
(* the stack, the memory with its price, the program counter    *)
(* and the bitmap of the data in the code.                                 *)
(*                                                                         *)
(* Of the stack only the height is kept; the arguments an instruction      *)
(* finds there are any of Arg.  What calls do is in EVM.                   *)
(***************************************************************************)
EXTENDS InstructionSet, Sequences, FiniteSets

CONSTANTS
    Codes,          \* programs: sequences of instruction names
    Heights,        \* of the stack at the start
    Arg,            \* values on the stack
    JumpTable,      \* the instruction set of the rules in force
    StackLimit,
    W, MaxWords, QuadCoeffDiv,  \* the width of gas, the largest memory, and the divisor of its price
    MaxGas

VARIABLES
    code, bits, scan,   \* the program, positions set by codeBitmap, and how far it is
    pc, height, mem, lastGasCost,
    paid,               \* what was paid for memory
    done,               \* the frame has returned: an error, or what ended it
    last                \* the instruction just executed and its arguments

vars == <<code, bits, scan, pc, height, mem, lastGasCost, paid, done, last>>

MemoryGas == 3
Max(a, b) == IF a > b THEN a ELSE b

-----------------------------------------------------------------------------
(***************************************************************************)
(* instructions.go: how deep an instruction reaches, by how much the stack *)
(* grows, and the memory it reads or writes.                               *)
(***************************************************************************)

Does(need, grow) == [need |-> need, grow |-> grow, mem |-> {}]

\* opSignExtend leaves the number alone when there is nothing to extend.
Computes(op, args) ==
    CASE op \in {"ADD", "SUB", "MUL", "DIV", "SDIV", "MOD", "SMOD", "EXP", "LT", "GT", "SLT", "SGT", "EQ",
                 "AND", "OR", "XOR", "BYTE", "SHL", "SHR", "SAR"} -> Does(2, -1)
      [] op = "SIGNEXTEND" -> Does(IF args[1] < 31 THEN 2 ELSE 1, -1)
      [] op \in {"ADDMOD", "MULMOD"} -> Does(3, -2)
      [] op \in {"NOT", "ISZERO", "BALANCE", "EXTCODESIZE", "EXTCODEHASH", "CALLDATALOAD", "BLOCKHASH", "SLOAD"} ->
            Does(1, 0)
      [] op \in {"ADDRESS", "ORIGIN", "CALLER", "CALLVALUE", "CALLDATASIZE", "RETURNDATASIZE", "CODESIZE",
                 "GASPRICE", "COINBASE", "TIMESTAMP", "NUMBER", "DIFFICULTY", "GASLIMIT", "PC", "MSIZE", "GAS"} ->
            Does(0, 1)

\* The stack and control instructions, and those that change the state.
Moves(op) ==
    CASE op \in {"STOP", "JUMPDEST"} -> Does(0, 0)
      [] op \in {"POP", "JUMP", "SELFDESTRUCT"} -> Does(1, -1)
      [] op \in {"SSTORE", "JUMPI"} -> Does(2, -2)
      [] op \in DOMAIN PushSize -> Does(0, 1)
      [] op \in DOMAIN DupDepth -> Does(DupDepth[op], 1)
      [] op \in DOMAIN SwapDepth -> Does(SwapDepth[op] + 1, 0)

Touch(need, grow, ranges) == [need |-> need, grow |-> grow, mem |-> ranges]

\* The arguments are popped in order, so the i-th of them is at depth i.
UsesMemory(op) ==
    CASE op = "SHA3" -> Touch(2, -1, {<<At(0), At(1)>>})
      [] op = "MLOAD" -> Touch(1, 0, {<<At(0), Num(Word)>>})
      [] op = "MSTORE" -> Touch(2, -2, {<<At(0), Num(Word)>>})
      [] op = "MSTORE8" -> Touch(2, -2, {<<At(0), Num(1)>>})
      [] op \in {"CALLDATACOPY", "CODECOPY", "RETURNDATACOPY"} -> Touch(3, -3, {<<At(0), At(2)>>})
      [] op = "EXTCODECOPY" -> Touch(4, -4, {<<At(1), At(3)>>})
      [] op \in DOMAIN LogTopics -> Touch(LogTopics[op] + 2, -(LogTopics[op] + 2), {<<At(0), At(1)>>})
      [] op = "CREATE" -> Touch(3, -2, {<<At(1), At(2)>>})
      [] op = "CREATE2" -> Touch(4, -3, {<<At(1), At(2)>>})
      [] op \in {"CALL", "CALLCODE"} -> Touch(7, -6, {<<At(3), At(4)>>, <<At(5), At(6)>>})
      [] op \in {"DELEGATECALL", "STATICCALL"} -> Touch(6, -5, {<<At(2), At(3)>>, <<At(4), At(5)>>})
      [] op \in {"RETURN", "REVERT"} -> Touch(2, -2, {<<At(0), At(1)>>})

MemoryOps == {"SHA3", "MLOAD", "MSTORE", "MSTORE8", "CALLDATACOPY", "CODECOPY", "RETURNDATACOPY", "EXTCODECOPY",
              "CREATE", "CREATE2", "CALL", "CALLCODE", "DELEGATECALL", "STATICCALL", "RETURN", "REVERT"}
             \cup DOMAIN LogTopics

MoveOps == {"STOP", "JUMPDEST", "POP", "JUMP", "SELFDESTRUCT", "SSTORE", "JUMPI"}
           \cup DOMAIN PushSize \cup DOMAIN DupDepth \cup DOMAIN SwapDepth

Effect(op, args) ==
    IF op \in MemoryOps THEN UsesMemory(op) ELSE IF op \in MoveOps THEN Moves(op) ELSE Computes(op, args)

\* The instructions whose execute calls a setter of the state database, CALL apart.
Changes == {"SSTORE", "CREATE", "CREATE2", "SELFDESTRUCT"} \cup DOMAIN LogTopics

-----------------------------------------------------------------------------
(***************************************************************************)
(* Memory: its size in bytes, and its price.                               *)
(***************************************************************************)

Value(x, args) == IF "num" \in DOMAIN x THEN x.num ELSE args[x.at + 1]

\* calcMemSize: no memory for an empty range, wherever it starts.
calcMemSize(range, args) ==
    IF Value(range[2], args) = 0 THEN 0 ELSE Value(range[1], args) + Value(range[2], args)

memorySize(op, args) ==
    LET sizes == {calcMemSize(r, args) : r \in JumpTable[op].mem}
    IN  IF sizes = {} THEN 0 ELSE CHOOSE n \in sizes : \A m \in sizes : n >= m

toWordSize(size) == (size + Word - 1) \div Word

\* The price of a memory of so many words, as computed on W bits and as meant.
TotalFee(words) == (words * MemoryGas + ((words * words) % 2^W) \div QuadCoeffDiv) % 2^W
TrueFee(words) == words * MemoryGas + (words * words) \div QuadCoeffDiv

\* memoryGasCost for a size that fits in MaxWords words.
memoryGasCost(words) == IF words * Word > mem THEN (TotalFee(words) - lastGasCost) % 2^W ELSE 0

-----------------------------------------------------------------------------
(***************************************************************************)
(* codeBitmap, one instruction of the code at a time; positions from 0.    *)
(***************************************************************************)

Byte(p) == IF p < Len(code) THEN code[p + 1] ELSE "STOP"

\* set8 writes the byte of the position and the next.
Marked(p, n) == p..(p + n - 1)

LastByte(p, n) == LET full == n \div 8
                  IN  Max(IF full > 0 THEN (p + 8 * (full - 1)) \div 8 + 1 ELSE 0,
                          IF n % 8 > 0 THEN (p + n - 1) \div 8 ELSE 0)

\* Mutant: the last bytes of a long push are not marked.
ScanSevens ==
    /\ scan < Len(code)
    /\ IF Byte(scan) \in DOMAIN PushSize
       THEN /\ bits' = bits \cup Marked(scan + 1, (PushSize[Byte(scan)] \div 8) * 8)
            /\ scan' = scan + 1 + PushSize[Byte(scan)]
       ELSE bits' = bits /\ scan' = scan + 1
    /\ UNCHANGED <<code, pc, height, mem, lastGasCost, paid, done, last>>

Scan ==
    /\ scan < Len(code)
    /\ IF Byte(scan) \in DOMAIN PushSize
       THEN /\ bits' = bits \cup Marked(scan + 1, PushSize[Byte(scan)])
            /\ scan' = scan + 1 + PushSize[Byte(scan)]
       ELSE bits' = bits /\ scan' = scan + 1
    /\ UNCHANGED <<code, pc, height, mem, lastGasCost, paid, done, last>>

validJumpdest(p) == p < Len(code) /\ code[p + 1] = "JUMPDEST" /\ p \notin bits

-----------------------------------------------------------------------------
(***************************************************************************)
(* Run: the checks of one turn of the loop in order, then the instruction. *)
(***************************************************************************)

Init ==
    /\ code \in Codes /\ bits = {} /\ scan = 0 /\ pc = 0
    /\ height \in Heights /\ mem = 0 /\ lastGasCost = 0 /\ paid = 0
    /\ done = "" /\ last = << >>

End(why) == done' = why /\ UNCHANGED <<code, bits, scan, pc, height, mem, lastGasCost, paid, last>>

\* Where the program counter goes: jumps set it, a push skips its data.
NextPc(op, args) ==
    IF op = "JUMP" \/ (op = "JUMPI" /\ args[2] # 0) THEN args[1]
    ELSE pc + 1 + IF op \in DOMAIN PushSize THEN PushSize[op] ELSE 0

BadJump(op, args) == (op = "JUMP" \/ (op = "JUMPI" /\ args[2] # 0)) /\ ~validJumpdest(args[1])

Step(args) ==
    LET op == Byte(pc)
        decl == JumpTable[op]
        words == toWordSize(memorySize(op, args))
        fee == memoryGasCost(words)
    IN  /\ scan >= Len(code) /\ done = ""
        /\ IF op \notin DOMAIN JumpTable THEN End("invalid opcode")
           ELSE IF height < decl.pop THEN End("stack underflow")
           ELSE IF height + decl.push - decl.pop > StackLimit THEN End("stack limit")
           ELSE IF words > MaxWords \/ paid + fee > MaxGas THEN End("out of gas")
           ELSE IF BadJump(op, args) THEN End("invalid jump")
           ELSE /\ last' = <<op, args, height>>
                /\ mem' = Max(mem, words * Word)
                /\ lastGasCost' = IF words * Word > mem THEN TotalFee(words) ELSE lastGasCost
                /\ paid' = paid + fee
                /\ height' = height + Effect(op, args).grow
                /\ done' = IF {"halts", "reverts"} \cap decl.flags # {} THEN "end" ELSE ""
                /\ pc' = NextPc(op, args)
                /\ UNCHANGED <<code, bits, scan>>

Next == Scan \/ \E args \in Arg : Step(args)

Spec == Init /\ [][Next]_vars

-----------------------------------------------------------------------------
TypeOK ==
    /\ height \in Int /\ pc \in Nat /\ mem \in Nat /\ scan \in Nat
    /\ mem % Word = 0 /\ bits \subseteq 0..(Len(code) + 32)

(* No instruction reaches below the stack or grows it past its limit: the jump table declares what
   the instruction does. *)
StackSafe ==
    /\ height \in 0..StackLimit
    /\ last # << >> => /\ Effect(last[1], last[2]).need <= last[3]
                       /\ Effect(last[1], last[2]).grow = JumpTable[last[1]].push - JumpTable[last[1]].pop

(* Every byte of memory an instruction reads or writes was charged for and allocated before. *)
MemorySafe ==
    last # << >> => \A r \in Effect(last[1], last[2]).mem : calcMemSize(r, last[2]) <= mem

(* What was paid for the memory is the price of its size, in whatever steps it grew. *)
MemoryPaid == paid = TrueFee(mem \div Word)

(* Every instruction that changes the state is declared to. *)
WritesDeclared ==
    last # << >> /\ last[1] \in Changes => "writes" \in JumpTable[last[1]].flags

\* The first bytes of the instructions of the code: 0, and each one after the data of the one before.
Starts ==
    LET start[p \in 0..Len(code)] ==
            p = 0 \/ \E q \in 0..(p - 1) : start[q] /\ p = q + 1 + IF code[q + 1] \in DOMAIN PushSize
                                                                   THEN PushSize[code[q + 1]] ELSE 0
    IN  {p \in 0..(Len(code) - 1) : start[p]}

(* The program counter is always on an instruction or past the end, never in the data of a push. *)
PcSound == pc >= Len(code) \/ pc \in Starts

(* codeBitmap writes within the vector it allocated, also for a push cut off by the end of the code. *)
BitmapFits ==
    \A p \in Starts : code[p + 1] \in DOMAIN PushSize =>
        LastByte(p + 1, PushSize[code[p + 1]]) < Len(code) \div 8 + 1 + 4

=============================================================================
