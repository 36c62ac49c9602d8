-------------------------------- MODULE EVM ---------------------------------
(***************************************************************************)
(* Transactions of a block on the virtual machine: buying gas, nested      *)
(* calls and creations with their snapshots, gas and refunds.              *)
(*                                                                         *)
(* The rules are those of Byzantium, with Constantinople's metering of     *)
(* storage if Net.  Contract code is any sequence of the instructions      *)
(* below.  The state database is what StateDB promises: a snapshot is the  *)
(* world it was taken of.  Prices keep the order and the differences of    *)
(* protocol_params.go, in small numbers; the gas price is one.  Nonces      *)
(* beyond two are alike.                                                   *)
(***************************************************************************)
EXTENDS Integers, Sequences, FiniteSets, Functions

CONSTANTS
    Sender, Contract, New, Coinbase, Precompiled,   \* addresses; New: those of created contracts
    Net,          \* Constantinople
    CallDiv,      \* 64: the part of the gas a call leaves behind
    W,            \* gas is counted modulo 2^W
    CallCreateDepth,
    Codes,        \* instructions of an instance
    GasLimit, MaxTxs, MaxFunds, TxGases

VARIABLES
    w,         \* the world
    frames,    \* the calls in progress, outermost first
    readOnly,  \* of the interpreter
    gp,        \* the gas pool of the block
    usedGas,   \* of the block
    tx,        \* the transaction being applied, or NoTx
    txs        \* transactions applied

vars == <<w, frames, readOnly, gp, usedGas, tx, txs>>

Address == {Sender, Coinbase} \cup Contract \cup New \cup Precompiled
NoTx == [none |-> TRUE]
Min(a, b) == IF a < b THEN a ELSE b

\* params/protocol_params.go, scaled.
TxGas == 1
StepGas == 1
CallsGas == 1
CallValueTransferGas == 3
CallStipend == 2
CallNewAccountGas == 1
CreateGas == 1
CreateDataGas == 1
MaxCodeSize == 1
SuicideRefundGas == 1
SstoreRefundGas == 2
NetSstoreClearRefund == 2
NetSstoreResetRefund == 1
NetSstoreResetClearRefund == 2

-----------------------------------------------------------------------------
(***************************************************************************)
(* The world, and what instructions do to it.                              *)
(***************************************************************************)

Empty(v, a) == v.bal[a] = 0 /\ v.nonce[a] = 0 /\ ~v.code[a]

Transfer(v, from, to, amount) ==
    [v EXCEPT !.bal = [[@ EXCEPT ![from] = @ - amount] EXCEPT ![to] = @ + amount]]

\* The refund counter after gasSStore; SubRefund panics below zero.
SstoreRefund(v, a, value) ==
    LET cur == v.slot[a]
        orig == v.orig[a]
        clear == IF orig = 0 THEN 0
                 ELSE IF cur = 0 THEN -NetSstoreClearRefund
                 ELSE IF value = 0 THEN NetSstoreClearRefund ELSE 0
        reset == IF orig # value THEN 0
                 ELSE IF orig = 0 THEN NetSstoreResetClearRefund ELSE NetSstoreResetRefund
    IN  IF ~Net THEN v.refund + (IF cur # 0 /\ value = 0 THEN SstoreRefundGas ELSE 0)
        ELSE IF cur = value THEN v.refund
        ELSE IF orig = cur THEN v.refund + (IF orig # 0 /\ value = 0 THEN NetSstoreClearRefund ELSE 0)
        ELSE v.refund + clear + reset

SstoreGas(v, a, value) ==
    LET cur == v.slot[a]
        orig == v.orig[a]
    IN  IF ~Net THEN (IF cur = 0 /\ value # 0 THEN 2 ELSE 1)
        ELSE IF cur = value \/ orig # cur THEN 1
        ELSE IF orig = 0 THEN 3 ELSE 2

\* opSuicide: what is left to the account itself is lost.
Suicided(v, a, to) ==
    [v EXCEPT !.bal = [[@ EXCEPT ![to] = @ + v.bal[a]] EXCEPT ![a] = 0],
              !.dead = @ \cup {a},
              !.burned = @ + IF a = to THEN v.bal[a] ELSE 0]

\* CreateAccount: the balance stays; and SetNonce.
Created(v, a) ==
    [v EXCEPT !.nonce[a] = 1, !.slot[a] = 0, !.orig[a] = 0, !.dead = @ \ {a}]

\* Finalise deletes the destroyed accounts.
Finalised(v) ==
    [v EXCEPT !.bal = [a \in Address |-> IF a \in v.dead THEN 0 ELSE @[a]],
              !.nonce = [a \in Address |-> IF a \in v.dead THEN 0 ELSE @[a]],
              !.code = [a \in Address |-> a \notin v.dead /\ @[a]],
              !.slot = [a \in Address |-> IF a \in v.dead THEN 0 ELSE @[a]],
              !.orig = [a \in Address |-> IF a \in v.dead THEN 0 ELSE v.slot[a]],
              !.burned = @ + FoldFunctionOnSet(LAMBDA x, y : x + y, 0, v.bal, v.dead),
              !.dead = {}, !.refund = 0]

-----------------------------------------------------------------------------
(***************************************************************************)
(* Frames: evm.depth is their number.                                      *)
(***************************************************************************)

Frame(kind, self, gas, snap, sets) ==
    [kind |-> kind, self |-> self, gas |-> gas, snap |-> snap, sets |-> sets]

Top == frames[Len(frames)]

WithGas(fs, g) == [fs EXCEPT ![Len(fs)].gas = g]

\* Mutant: the interpreter stays read-only after a static call.
PoppedReadOnly(left) ==
    /\ frames' = IF Len(frames) = 1 THEN << >>
                 ELSE WithGas(SubSeq(frames, 1, Len(frames) - 1), frames[Len(frames) - 1].gas + left)
    /\ UNCHANGED readOnly

\* The end of a frame: its caller takes the gas that is left.
Popped(left) ==
    /\ frames' = IF Len(frames) = 1 THEN << >>
                 ELSE WithGas(SubSeq(frames, 1, Len(frames) - 1), frames[Len(frames) - 1].gas + left)
    /\ readOnly' = (readOnly /\ ~Top.sets)

\* refundGas, the fee of the coinbase, Finalise and the receipt, after the outermost frame.
Settled(v, left) ==
    LET refund == Min((tx.gas - left) \div 2, v.refund)
        back == left + refund
    IN  /\ w' = Finalised([v EXCEPT !.bal = [[@ EXCEPT ![Sender] = @ + back]
                                                EXCEPT ![Coinbase] = @ + tx.gas - back]])
        /\ gp' = gp + back
        /\ usedGas' = usedGas + tx.gas - back
        /\ tx' = NoTx
        /\ txs' = txs + 1

Leave(v, left) ==
    /\ Popped(left)
    /\ IF Len(frames) = 1 THEN Settled(v, left)
       ELSE w' = v /\ UNCHANGED <<gp, usedGas, tx, txs>>

\* Call and its kin, when run returns an error.
Fail == Leave(Top.snap, 0)

Stay(v, fs) == w' = v /\ frames' = fs /\ UNCHANGED <<readOnly, gp, usedGas, tx, txs>>

\* UseGas, before the instruction is executed.
Pay(cost, v) == IF Top.gas < cost THEN Fail ELSE Stay(v, WithGas(frames, Top.gas - cost))

-----------------------------------------------------------------------------
(***************************************************************************)
(* Instructions of the running frame.                                      *)
(***************************************************************************)

Running(op) == tx # NoTx /\ frames # << >> /\ op \in Codes

Step == Running("step") /\ Pay(StepGas, w)

\* enforceRestrictions comes before the price, and so before the refund.
Sstore(value) ==
    /\ Running("sstore")
    /\ IF readOnly THEN Fail
       ELSE IF Top.gas < SstoreGas(w, Top.self, value) THEN Fail
       ELSE Stay([w EXCEPT !.slot[Top.self] = value, !.refund = SstoreRefund(w, Top.self, value)],
                 WithGas(frames, Top.gas - SstoreGas(w, Top.self, value)))

Log == Running("log") /\ (IF readOnly THEN Fail ELSE Pay(StepGas, [w EXCEPT !.logs = 1]))

SuicideGas(to) == StepGas + IF Empty(w, to) /\ w.bal[Top.self] # 0 THEN 1 ELSE 0

Selfdestruct(to) ==
    LET refund == IF Top.self \in w.dead THEN 0 ELSE SuicideRefundGas
    IN  /\ Running("selfdestruct")
        /\ IF readOnly \/ Top.gas < SuicideGas(to) THEN Fail
           ELSE Leave(Suicided([w EXCEPT !.refund = @ + refund], Top.self, to), Top.gas - SuicideGas(to))

\* Run returns the result; create then stores the code, if it fits and is paid for.
Return(size) ==
    /\ Running("return") /\ (Top.kind # "create" => size = 0)
    /\ IF Top.kind # "create" THEN Leave(w, Top.gas)
       ELSE IF size > MaxCodeSize \/ Top.gas < size * CreateDataGas THEN Fail
       ELSE Leave([w EXCEPT !.code[Top.self] = size > 0], Top.gas - size * CreateDataGas)

Revert == Running("revert") /\ Leave(Top.snap, Top.gas)

Invalid == Running("invalid") /\ Fail

\* callGas on W-bit numbers: avail - base may wrap, and then the price is too high to pay.
callGas(avail, base, want) ==
    LET rest == (avail - base) % 2^W
        most == rest - rest \div CallDiv
    IN  IF most < want THEN most ELSE want

CallBase(kind, to, value) ==
    CallsGas + (IF value > 0 THEN CallValueTransferGas ELSE 0)
             + (IF kind = "call" /\ value > 0 /\ Empty(w, to) THEN CallNewAccountGas ELSE 0)

\* What the called code runs as, and the world it starts in.
CallSelf(kind, to) == IF kind \in {"call", "static"} THEN to ELSE Top.self

CallWorld(kind, to, value) == IF kind = "call" THEN Transfer(w, Top.self, to, value) ELSE w

\* evm.Call, CallCode, DelegateCall and StaticCall with gas, from a frame left with rest.
Enter(kind, to, value, rest, gas) ==
    LET back == WithGas(frames, rest + gas)
        sets == kind = "static" /\ ~readOnly
        child == Frame(kind, CallSelf(kind, to), gas, w, sets)
    IN  IF Len(frames) > CallCreateDepth \/ value > w.bal[Top.self] THEN Stay(w, back)
        ELSE IF to \in Precompiled
        THEN \/ gas >= StepGas /\ Stay(CallWorld(kind, to, value), WithGas(frames, rest + gas - StepGas))
             \/ Stay(w, WithGas(frames, rest))
        ELSE IF ~w.code[to] THEN Stay(CallWorld(kind, to, value), back)
        ELSE /\ frames' = Append(WithGas(frames, rest), child)
             /\ w' = CallWorld(kind, to, value)
             /\ readOnly' = (readOnly \/ sets)
             /\ UNCHANGED <<gp, usedGas, tx, txs>>

\* opCall and its kin, with gasCall: SafeAdd refuses a price beyond 2^W.
OpCall(kind, to, value, want) ==
    LET base == CallBase(kind, to, value)
        gas == callGas(Top.gas, base, want)
    IN  /\ Running(kind) /\ (kind \in {"delegate", "static"} => value = 0)
        /\ IF (readOnly /\ kind = "call" /\ value > 0) \/ base + gas >= 2^W \/ Top.gas < base + gas THEN Fail
           ELSE Enter(kind, to, value, Top.gas - base - gas, gas + IF value > 0 THEN CallStipend ELSE 0)

\* evm.create; the nonce is not undone, and a collision takes the gas.
CreateIn(v, fs, from, a, value, gas) ==
    LET n == [v EXCEPT !.nonce[from] = Min(@ + 1, 2)]
    IN  IF v.nonce[a] # 0 \/ v.code[a] THEN <<n, fs>>
        ELSE <<Transfer(Created(n, a), from, a, value), Append(fs, Frame("create", a, gas, n, FALSE))>>

OpCreate(a, value) ==
    LET left == Top.gas - CreateGas
        gas == left - left \div CallDiv
        in == CreateIn(w, WithGas(frames, left - gas), Top.self, a, value, gas)
    IN  /\ Running("create")
        /\ IF readOnly \/ Top.gas < CreateGas THEN Fail
           ELSE IF Len(frames) > CallCreateDepth \/ value > w.bal[Top.self]
           THEN Stay(w, WithGas(frames, left))
           ELSE Stay(in[1], in[2])

-----------------------------------------------------------------------------
(***************************************************************************)
(* TransitionDb: preCheck, buyGas, the intrinsic gas, and the first frame. *)
(***************************************************************************)

Bought(gas) == [w EXCEPT !.bal[Sender] = @ - gas]

\* An error discards the changes of the transaction, but not those of the gas pool.
BeginTx(to, value, gas) ==
    LET v == Bought(gas)
        n == [v EXCEPT !.nonce[Sender] = Min(@ + 1, 2)]
        left == gas - TxGas
    IN  /\ tx = NoTx /\ txs < MaxTxs
        /\ gas <= w.bal[Sender] /\ gas <= gp
        /\ gp' = gp - gas
        /\ IF gas < TxGas \/ value > v.bal[Sender]
           THEN txs' = txs + 1 /\ UNCHANGED <<w, frames, readOnly, usedGas, tx>>
           ELSE /\ tx' = [gas |-> gas, left |-> IF to \in New /\ (v.nonce[to] # 0 \/ v.code[to]) THEN 0 ELSE left]
                /\ UNCHANGED <<readOnly, usedGas, txs>>
                /\ IF to \in New
                   THEN LET in == CreateIn(v, << >>, Sender, to, value, left) IN w' = in[1] /\ frames' = in[2]
                   ELSE /\ w' = Transfer(n, Sender, to, value)
                        /\ frames' = IF n.code[to] THEN <<Frame("call", to, left, n, FALSE)>> ELSE << >>

\* A transaction without a frame: no code to run, or a collision.
EndTx ==
    /\ tx # NoTx /\ frames = << >>
    /\ Settled(w, tx.left)
    /\ UNCHANGED <<frames, readOnly>>

Init ==
    /\ w = [bal |-> [a \in Address |-> IF a = Sender THEN MaxFunds ELSE 0],
            nonce |-> [a \in Address |-> IF a \in Contract THEN 1 ELSE 0],
            code |-> [a \in Address |-> a \in Contract],
            slot |-> [a \in Address |-> IF a \in Contract THEN 1 ELSE 0],
            orig |-> [a \in Address |-> IF a \in Contract THEN 1 ELSE 0],
            dead |-> {}, refund |-> 0, logs |-> 0, burned |-> 0]
    /\ frames = << >> /\ readOnly = FALSE
    /\ gp = GasLimit /\ usedGas = 0 /\ tx = NoTx /\ txs = 0

Next ==
    \/ \E to \in Contract \cup New \cup {Coinbase}, v \in {0, 1}, gas \in TxGases : BeginTx(to, v, gas)
    \/ EndTx
    \/ Step \/ Log \/ Revert \/ Invalid
    \/ \E v \in 0..2 : Sstore(v) \/ Return(v)
    \/ \E to \in Contract \cup {Coinbase} : Selfdestruct(to)
    \/ \E kind \in {"call", "callcode", "delegate", "static"}, to \in Address \ {Sender}, v \in {0, 1},
          want \in {1, 2^W - 1} : OpCall(kind, to, v, want)
    \/ \E a \in New, v \in {0, 1} : OpCreate(a, v)

Spec == Init /\ [][Next]_vars

-----------------------------------------------------------------------------
Total(f) == FoldFunction(LAMBDA x, y : x + y, 0, f)

TypeOK ==
    /\ gp \in 0..GasLimit /\ usedGas \in 0..GasLimit
    /\ \A a \in Address : w.bal[a] \in 0..MaxFunds
    /\ \A i \in DOMAIN frames : frames[i].gas \in 0..(2^W - 1)
    /\ Len(frames) <= CallCreateDepth + 1

(* Value is neither made nor lost: the balances, the gas that is paid for in advance and what
   self-destruction burns add up to what there was, whatever calls fail, revert or run dry. *)
Conserved == Total(w.bal) + w.burned + (IF tx = NoTx THEN 0 ELSE tx.gas) = MaxFunds

(* The frames of a transaction never hold more gas than it bought, so what it uses is positive and
   what the block uses stays within its limit. *)
GasBounded ==
    /\ tx # NoTx => LET held == [i \in DOMAIN frames |-> frames[i].gas] IN Total(held) <= tx.gas - TxGas
    /\ gp + usedGas + (IF tx = NoTx THEN 0 ELSE tx.gas) <= GasLimit

(* Nothing changes the world below a static call, and the interpreter is read-only exactly while
   one is in progress. *)
StaticSound ==
    /\ readOnly = \E i \in DOMAIN frames : frames[i].sets
    /\ \A i \in DOMAIN frames : frames[i].sets => w = frames[i].snap

(* Every cleared slot has its refund in the counter, so SubRefund never panics. *)
RefundCovers ==
    Net => w.refund >= NetSstoreClearRefund * Cardinality({a \in Address : w.orig[a] # 0 /\ w.slot[a] = 0})

=============================================================================
