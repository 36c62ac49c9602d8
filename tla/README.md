# Verification of CANChain

TLA+ models of the parts of CANChain where the order of events matters, TLC
configurations that check them on small instances, and TLAPS proofs of the
results that should hold for every instance. Paths are relative to `src/`.
`PROJECT.json` maps every definition to the lines it models.

## The system

A `gcan` node runs these parts, most of them as goroutines that talk through
channels and share the chain under locks.

| Part | Code | Model |
|---|---|---|
| clique engine: who may sign, votes on signers | `lib/consensus/clique` | `CliqueSnapshot`, `Clique` |
| block chain: import, fork choice, reorganisation, rewind, restart | `kernel/blockchain.go`, `blockchain_insert.go`, `headerchain.go` | `BlockChain` |
| block fetcher: announcements and propagated blocks to imports | `can/fetcher` | `Fetcher` |
| miner | `miner` | the part that meets the chain, in `BlockChain` |
| storage | `candb`, `kernel/rawdb` | as the writes of `BlockChain` |
| transaction pool | `kernel/tx_pool.go`, `tx_list.go`, `tx_journal.go` | planned |
| downloader, protocol manager | `can/downloader`, `can/handler.go`, `can/sync.go` | planned |
| chain indexer, bloombits, filters | `kernel/chain_indexer.go`, `kernel/bloombits`, `can/filters` | planned |
| state database, trie database | `kernel/state`, `lib/trie` | planned |
| events | `lib/event` | planned |
| light client and server | `light`, `lcs` | planned in parts |
| p2p server, dialing, discovery | `lib/p2p` | planned in parts |
| node, RPC, keystore | `node`, `rpc`, `accounts/keystore` | planned in parts |
| ethash | `lib/consensus/ethash` | a verdict per block |
| EVM, state transition | `kernel/vm`, `kernel/state_transition.go` | a verdict per block |
| RLP, ABI, cryptography, whisper, commands, console | `lib/rlp`, `lib/crypto`, `accounts/abi`, `lib/whisperv6`, `cmd`, `console` | no |

How they interact: peers announce hashes and send blocks to the protocol
manager, which hands them to the **fetcher**; the fetcher asks for headers and
bodies, and imports the blocks with `BlockChain.InsertChain`. The **block chain**
has the engine (**clique** or ethash) verify the headers, executes the blocks,
chooses the head and collects old state. The **miner** prepares a header with
the engine, seals it and writes the block with `WriteBlockWithState`, beside
`InsertChain`. The chain tells the transaction pool, the indexers and the miner
about new heads.

## Modules

### CliqueSnapshot (`lib/consensus/clique/snapshot.go`)

One variable, `snap`: the signers, the recent signers by block, the open votes
and the tally at the head of a chain of headers. The only action, `ApplyHeader`,
is `apply` for one header, in the order of the code: `ResetAtEpoch`,
`ShiftRecents`, the tests of `Applicable`, `RecordSigner`, `DiscardVotes` of the
signer's earlier vote, `CastVote`, and `CountVotes`, which adds or drops
(`DropSigner`) a signer and closes the votes on it. The vote slice is a set:
each block adds at most one vote and records its number. `uncast` is modelled
with its early returns; the tally is a total function whose zero entry stands
for an absent key.

### Clique (`lib/consensus/clique/clique.go`, `api.go`)

The engine of one node. Variables: the clock, the stored headers, the snapshot
cache, the snapshots on disk, the signer, the proposals, the header being
prepared and the one waiting for its slot. Headers are records that contain
their parent, so that equal headers are headers with equal hashes.
`verifyHeader` has the checks of `verifyHeader`, `verifyCascadingFields` and
`verifySeal` as conjuncts, with the unsigned subtraction of `verifySeal` modulo
`Uint64`. `snapshot` walks back through cache, disk and headers and applies
`CliqueSnapshot` forward, storing what the code stores. `Prepare`, `Authorize`,
`Seal`, `Propose` and `Discard` are actions; between `Prepare` and `Seal`, and
between `Seal` and the slot, anything may happen.

### BlockChain (`kernel/blockchain.go`)

Blocks are the nodes of a constant tree, each with parent, difficulty,
transactions, time and the verdict of validation. `db` is what survives the
process: headers, bodies, total difficulties, states, the number index, the
transaction lookups and the head hashes. `mem` is what does not: the three
heads, the tries in memory and their collection queue, the future blocks, the
import in progress, and the miner's tasks. An operation is computed on a record
that also collects the database after each of its writes (`Put`); a crash may
leave any of these databases (`MaxCuts`), or come between two operations
(`MaxCrashes`).

`insertChain` holds `chainmu` but takes `mu` only to write a block, so an import
is one step per block, split again where `WriteBlockWithState` has read the
parent's total difficulty and not yet locked; the miner's write is split in the
same place. In between, the miner, `SetHead` and a shutdown may run. Each of
these steps is a whole operation of the code, with `reorg`, the collection of
tries and the head writes in it. A panic of the code is the status `panicked`, a
start that fails is `failed`.

### Fetcher (`can/fetcher/fetcher.go`)

The loop, its import goroutines and the peers. The maps `announced`,
`fetching`, `fetched` and `completing` with the per-peer count are the record
`ann`; `queue`, `queues`, `queued` are the import queue. A round of the loop is
`Expire`, a number of `ImportNext`, and one event. `pc` splits the loop where it
reads the chain again, because import goroutines (`InsertBlock`, then `Done`)
and the rest of the node (`Sync`) extend the chain meanwhile. Time is a free
choice: which announcements are old enough, and which fetches have expired. A
request is answered at any later time, or never; `Spurious` is an answer to
nothing. `Claims` are the numbers that peers outside `Honest` may announce.

### MC modules

`MCCliqueSnapshot`, `MCClique`, `MCBlockChain` and `MCFetcher` give the
constants values: trees of blocks, sets of peers and addresses. Definitions
called "Mutant" in the modules are deliberately wrong variants of an operator;
each property is known to fail when one of them takes the operator's place.

## Runs

| Run | Instance | Checks |
|---|---|---|
| `clique_snapshot` | 4 addresses, 3 genesis signers, epoch 4, 9 blocks | the bookkeeping of votes, tally and window; changes by majority only |
| `clique_verify` | 2 signers and a candidate, 5 headers, cache of 2, checkpoints every 2 blocks | snapshots equal the replay from genesis; accepted headers keep the window and can be built on |
| `clique_seal` | the node's own 2 accounts, a votable third, epoch 2 | what the node seals it also verifies |
| `clique_early_blocks` | 4 signers, 2 blocks | *violated*: see findings |
| `chain_import` | two branches of 4 and 3 blocks and a mined block, tries kept for 2 blocks, one stop | one head, linked index, exact lookups, heaviest head, head state, head never lighter |
| `chain_recovery` | two branches of 3 and 2 blocks, one crash inside an operation | the node starts again, with a head that has state |
| `chain_rewind` | two branches of 2 and a mined block, one `SetHead`, two crashes between operations | head and ancestors readable and linked |
| `chain_future` | archive node, clock of 3 instants, a malformed and an invalid block | future blocks are imported in the end |
| `chain_torn_rewind` | two branches of 2 blocks, a crash inside `SetHead` | *violated*: see findings |
| `fetcher_safety` | 2 peers (one honest), 3 blocks on two branches, limits 2 and 1, a future and a bad header | accounting, stages, timers, honest peers |
| `fetcher_live` | 2 honest peers, 2 blocks, no timeouts | announced blocks are imported, the queue drains |
| `fetcher_announces` | 1 peer, limit 1 | *violated*: see findings |

**Bounds.** The clique runs pass two checkpoints and let the signer set grow,
shrink and move the window length, which needs three signers. The cache holds
fewer snapshots than there are headers. In the chain runs the heavier branch is
the shorter one, equal difficulties occur at equal heights (the coin toss of
`WriteBlockWithState` is a free choice), both branches share a transaction, and
`TriesInMemory` is 2, so that pruned ancestors, side chains without state and
re-execution occur. In `fetcher_safety` both limits are reached and a block is
too far away, too old, or already there. `Uint64` is 1024 values, far above any
number used, so only the wrap below zero is seen.

Deadlock is not checked where bounded inputs run out (`CliqueSnapshot`,
`BlockChain`, `Fetcher`: headers, blocks and messages are finite, and a stopped
node stops). The engine runs of `Clique` keep the check on; a restart is always
possible there.

**Fairness.** `chain_future`: the clock advances, the ticker of `update` fires,
an import that started goes on. `fetcher_live`: the loop and the goroutines run
(weak fairness); a case of `select` that is ready again and again is taken, since
Go chooses among the ready cases at random (strong fairness per hash); peers
answer, and an announcement that stays becomes old enough. Without the last two
the code promises nothing: `completing` has no timeout.

## Proofs

`CliqueSnapshotProofs`, for every finite set of addresses, set of genesis
signers, positive epoch and chain length (the four assumptions of the module). The invariant is `SnapInv`: types (`Books`),
`TallyCounts`, `VotesLive`, `OneVoteEach`, `RecentsWindow`. None of these is
inductive alone: the tally stays exact only because every open vote has the
direction of its entry and no signer has two on an address; the window stays
duplicate free only because it is exactly the last Limit blocks. The proof
follows `apply` phase by phase: `ShiftedInv` (reset and shift), `VotedInv` (the
old vote discarded, the new one cast), `CountedInv` (the signer added or
dropped, votes closed), joined in `ApplyInv`; below them, lemmas say what each
operator does to the tally and the votes (`DiscardVotesBooks`, `CastBooks`,
`CloseBooks`, ...). It yields all six properties of the run, including that some signer can always
sign (a counting argument: the window after the shift holds fewer entries than
there are signers) and that a change needs the votes of a majority.

`FetcherProofs`, for all peers, finite sets of blocks, limits and bounds; the
assumptions are the types of the constants (`FetcherAssumption`). The invariant is
`FInv`: `AInv` (for each hash, which combinations of stages it may be in, and
the timers), `QInv` (the counts, `QueuedTracked`, what is in the queue, honest
peers) and `RequestsOK` (what requests on their way may name). `HonestKept`
needs the history in the other two: an honest peer's announcements, requests
and queued blocks are good, so none leads to `dropPeer`. The six safety
properties of the run follow. Its `TypeOK` is model-checked only: the
announcement counters are sums over sets, which need an induction the provers
do not have.

Model-checked only: liveness, everything about `BlockChain` and `Clique`.
`Clique` uses a recursive operator, which rules out proofs.

## Findings

Each is shown by a run that TLC finds violated.

1. `clique_early_blocks`: `verifySeal` (`clique.go:374`) subtracts unsigned
   numbers that wrap in the first blocks of a chain; a header that `apply`
   refuses is accepted. `Seal` has the guard that is missing here (485).
2. `chain_torn_rewind`: a crash inside `SetHead`, between its batch of deletions
   and the write of the new head, makes the next start call `Reset`, which
   panics at `blockchain.go:233` because there is no current block yet.
3. `fetcher_announces`: `forgetHash` (`fetcher.go:574`) takes announcements off
   the per-peer count a second time; the bound `hashLimit` does not hold.

Two more behaviours of the code are part of the model and worth knowing when
reading it. A crash between the writes of `insert` during a reorganisation
(`blockchain.go:397`) leaves a number index that is not the ancestry of the
recorded head, and nothing repairs it: this is why `CanonicalLinked` is checked
with crashes between operations only. And importing a single block whose
parent's state was pruned ends in a panic, because `insertIterator.current`
(`blockchain_insert.go:84`) is nil for the last block of a segment: this is the
status `panicked` of `chain_import`, from which the operator may restart.

## Not modelled

In the modelled parts: the batch of parents in `VerifyHeaders` and the light
client checkpoint of clique; header and fast sync of the block chain
(`InsertHeaderChain`, `InsertReceiptChain`, `FastSyncCommitHead`, `Rollback`);
chain events; caches that only repeat the database; errors of the database
itself; broadcasts of the fetcher. Execution, encodings and cryptography are
verdicts and identities: pure data is beyond what model checking adds to tests.

## Plan

1. Transaction pool: `TxList` (sorted map, cost and gas caps, the priced heap
   with its stale count), `TxPool` (add, promote, demote, evict, reset), the
   journal; the invariants of `validateTxPoolInternals`; composed with
   `BlockChain` through head events that arrive late.
2. Header and fast sync of `BlockChain`; an abstract chain (a tree and a head
   that only gains weight) that `BlockChain` is shown to implement.
3. Downloader queue (reserve, deliver, expire, cancel), miner worker, chain
   indexer; an abstract fetcher that `Fetcher` implements.
4. Event feed, state journal against a reference map, trie database reference
   counts, bloombits scheduler.
5. lcs distributor and free client pool, p2p dialing, node life cycle, RPC
   subscriptions, keystore.
6. Proofs: fork choice and linked index of `BlockChain`, the accounting of the
   pool and of the downloader queue, the refinements.
