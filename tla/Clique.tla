------------------------------- MODULE Clique -------------------------------
(***************************************************************************)
(* The clique proof-of-authority engine of one node                        *)
(* (lib/consensus/clique/clique.go and api.go): verification of headers    *)
(* from the network, the snapshot cache and its checkpoints on disk, and   *)
(* the preparation and sealing of the node's own headers.                  *)
(*                                                                         *)
(* A header is a record whose parent field is the parent header itself, so *)
(* that equal headers are headers with equal hashes.  Addresses are        *)
(* numbers, in the order signers() sorts them; 0 is the zero address.      *)
(* wellFormed stands for the checks of verifyHeader on the length of the   *)
(* extra-data, the mix digest and the uncle hash.                          *)
(***************************************************************************)
EXTENDS Integers, FiniteSets, Functions, TLC

CONSTANTS
    Address, GenesisSigners, Epoch, MaxNumber,  \* as in CliqueSnapshot
    CheckpointInterval, \* snapshots at multiples of it are written to disk
    Period,             \* config.Period: least time between two blocks
    CacheSize,          \* inmemorySnapshots: capacity of the snapshot cache
    Uint64,             \* the number of values of a uint64
    Votable,            \* the addresses headers and proposals may name
    Own,                \* the accounts of the node's wallet
    Peers,              \* the accounts whose headers arrive from the network
    MaxTime,            \* bound: the clock stops here
    MaxHeaders,         \* bound: size of the header database
    None                \* the nil header

VARIABLES
    now,       \* time.Now()
    chain,     \* the headers the chain database holds (GetHeader)
    recents,   \* c.recents: in-memory snapshots by header
    disk,      \* the snapshots in c.db
    signer,    \* c.signer, None until Authorize
    proposals, \* c.proposals
    work,      \* the header Prepare filled in, waiting for Seal
    sealing    \* the signed header waiting for its slot

vars == <<now, chain, recents, disk, signer, proposals, work, sealing>>

S == INSTANCE CliqueSnapshot WITH snap <- 0

Zero == 0
Err == None
DiffInTurn == 2
DiffNoTurn == 1

Genesis == [number |-> 0, parent |-> None, time |-> 0, signer |-> Zero,
            coinbase |-> Zero, nonce |-> S!NonceDrop, difficulty |-> 0,
            extra |-> GenesisSigners, wellFormed |-> TRUE]

IsCheckpoint(number) == number % Epoch = 0

-----------------------------------------------------------------------------
(***************************************************************************)
(* Snapshots.                                                              *)
(***************************************************************************)

\* The walk of snapshot() back to the nearest snapshot in memory, on disk or
\* at genesis, and apply forward from there.
RECURSIVE SnapshotFrom(_, _, _)
SnapshotFrom(h, memory, stored) ==
    IF h \in DOMAIN memory THEN memory[h]
    ELSE IF h.number % CheckpointInterval = 0 /\ h \in DOMAIN stored
         THEN stored[h]
    ELSE IF h.number = 0 THEN S!newSnapshot(0, h.extra)
    ELSE LET s == SnapshotFrom(h.parent, memory, stored)
         IN  IF s # Err /\ S!Applicable(s, h) THEN S!Apply(s, h) ELSE Err

snapshot(h) == SnapshotFrom(h, recents, disk)

\* Mutant: apply works on the cached snapshot of the parent, not on a copy.
RememberSnapshotInPlace(h) ==
    LET s == snapshot(h)
    IN  IF s = Err THEN UNCHANGED <<recents, disk>>
        ELSE /\ recents' = (IF h.parent \in DOMAIN recents THEN h.parent :> s
                                                           ELSE h :> s)
             /\ UNCHANGED disk

\* What snapshot() leaves behind: the snapshot in memory, where it may push
\* out others when the cache is full, and, at a checkpoint it had to compute,
\* on disk.
RememberSnapshot(h) ==
    LET s == snapshot(h)
        others == DOMAIN recents \ {h}
    IN  IF s = Err THEN UNCHANGED <<recents, disk>>
        ELSE /\ \E kept \in SUBSET others :
                    /\ Cardinality(kept) =
                          IF Cardinality(others) < CacheSize
                          THEN Cardinality(others) ELSE CacheSize - 1
                    /\ recents' = (h :> s) @@ Restrict(recents, kept)
             /\ disk' = IF h.number % CheckpointInterval = 0
                        THEN (h :> s) @@ disk
                        ELSE disk

\* The reference: the snapshot computed from the headers alone.
Replay(h) == SnapshotFrom(h, << >>, << >>)

\* The position of the signer among the sorted signers decides its turn.
inturn(s, number, a) ==
    /\ a \in s.signers
    /\ number % Cardinality(s.signers)
           = Cardinality({b \in s.signers : b < a})

CalcDifficulty(s, a) ==
    IF inturn(s, s.number + 1, a) THEN DiffInTurn ELSE DiffNoTurn

-----------------------------------------------------------------------------
(***************************************************************************)
(* Verification.                                                           *)
(***************************************************************************)

\* verifyHeader up to the fields that need the parent.
StandAloneOK(h) ==
    /\ h.time <= now
    /\ IsCheckpoint(h.number) => h.coinbase = Zero
    /\ h.nonce \in {S!NonceAuth, S!NonceDrop}
    /\ IsCheckpoint(h.number) => h.nonce = S!NonceDrop
    /\ h.wellFormed
    /\ ~ IsCheckpoint(h.number) => h.extra = {}
    /\ h.difficulty \in {DiffInTurn, DiffNoTurn}

\* The parent is known and old enough: what verifyCascadingFields tests
\* before it asks for the snapshot.
ParentOK(h) ==
    /\ h.parent \in chain
    /\ h.parent.number = h.number - 1
    /\ h.parent.time + Period <= h.time

\* The unsigned subtraction of verifySeal wraps around when number < limit.
WithinWindow(seen, number, limit) == seen > (number - limit) % Uint64

SignedRecently(s, h) ==
    \E r \in s.recents : /\ r.signer = h.signer
                         /\ WithinWindow(r.block, h.number, S!Limit(s.signers))

\* Mutant: the verifier does not ask whether the signer is authorized.
verifySealAnySigner(s, h) ==
    /\ ~ SignedRecently(s, h)
    /\ h.difficulty = IF inturn(s, h.number, h.signer)
                      THEN DiffInTurn ELSE DiffNoTurn

verifySeal(s, h) ==
    /\ h.signer \in s.signers
    /\ ~ SignedRecently(s, h)
    /\ h.difficulty = IF inturn(s, h.number, h.signer)
                      THEN DiffInTurn ELSE DiffNoTurn

\* The verdict given the parent's snapshot.
VerifiedWith(s, h) ==
    /\ s # Err
    /\ IsCheckpoint(h.number) => h.extra = s.signers
    /\ verifySeal(s, h)

verifyHeader(h) ==
    StandAloneOK(h) /\ ParentOK(h) /\ VerifiedWith(snapshot(h.parent), h)

-----------------------------------------------------------------------------
(***************************************************************************)
(* Actions.                                                                *)
(***************************************************************************)
Init ==
    /\ now = 0
    /\ chain = {Genesis}
    /\ recents = << >>
    /\ disk = << >>
    /\ signer = None
    /\ proposals = << >>
    /\ work = None
    /\ sealing = None

\* The headers peers send on top of a header of the chain: with and without
\* a vote, in and out of turn, with right and stale checkpoint lists.
Ballots == {[coinbase |-> Zero, nonce |-> S!NonceDrop]}
               \cup [coinbase : Votable, nonce : {S!NonceAuth, S!NonceDrop}]

CheckpointLists == {GenesisSigners, GenesisSigners \cup Votable}

IncomingOn(p) ==
    {[number |-> p.number + 1, parent |-> p, time |-> p.time + Period,
      signer |-> a, coinbase |-> b.coinbase, nonce |-> b.nonce,
      difficulty |-> d, extra |-> list, wellFormed |-> TRUE] :
        a \in Peers, b \in Ballots, d \in {DiffInTurn, DiffNoTurn},
        list \in IF IsCheckpoint(p.number + 1) THEN CheckpointLists ELSE {{}}}

\* A header from the network is verified and, when it passes, written to
\* the chain; the parent's snapshot is remembered either way.
ImportHeader(h) ==
    /\ h \notin chain /\ Cardinality(chain) < MaxHeaders
    /\ StandAloneOK(h) /\ ParentOK(h)
    /\ RememberSnapshot(h.parent)
    /\ chain' = IF VerifiedWith(snapshot(h.parent), h)
                THEN chain \cup {h} ELSE chain
    /\ UNCHANGED <<now, signer, proposals, work, sealing>>

\* API.Propose
Propose(a, auth) ==
    /\ proposals' = (a :> auth) @@ proposals
    /\ UNCHANGED <<now, chain, recents, disk, signer, work, sealing>>

\* API.Discard
Discard(a) ==
    /\ a \in DOMAIN proposals
    /\ proposals' = Restrict(proposals, DOMAIN proposals \ {a})
    /\ UNCHANGED <<now, chain, recents, disk, signer, work, sealing>>

Authorize(a) ==
    /\ a # signer
    /\ signer' = a
    /\ UNCHANGED <<now, chain, recents, disk, proposals, work, sealing>>

\* The vote Prepare puts into the header: one of the proposals that would
\* count, at random, or none; none on a checkpoint.
Ballot(s, number) ==
    LET open == {a \in DOMAIN proposals : S!validVote(s, a, proposals[a])}
    IN  IF IsCheckpoint(number) \/ open = {}
        THEN {[coinbase |-> Zero, nonce |-> S!NonceDrop]}
        ELSE {[coinbase |-> a, nonce |-> IF proposals[a] THEN S!NonceAuth
                                                         ELSE S!NonceDrop] :
                a \in open}

Later(a, b) == IF a < b THEN b ELSE a

\* The header under preparation, with the signer CalcDifficulty was given.
\* Prepare fails without a snapshot of the parent; when no signer is left,
\* inturn divides by zero and the node goes down (Restart).
Prepare(p) ==
    LET s == snapshot(p) number == p.number + 1 IN
    /\ number <= MaxNumber
    /\ s # Err /\ s.signers # {}
    /\ Later(p.time + Period, now) <= MaxTime
    /\ \E b \in Ballot(s, number) :
          work' = [by |-> signer,
                   header |-> [number |-> number, parent |-> p,
                       time |-> Later(p.time + Period, now),
                       signer |-> None, coinbase |-> b.coinbase,
                       nonce |-> b.nonce,
                       difficulty |-> CalcDifficulty(s, signer),
                       extra |-> IF IsCheckpoint(number) THEN s.signers ELSE {},
                       wellFormed |-> TRUE]]
    /\ RememberSnapshot(p)
    /\ UNCHANGED <<now, chain, signer, proposals, sealing>>

\* Mutant: the sealer may sign again one block too early.
MustWaitShort(s, number, a) ==
    \E r \in s.recents : r.signer = a /\ r.block > number - S!Limit(s.signers) + 1

\* Seal refuses while the signer is in the window; number < limit is tested
\* before the subtraction.
MustWait(s, number, a) ==
    \E r \in s.recents :
        /\ r.signer = a
        /\ \/ number < S!Limit(s.signers)
           \/ r.block > number - S!Limit(s.signers)

\* Seal signs with the signer authorized now and hands the header to the
\* goroutine that waits for its slot; the work of an earlier call is stopped.
Seal ==
    /\ work # None
    /\ LET h == work.header s == snapshot(h.parent) IN
       /\ s # Err
       /\ sealing' = IF signer \in s.signers /\ ~ MustWait(s, h.number, signer)
                     THEN [work EXCEPT !.header.signer = signer]
                     ELSE None
       /\ RememberSnapshot(h.parent)
    /\ work' = None
    /\ UNCHANGED <<now, chain, signer, proposals>>

\* The slot has come (an out-of-turn header waits a random while longer):
\* the miner takes the block from the results channel and writes it.
SlotComes ==
    /\ sealing # None
    /\ now >= sealing.header.time
    /\ sealing.header \in chain \/ Cardinality(chain) < MaxHeaders
    /\ chain' = chain \cup {sealing.header}
    /\ sealing' = None
    /\ UNCHANGED <<now, recents, disk, signer, proposals, work>>

\* A stop, clean or not: New starts with empty caches and no signer.
Restart ==
    /\ recents' = << >>
    /\ signer' = None
    /\ proposals' = << >>
    /\ work' = None
    /\ sealing' = None
    /\ UNCHANGED <<now, chain, disk>>

Tick ==
    /\ now < MaxTime
    /\ now' = now + 1
    /\ UNCHANGED <<chain, recents, disk, signer, proposals, work, sealing>>

Next ==
    \/ \E p \in chain : p.number < MaxNumber /\ \E h \in IncomingOn(p) : ImportHeader(h)
    \/ Own # {} /\ \E a \in Votable, auth \in BOOLEAN : Propose(a, auth)
    \/ \E a \in Votable : Discard(a)
    \/ \E a \in Own : Authorize(a)
    \/ Own # {} /\ \E p \in chain : Prepare(p)
    \/ Seal
    \/ SlotComes
    \/ Restart
    \/ Tick

Spec == Init /\ [][Next]_vars

-----------------------------------------------------------------------------
(***************************************************************************)
(* Properties.                                                             *)
(***************************************************************************)

\* Type invariant.
TypeOK ==
    /\ now \in 0..MaxTime
    /\ DOMAIN recents \subseteq chain /\ DOMAIN disk \subseteq chain
    /\ signer \in Own \cup {None}
    /\ DOMAIN proposals \subseteq Votable
    /\ Cardinality(DOMAIN recents) <= CacheSize

\* Every snapshot kept in memory or on disk is the one that applying the
\* headers from genesis gives, whatever was cached, evicted, stored or lost
\* in between (apply works on a copy; snapshot() keys by the header's hash).
SnapshotsCoherent ==
    /\ \A h \in DOMAIN recents : recents[h] = Replay(h)
    /\ \A h \in DOMAIN disk : disk[h] = Replay(h)

\* A header Prepare filled in and Seal signed passes verifyHeader when its
\* slot comes, unless Authorize changed the signer in between: the vote, the
\* checkpoint list, the turn and the window of the sealing side agree with
\* the verifier's.
SealedVerifies ==
    (/\ sealing # None
     /\ sealing.by = sealing.header.signer
     /\ now >= sealing.header.time) => verifyHeader(sealing.header)

\* The signers of the last Limit(parent's signers) - 1 ancestors of h.
RecentAncestors(h) ==
    LET s == Replay(h.parent)
    IN  {r.signer : r \in {q \in s.recents :
                              q.block > h.number - S!Limit(s.signers)}}

\* A header in the chain is by a signer of its parent's snapshot that signed
\* none of the last Limit - 1 blocks.
NoSignerTooOften ==
    \A h \in chain \ {Genesis} : h.signer \notin RecentAncestors(h)

\* A verified header has a snapshot of its own, so that the chain can be
\* extended from it, once the chain is longer than the window.
VerifiedIsApplicable ==
    \A h \in chain \ {Genesis} :
        h.number >= S!Limit(Replay(h.parent).signers) => Replay(h) # Err

=============================================================================
