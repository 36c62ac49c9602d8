--------------------------- MODULE CliqueSnapshot ---------------------------
(***************************************************************************)
(* The voting snapshot of the clique proof-of-authority engine             *)
(* (lib/consensus/clique/snapshot.go): the signer set, the window of       *)
(* recent signers, the open votes and their tally at one block, and how    *)
(* one more header changes them.                                           *)
(*                                                                         *)
(* Representation.  Go maps are sets of records keyed by one field         *)
(* (recents) or total functions whose zero value stands for an absent key  *)
(* (tally; no entry with zero votes is ever stored).  The slice of votes   *)
(* is a set: every block appends at most one vote and records its number,  *)
(* so slice order is block order.  A header is reduced to what apply       *)
(* reads: number, recovered signer, coinbase and nonce.                    *)
(***************************************************************************)
EXTENDS Integers, FiniteSets

CONSTANTS
    Address,        \* all addresses; signers and candidates alike
    GenesisSigners, \* the signer list in the extra-data of block 0
    Epoch,          \* config.Epoch: votes are reset every Epoch blocks
    MaxNumber       \* bound: no header above this number is applied

ASSUME AddressAssumption == IsFiniteSet(Address)
ASSUME GenesisAssumption == GenesisSigners \subseteq Address
ASSUME EpochAssumption == Epoch \in Nat \ {0}
ASSUME MaxNumberAssumption == MaxNumber \in Nat

VARIABLE
    snap            \* the snapshot at the head of one chain of headers

(***************************************************************************)
(* Types.                                                                  *)
(***************************************************************************)
NonceAuth  == "auth"
NonceDrop  == "drop"
NonceOther == "other"

Header == [number : 1..MaxNumber, signer : Address, coinbase : Address,
           nonce : {NonceAuth, NonceDrop, NonceOther}]

Vote == [signer : Address, block : Nat, address : Address, authorize : BOOLEAN]

Tally == [authorize : BOOLEAN, votes : Nat]

NoTally == [authorize |-> FALSE, votes |-> 0]

Snapshot == [number  : Nat,
             signers : SUBSET Address,
             recents : SUBSET [block : Nat, signer : Address],
             votes   : SUBSET Vote,
             tally   : [Address -> Tally]]

newSnapshot(number, signers) ==
    [number  |-> number,
     signers |-> signers,
     recents |-> {},
     votes   |-> {},
     tally   |-> [a \in Address |-> NoTally]]

-----------------------------------------------------------------------------
(***************************************************************************)
(* The steps of apply, in the order it takes them.                         *)
(***************************************************************************)

\* How many consecutive blocks a signer may seal at most one of.
Limit(signers) == Cardinality(signers) \div 2 + 1

\* A checkpoint block discards all votes.
ResetAtEpoch(s, number) ==
    IF number % Epoch = 0
    THEN [s EXCEPT !.votes = {}, !.tally = [a \in Address |-> NoTally]]
    ELSE s

\* The oldest recent signer leaves the window; number >= limit keeps the
\* unsigned subtraction from wrapping.
ShiftRecents(s, number) ==
    IF number >= Limit(s.signers)
    THEN [s EXCEPT !.recents =
              {r \in s.recents : r.block # number - Limit(s.signers)}]
    ELSE s

RecentlySigned(s, signer) == \E r \in s.recents : r.signer = signer

RecordSigner(s, number, signer) ==
    [s EXCEPT !.recents = @ \cup {[block |-> number, signer |-> signer]}]

\* A vote may only change the status its address has.
validVote(s, address, authorize) == authorize <=> address \notin s.signers

\* n calls of uncast with the tally's own direction: each takes one vote
\* off, the one that takes the last vote deletes the entry.
Uncast(t, n) ==
    IF n >= t.votes THEN NoTally ELSE [t EXCEPT !.votes = @ - n]

\* Remove gone from the votes and uncast each of them.
DiscardVotes(s, gone) ==
    LET counted(a) == {v \in gone : /\ v.address = a
                                    /\ v.authorize = s.tally[a].authorize}
    IN  [s EXCEPT !.votes = @ \ gone,
                  !.tally = [a \in Address |->
                                Uncast(s.tally[a], Cardinality(counted(a)))]]

\* The first vote in the slice of this signer on this address, if any.
PreviousVote(s, signer, address) ==
    {v \in s.votes : /\ v.signer = signer
                     /\ v.address = address
                     /\ \A w \in s.votes :
                            w.signer = signer /\ w.address = address
                                => v.block <= w.block}

\* cast: one more vote for the entry of the address, or a new entry.
Cast(t, authorize) ==
    IF t.votes > 0 THEN [t EXCEPT !.votes = @ + 1]
                   ELSE [authorize |-> authorize, votes |-> 1]

\* A vote that counts is tallied and appended to the votes.
CastVote(s, number, signer, address, authorize) ==
    IF validVote(s, address, authorize)
    THEN [s EXCEPT
            !.tally[address] = Cast(s.tally[address], authorize),
            !.votes = @ \cup {[signer |-> signer, block |-> number,
                               address |-> address, authorize |-> authorize]}]
    ELSE s

\* The address has passed: every other vote on it is closed.
CloseVotesOn(s, address) ==
    [s EXCEPT !.votes = {v \in @ : v.address # address},
              !.tally[address] = NoTally]

AddSigner(s, address) == [s EXCEPT !.signers = @ \cup {address}]

\* Mutant: the open votes of a dropped signer stay.
DropSignerKeepVotes(s, number, address) ==
    ShiftRecents([s EXCEPT !.signers = @ \ {address}], number)

\* Mutant: the window does not shrink with the signer set.
DropSignerKeepWindow(s, number, address) ==
    LET dropped == [s EXCEPT !.signers = @ \ {address}]
    IN  DiscardVotes(dropped, {v \in dropped.votes : v.signer = address})

\* A dropped signer leaves the set, the window shrinks with it, and its own
\* open votes are taken back.
DropSigner(s, number, address) ==
    LET dropped == ShiftRecents([s EXCEPT !.signers = @ \ {address}], number)
    IN  DiscardVotes(dropped, {v \in dropped.votes : v.signer = address})

\* Mutant: half of the signers suffice.
PassedByHalf(s, address) ==
    s.tally[address].votes >= Cardinality(s.signers) \div 2

Passed(s, address) ==
    s.tally[address].votes > Cardinality(s.signers) \div 2

CountVotes(s, number, address) ==
    IF ~ Passed(s, address) THEN s
    ELSE CloseVotesOn(IF s.tally[address].authorize
                      THEN AddSigner(s, address)
                      ELSE DropSigner(s, number, address),
                      address)

\* The snapshot the header is judged against: votes reset, window shifted.
Shifted(s, number) == ShiftRecents(ResetAtEpoch(s, number), number)

\* apply succeeds on the header: no errInvalidVotingChain,
\* errUnauthorizedSigner, errRecentlySigned or errInvalidVote.
Applicable(s, h) ==
    /\ h.number = s.number + 1
    /\ h.signer \in s.signers
    /\ ~ RecentlySigned(Shifted(s, h.number), h.signer)
    /\ h.nonce # NonceOther

\* The signer enters the window, its earlier vote on the coinbase is taken
\* back, and the vote of the header is cast.
Voted(s, h) ==
    LET recorded  == RecordSigner(Shifted(s, h.number), h.number, h.signer)
        discarded == DiscardVotes(recorded,
                         PreviousVote(recorded, h.signer, h.coinbase))
    IN  CastVote(discarded, h.number, h.signer, h.coinbase,
                 h.nonce = NonceAuth)

\* The snapshot apply returns for one header it accepts.
Apply(s, h) ==
    [CountVotes(Voted(s, h), h.number, h.coinbase) EXCEPT !.number = @ + 1]

-----------------------------------------------------------------------------
(***************************************************************************)
(* One chain of headers, each applied to the snapshot of its parent.  A    *)
(* header apply refuses leaves the snapshot as it was.                     *)
(***************************************************************************)
Init == snap = newSnapshot(0, GenesisSigners)

ApplyHeader(h) ==
    /\ Applicable(snap, h)
    /\ snap' = Apply(snap, h)

Next == \E h \in Header : ApplyHeader(h)

Spec == Init /\ [][Next]_snap

-----------------------------------------------------------------------------
(***************************************************************************)
(* Properties.                                                             *)
(***************************************************************************)

\* Type invariant of the snapshot (the Go struct types of Snapshot, Vote and
\* Tally).
TypeOK == snap \in Snapshot

VotesOn(s, a) == {v \in s.votes : v.address = a}

TallyCounts(s) ==
    \A a \in Address :
        /\ s.tally[a].votes = Cardinality(VotesOn(s, a))
        /\ \A v \in VotesOn(s, a) : v.authorize = s.tally[a].authorize

\* The tally and the list of votes are two records of the same thing, and
\* apply edits them by separate code: the tally of an address counts exactly
\* the open votes on it, and agrees with their direction.
TallyCountsVotes == TallyCounts(snap)

OneVoteEach(s) ==
    \A v, w \in s.votes :
        v.signer = w.signer /\ v.address = w.address => v = w

VotesLive(s) ==
    \A v \in s.votes :
        /\ v.signer \in s.signers
        /\ v.authorize <=> v.address \notin s.signers
        /\ v.block <= s.number
        /\ \A k \in (v.block + 1)..s.number : k % Epoch # 0

\* Every open vote is by a current signer, would still change the status of
\* its address, was cast since the last checkpoint, and is that signer's only vote
\* on the address (what apply's purges after a passed vote are for).
VotesAreLive == VotesLive(snap) /\ OneVoteEach(snap)

\* What apply keeps about votes, in its two records of them.
VotesExact == TypeOK /\ TallyCountsVotes /\ VotesAreLive

RecentsWindow(s) ==
    /\ \A r \in s.recents :
           /\ s.number - Limit(s.signers) < r.block
           /\ 1 <= r.block /\ r.block <= s.number
    /\ \A r, t \in s.recents :
           r.block = t.block \/ r.signer = t.signer => r = t

\* The recent signers are those of the last Limit blocks, one per block and
\* no signer twice, also when the limit has just moved with the signer set.
RecentsAreWindow == RecentsWindow(snap)

CanSign(s, a) == ~ RecentlySigned(Shifted(s, s.number + 1), a)

\* The rule against signing too often never locks all signers out: while
\* there is a signer, some signer can seal the next block.
SomeoneCanSign ==
    snap.signers # {} => \E a \in snap.signers : CanSign(snap, a)

\* The window of recent signers is exact, and never closed to all.
WindowExact == RecentsAreWindow /\ SomeoneCanSign

\* The signer set changes one address at a time, and only with votes of more
\* than half of the signers it had: the signers with an open vote of this
\* epoch on that address, and the signer of the block that tips the balance.
Sealer(s) == {r.signer : r \in {q \in s.recents : q.block = s.number}}

Voters(s, a) == {v.signer : v \in VotesOn(s, a)}

ChangeByMajority ==
    snap'.signers # snap.signers =>
        \E a \in Address :
            /\ snap'.signers \in {snap.signers \cup {a}, snap.signers \ {a}}
            /\ Cardinality(Voters(ResetAtEpoch(snap, snap'.number), a)
                               \cup Sealer(snap'))
                   > Cardinality(snap.signers) \div 2

SignersChangeByMajority == [][ChangeByMajority]_snap

=============================================================================
