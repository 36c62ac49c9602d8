------------------------ MODULE CliqueSnapshotProofs ------------------------
(***************************************************************************)
(* Proofs that applying headers keeps the clique voting snapshot           *)
(* consistent, for every address set, epoch length and chain length.       *)
(***************************************************************************)
EXTENDS CliqueSnapshot, FiniteSetTheorems, TLAPS

\* What the votes and the tally of a snapshot satisfy throughout apply, also
\* between its steps, where VotesLive may not hold.
Books(s) == s \in Snapshot /\ IsFiniteSet(s.votes) /\ TallyCounts(s)

\* The inductive invariant of the snapshots between headers.
SnapInv(s) == Books(s) /\ VotesLive(s) /\ OneVoteEach(s) /\ RecentsWindow(s)

-----------------------------------------------------------------------------
\* The number of signers and the window they give are natural numbers.
LEMMA LimitNat ==
    ASSUME NEW S \in SUBSET Address
    PROVE  /\ IsFiniteSet(S)
           /\ Cardinality(S) \in Nat
           /\ Limit(S) \in Nat /\ Limit(S) >= 1
           /\ Cardinality(S) >= 1 => Limit(S) - 1 < Cardinality(S)
<1>1. IsFiniteSet(S) /\ Cardinality(S) \in Nat
  BY AddressAssumption, FS_Subset, FS_CardinalityType
<1>. QED  BY <1>1 DEF Limit

\* The open votes on an address are finitely many.
LEMMA VotesOnFinite ==
    ASSUME NEW s, IsFiniteSet(s.votes), NEW a
    PROVE  IsFiniteSet(VotesOn(s, a)) /\ Cardinality(VotesOn(s, a)) \in Nat
BY FS_Subset, FS_CardinalityType DEF VotesOn

\* uncast takes votes off a tally, never below zero and never turning it.
LEMMA UncastTally ==
    ASSUME NEW t \in Tally, NEW k \in Nat, k <= t.votes
    PROVE  /\ Uncast(t, k) \in Tally
           /\ Uncast(t, k).votes = t.votes - k
           /\ k < t.votes => Uncast(t, k).authorize = t.authorize
<1>1. CASE k >= t.votes
  <2>1. t.votes \in Nat /\ Uncast(t, k) = NoTally
    BY <1>1 DEF Uncast, Tally
  <2>2. NoTally \in Tally /\ NoTally.votes = 0
    BY DEF NoTally, Tally
  <2>. QED  BY <1>1, <2>1, <2>2
<1>2. CASE k < t.votes
  BY <1>2 DEF Uncast, Tally
<1>. QED  BY <1>1, <1>2 DEF Tally

\* Taking votes back (uncast for each, then out of the list) keeps tally and
\* list in step and touches nothing else.
LEMMA DiscardVotesBooks ==
    ASSUME NEW s, Books(s), NEW gone \in SUBSET s.votes
    PROVE  LET t == DiscardVotes(s, gone)
           IN  /\ Books(t)
               /\ t.votes = s.votes \ gone
               /\ t.number = s.number
               /\ t.signers = s.signers
               /\ t.recents = s.recents
<1>. DEFINE t == DiscardVotes(s, gone)
            counted(a) == {v \in gone : /\ v.address = a
                                        /\ v.authorize = s.tally[a].authorize}
            out(a) == VotesOn(s, a) \cap gone
            n(a) == Cardinality(counted(a))
<1>. USE DEF Books
<1>1. /\ t.votes = s.votes \ gone
      /\ t.number = s.number
      /\ t.signers = s.signers
      /\ t.recents = s.recents
      /\ t.tally = [a \in Address |-> Uncast(s.tally[a], n(a))]
  BY DEF DiscardVotes, Snapshot
<1>. HIDE DEF t, n
<1>2. IsFiniteSet(t.votes)
  <2>1. IsFiniteSet(s.votes) /\ t.votes = s.votes \ gone
    BY <1>1
  <2>. QED  BY <2>1, FS_Difference
<1>3. ASSUME NEW a \in Address
      PROVE  /\ counted(a) = out(a)
             /\ n(a) \in Nat
             /\ n(a) <= s.tally[a].votes
             /\ Cardinality(VotesOn(t, a)) = s.tally[a].votes - n(a)
  <2>1. counted(a) = out(a)
    BY DEF TallyCounts, VotesOn
  <2>2. VotesOn(t, a) = VotesOn(s, a) \ gone
    BY <1>1 DEF VotesOn
  <2>3. IsFiniteSet(VotesOn(s, a)) /\ Cardinality(VotesOn(s, a)) \in Nat
    BY VotesOnFinite
  <2>4. IsFiniteSet(out(a)) /\ Cardinality(out(a)) <= Cardinality(VotesOn(s, a))
    BY <2>3, FS_Intersection
  <2>5. Cardinality(out(a)) \in Nat
    BY <2>4, FS_CardinalityType
  <2>6. Cardinality(VotesOn(s, a) \ gone)
            = Cardinality(VotesOn(s, a)) - Cardinality(out(a))
    BY <2>3, FS_Difference
  <2>7. s.tally[a].votes = Cardinality(VotesOn(s, a))
    BY DEF TallyCounts
  <2>. QED  BY <2>1, <2>2, <2>4, <2>5, <2>6, <2>7 DEF n
<1>4. ASSUME NEW a \in Address
      PROVE  /\ t.tally[a] \in Tally
             /\ t.tally[a].votes = s.tally[a].votes - n(a)
             /\ n(a) < s.tally[a].votes
                    => t.tally[a].authorize = s.tally[a].authorize
  <2>1. t.tally[a] = Uncast(s.tally[a], n(a)) /\ s.tally[a] \in Tally
    BY <1>1 DEF Snapshot
  <2>2. n(a) \in Nat /\ n(a) <= s.tally[a].votes
    BY <1>3
  <2>. QED  BY <2>1, <2>2, UncastTally
<1>5. t \in Snapshot
  <2>1. t.tally \in [Address -> Tally]
    BY <1>1, <1>4
  <2>2. t = [s EXCEPT !.votes = t.votes, !.tally = t.tally]
    BY <1>1 DEF t, DiscardVotes
  <2>. QED  BY <2>1, <2>2, <1>1 DEF Snapshot
<1>6. TallyCounts(t)
  <2>. SUFFICES ASSUME NEW a \in Address
                PROVE  /\ t.tally[a].votes = Cardinality(VotesOn(t, a))
                       /\ \A v \in VotesOn(t, a) :
                              v.authorize = t.tally[a].authorize
    BY DEF TallyCounts
  <2>1. t.tally[a].votes = Cardinality(VotesOn(t, a))
    BY <1>3, <1>4
  <2>2. CASE n(a) < s.tally[a].votes
    <3>1. VotesOn(t, a) \subseteq VotesOn(s, a)
      BY <1>1 DEF VotesOn
    <3>. QED  BY <2>1, <2>2, <3>1, <1>4 DEF TallyCounts
  <2>3. CASE n(a) >= s.tally[a].votes
    <3>1. s.tally[a].votes \in Nat
      BY DEF Snapshot, Tally
    <3>2. Cardinality(VotesOn(t, a)) = 0
      BY <1>3, <2>3, <3>1
    <3>3. VotesOn(t, a) = {}
      BY <3>2, <1>2, VotesOnFinite, FS_EmptySet
    <3>. QED  BY <2>1, <3>3
  <2>4. n(a) \in Nat /\ s.tally[a].votes \in Nat
    BY <1>3 DEF Snapshot, Tally
  <2>. QED  BY <2>2, <2>3, <2>4
<1>. QED  BY <1>1, <1>2, <1>5, <1>6 DEF t

-----------------------------------------------------------------------------
(***************************************************************************)
(* The steps of apply before a vote is counted.                            *)
(***************************************************************************)

\* VotesLive as it holds inside apply for header number n, before the
\* snapshot's own number is advanced.
LiveAt(s, n) ==
    \A v \in s.votes :
        /\ v.signer \in s.signers
        /\ v.authorize <=> v.address \notin s.signers
        /\ v.block <= n
        /\ \A k \in (v.block + 1)..n : k % Epoch # 0

\* Emptying votes and tally at a checkpoint keeps them in step.
LEMMA ResetBooks ==
    ASSUME NEW s, Books(s), NEW n
    PROVE  LET t == ResetAtEpoch(s, n)
           IN  /\ Books(t)
               /\ t.number = s.number /\ t.signers = s.signers
               /\ t.recents = s.recents
               /\ t.votes \subseteq s.votes
               /\ n % Epoch = 0 => t.votes = {}
<1>. DEFINE t == ResetAtEpoch(s, n)
<1>1. CASE n % Epoch # 0
  BY <1>1 DEF ResetAtEpoch
<1>2. CASE n % Epoch = 0
  <2>1. /\ t.votes = {} /\ t.tally = [a \in Address |-> NoTally]
        /\ t.number = s.number /\ t.signers = s.signers
        /\ t.recents = s.recents
        /\ t \in Snapshot
    BY <1>2 DEF ResetAtEpoch, Books, Snapshot, NoTally, Tally
  <2>. HIDE DEF t
  <2>2. IsFiniteSet(t.votes)
    BY <2>1, FS_EmptySet
  <2>3. TallyCounts(t)
    <3>1. \A a : VotesOn(t, a) = {}
      BY <2>1 DEF VotesOn
    <3>2. Cardinality({}) = 0
      BY FS_EmptySet
    <3>3. \A a \in Address : t.tally[a].votes = 0
      BY <2>1 DEF NoTally
    <3>. QED  BY <3>1, <3>2, <3>3 DEF TallyCounts
  <2>. QED  BY <2>1, <2>2, <2>3 DEF Books, t
<1>. QED  BY <1>1, <1>2

\* Shifting the window touches only the recent signers.
LEMMA ShiftBooks ==
    ASSUME NEW s, Books(s), NEW n \in Nat
    PROVE  LET t == ShiftRecents(s, n)
           IN  /\ Books(t)
               /\ t.number = s.number /\ t.signers = s.signers
               /\ t.votes = s.votes /\ t.tally = s.tally
               /\ t.recents \subseteq s.recents
               /\ \A r \in s.recents :
                      r \notin t.recents <=> r.block = n - Limit(s.signers)
<1>. DEFINE t == ShiftRecents(s, n)
<1>1. /\ t \in Snapshot
      /\ t.number = s.number /\ t.signers = s.signers
      /\ t.votes = s.votes /\ t.tally = s.tally
      /\ t.recents \subseteq s.recents
  BY DEF ShiftRecents, Books, Snapshot
<1>2. \A r \in s.recents :
          r \notin t.recents <=> r.block = n - Limit(s.signers)
  <2>1. Limit(s.signers) \in Nat
    BY LimitNat DEF Books, Snapshot
  <2>2. \A r \in s.recents : r.block \in Nat
    BY DEF Books, Snapshot
  <2>3. CASE n >= Limit(s.signers)
    BY <2>3 DEF ShiftRecents, Books, Snapshot
  <2>4. CASE n < Limit(s.signers)
    BY <2>1, <2>2, <2>4 DEF ShiftRecents
  <2>. QED  BY <2>1, <2>3, <2>4
<1>3. Books(t)
  BY <1>1 DEF Books, TallyCounts, VotesOn
<1>. QED  BY <1>1, <1>2, <1>3

\* Judging header n = number + 1: votes of the closed epoch are gone, the
\* others live on, and the window has room for one more block.
LEMMA ShiftedInv ==
    ASSUME NEW s, SnapInv(s)
    PROVE  LET n == s.number + 1
               t == Shifted(s, n)
           IN  /\ Books(t) /\ LiveAt(t, n) /\ OneVoteEach(t)
               /\ t.number = s.number /\ t.signers = s.signers
               /\ t.votes = ResetAtEpoch(s, n).votes
               /\ \A v \in t.votes : v.block < n
               /\ t.recents \subseteq s.recents
               /\ \A r \in t.recents : /\ n - Limit(t.signers) < r.block
                                       /\ 1 <= r.block /\ r.block < n
<1>. DEFINE n == s.number + 1
            u == ResetAtEpoch(s, n)
            t == ShiftRecents(u, n)
<1>1. s.number \in Nat /\ n \in Nat /\ Books(s)
  BY DEF SnapInv, Books, Snapshot
<1>2. /\ Books(u) /\ u.number = s.number /\ u.signers = s.signers
      /\ u.recents = s.recents /\ u.votes \subseteq s.votes
      /\ n % Epoch = 0 => u.votes = {}
  BY <1>1, ResetBooks
<1>. HIDE DEF u
<1>3. /\ Books(t) /\ t.number = u.number /\ t.signers = u.signers
      /\ t.votes = u.votes /\ t.recents \subseteq u.recents
      /\ \A r \in u.recents :
             r \notin t.recents <=> r.block = n - Limit(u.signers)
  BY <1>1, <1>2, ShiftBooks
<1>. HIDE DEF t
<1>4. \A v \in s.votes : v.block \in Nat
  BY <1>1 DEF Books, Snapshot, Vote
<1>5. \A r \in s.recents : r.block \in Nat
  BY <1>1 DEF Books, Snapshot
<1>6. Limit(s.signers) \in Nat
  BY <1>1, LimitNat DEF Books, Snapshot
<1>7. \A v \in t.votes : v.block < n
  BY <1>1, <1>2, <1>3, <1>4 DEF SnapInv, VotesLive
<1>8. LiveAt(t, n)
  <2>. SUFFICES ASSUME NEW v \in t.votes
                PROVE  /\ v.signer \in t.signers
                       /\ v.authorize <=> v.address \notin t.signers
                       /\ v.block <= n
                       /\ \A k \in (v.block + 1)..n : k % Epoch # 0
    BY DEF LiveAt
  <2>1. v \in s.votes /\ n % Epoch # 0
    BY <1>2, <1>3
  <2>2. \A k \in (v.block + 1)..s.number : k % Epoch # 0
    BY <2>1 DEF SnapInv, VotesLive
  <2>3. \A k \in (v.block + 1)..n : k \in (v.block + 1)..s.number \/ k = n
    BY <1>1, <1>4, <2>1
  <2>. QED  BY <1>2, <1>3, <1>7, <2>1, <2>2, <2>3, <1>1, <1>4
            DEF SnapInv, VotesLive
<1>9. OneVoteEach(t)
  BY <1>2, <1>3 DEF SnapInv, OneVoteEach
<1>10. \A r \in t.recents : /\ n - Limit(t.signers) < r.block
                           /\ 1 <= r.block /\ r.block < n
  <2>. SUFFICES ASSUME NEW r \in t.recents
                PROVE  /\ n - Limit(t.signers) < r.block
                       /\ 1 <= r.block /\ r.block < n
    OBVIOUS
  <2>1. r \in s.recents /\ r.block # n - Limit(s.signers)
    BY <1>2, <1>3
  <2>2. /\ s.number - Limit(s.signers) < r.block
        /\ 1 <= r.block /\ r.block <= s.number
    BY <2>1 DEF SnapInv, RecentsWindow
  <2>. QED  BY <1>1, <1>2, <1>3, <1>5, <1>6, <2>1, <2>2
<1>11. t = Shifted(s, n)
  BY DEF t, u, Shifted
<1>. QED  BY <1>2, <1>3, <1>7, <1>8, <1>9, <1>10, <1>11 DEF u

\* At most Limit - 1 signers are barred from the next block, fewer than there
\* are signers.
LEMMA WindowLeavesSigner ==
    ASSUME NEW s, SnapInv(s), s.signers # {}
    PROVE  \E a \in s.signers : CanSign(s, a)
<1>. DEFINE n == s.number + 1
            t == Shifted(s, n)
            lim == Limit(s.signers)
            lo == IF n + 1 - lim >= 1 THEN n + 1 - lim ELSE 1
            barred == {r.signer : r \in t.recents}
            blocks == {r.block : r \in t.recents}
            at(b) == CHOOSE a \in Address :
                         [block |-> b, signer |-> a] \in t.recents
            by == [b \in blocks |-> at(b)]
<1>1. /\ t.signers = s.signers /\ t.recents \subseteq s.recents
      /\ \A r \in t.recents : /\ n - lim < r.block
                              /\ 1 <= r.block /\ r.block < n
  BY ShiftedInv
<1>2. s \in Snapshot /\ s.number \in Nat /\ n \in Nat
  BY DEF SnapInv, Books, Snapshot
<1>3. /\ IsFiniteSet(s.signers) /\ Cardinality(s.signers) \in Nat
      /\ lim \in Nat /\ lim >= 1
      /\ Cardinality(s.signers) >= 1 => lim - 1 < Cardinality(s.signers)
  BY <1>2, LimitNat DEF Snapshot
<1>. HIDE DEF t, lim
<1>4. \A r \in t.recents : /\ r.block \in Nat /\ r.signer \in Address
                           /\ r = [block |-> r.block, signer |-> r.signer]
  BY <1>1, <1>2 DEF Snapshot
<1>5. \A r, q \in t.recents : r.block = q.block => r = q
  BY <1>1 DEF SnapInv, RecentsWindow
<1>6. IsFiniteSet(blocks) /\ Cardinality(blocks) <= lim - 1
  <2>1. blocks \subseteq lo..s.number
    BY <1>1, <1>2, <1>3, <1>4
  <2>2. lo \in Int /\ s.number - lo + 1 <= lim - 1 /\ 0 <= lim - 1
    BY <1>2, <1>3
  <2>. HIDE DEF lo
  <2>3. /\ IsFiniteSet(lo..s.number)
        /\ Cardinality(lo..s.number) =
              IF lo > s.number THEN 0 ELSE s.number - lo + 1
    <3>1. lo \in Int /\ s.number \in Int
      BY <1>2, <2>2
    <3>. QED  BY <3>1, FS_Interval
  <2>4. Cardinality(lo..s.number) <= lim - 1
    BY <1>2, <2>2, <2>3
  <2>5. /\ IsFiniteSet(blocks)
        /\ Cardinality(blocks) <= Cardinality(lo..s.number)
    BY <2>1, <2>3, FS_Subset
  <2>6. Cardinality(blocks) \in Nat /\ Cardinality(lo..s.number) \in Nat
    BY <2>3, <2>5, FS_CardinalityType
  <2>. QED  BY <2>4, <2>5, <2>6, <1>3
<1>7. by \in Surjection(blocks, barred)
  <2>1. ASSUME NEW r \in t.recents
        PROVE  at(r.block) = r.signer
    <3>1. /\ r.block \in blocks /\ r.signer \in Address
          /\ [block |-> r.block, signer |-> r.signer] \in t.recents
      BY <1>4
    <3>2. ASSUME NEW a \in Address, [block |-> r.block, signer |-> a] \in t.recents
          PROVE  a = r.signer
      BY <1>5, <3>2
    <3>. QED  BY <3>1, <3>2
  <2>. HIDE DEF at
  <2>2. by \in [blocks -> barred]
    BY <2>1
  <2>3. \A a \in barred : \E b \in blocks : by[b] = a
    BY <2>1
  <2>. QED  BY <2>2, <2>3 DEF Surjection
<1>. HIDE DEF by
<1>8. IsFiniteSet(barred) /\ Cardinality(barred) <= Cardinality(blocks)
  BY <1>6, <1>7, FS_Surjection
<1>9. Cardinality(s.signers) >= 1
  BY <1>3, FS_EmptySet
<1>10. ~ (s.signers \subseteq barred)
  <2>1. ASSUME s.signers \subseteq barred PROVE FALSE
    <3>1. Cardinality(s.signers) <= Cardinality(barred)
      BY <1>8, <2>1, FS_Subset
    <3>2. Cardinality(barred) \in Nat /\ Cardinality(blocks) \in Nat
      BY <1>6, <1>8, FS_CardinalityType
    <3>. QED  BY <1>3, <1>6, <1>8, <1>9, <3>1, <3>2
  <2>. QED  BY <2>1
<1>11. PICK a \in s.signers : a \notin barred
  BY <1>10
<1>12. CanSign(s, a)
  BY <1>11 DEF CanSign, RecentlySigned, t
<1>. QED  BY <1>12

-----------------------------------------------------------------------------
(***************************************************************************)
(* Casting the vote of a header.                                           *)
(***************************************************************************)

\* A vote cast in a new block by a signer without a vote on the address keeps
\* the books.
LEMMA CastBooks ==
    ASSUME NEW s, Books(s), NEW n \in Nat, LiveAt(s, n), OneVoteEach(s),
           \A v \in s.votes : v.block < n,
           NEW g \in s.signers, NEW a \in Address, NEW auth \in BOOLEAN,
           \A v \in s.votes : ~ (v.signer = g /\ v.address = a)
    PROVE  LET t == CastVote(s, n, g, a, auth)
           IN  /\ Books(t) /\ LiveAt(t, n) /\ OneVoteEach(t)
               /\ t.number = s.number /\ t.signers = s.signers
               /\ t.recents = s.recents
               /\ \A v \in t.votes : v \in s.votes \/ v.signer = g
<1>. DEFINE t == CastVote(s, n, g, a, auth)
            new == [signer |-> g, block |-> n, address |-> a, authorize |-> auth]
            old == s.tally[a]
            entry == Cast(old, auth)
<1>1. CASE ~ validVote(s, a, auth)
  BY <1>1 DEF CastVote
<1>2. CASE validVote(s, a, auth)
  <2>1. s \in Snapshot /\ old \in Tally /\ g \in Address /\ new \in Vote
    BY DEF Books, Snapshot, Vote
  <2>2. entry \in Tally /\ entry.votes = old.votes + 1
    BY <2>1 DEF Tally, Cast
  <2>3. /\ t.number = s.number /\ t.signers = s.signers
        /\ t.recents = s.recents
        /\ t.votes = s.votes \cup {new}
        /\ t.tally = [s.tally EXCEPT ![a] = entry]
    <3>1. t = [s EXCEPT !.tally = [s.tally EXCEPT ![a] = entry],
                        !.votes = s.votes \cup {new}]
      BY <1>2 DEF CastVote
    <3>. HIDE DEF t, entry, new
    <3>. QED  BY <2>1, <3>1 DEF Snapshot
  <2>4. t \in Snapshot
    <3>1. t.tally \in [Address -> Tally]
      BY <2>1, <2>2, <2>3 DEF Snapshot
    <3>2. t = [s EXCEPT !.votes = t.votes, !.tally = t.tally]
      BY <1>2, <2>3 DEF CastVote, Snapshot
    <3>. HIDE DEF t, new
    <3>. QED  BY <2>1, <2>3, <3>1, <3>2 DEF Snapshot
  <2>5. new \notin s.votes
    OBVIOUS
  <2>6. auth <=> a \notin s.signers
    BY <1>2 DEF validVote
  <2>. HIDE DEF t, entry
  <2>7. IsFiniteSet(t.votes)
    <3>1. IsFiniteSet(s.votes)
      BY DEF Books
    <3>. QED  BY <2>3, <3>1, FS_AddElement
  <2>8. entry.authorize = auth
    <3>1. CASE old.votes > 0
      <4>1. VotesOn(s, a) # {}
        <5>1. Cardinality(VotesOn(s, a)) = old.votes
          BY DEF Books, TallyCounts
        <5>. QED  BY <3>1, <5>1, FS_EmptySet
      <4>2. PICK v \in VotesOn(s, a) : TRUE
        BY <4>1
      <4>3. v \in s.votes /\ v.address = a /\ v.authorize = old.authorize
        BY <4>2 DEF Books, TallyCounts, VotesOn
      <4>4. v.authorize <=> a \notin s.signers
        BY <4>3 DEF LiveAt
      <4>5. v.authorize \in BOOLEAN
        BY <2>1, <4>3 DEF Snapshot, Vote
      <4>6. entry.authorize = old.authorize
        BY <3>1, <2>1 DEF entry, Cast, Tally
      <4>. QED  BY <2>6, <4>3, <4>4, <4>5, <4>6
    <3>2. CASE ~ (old.votes > 0)
      BY <3>2 DEF entry, Cast
    <3>. QED  BY <3>1, <3>2
  <2>9. TallyCounts(t)
    <3>. SUFFICES ASSUME NEW b \in Address
                  PROVE  /\ t.tally[b].votes = Cardinality(VotesOn(t, b))
                         /\ \A v \in VotesOn(t, b) :
                                v.authorize = t.tally[b].authorize
      BY DEF TallyCounts
    <3>1. /\ s.tally[b].votes = Cardinality(VotesOn(s, b))
          /\ \A v \in VotesOn(s, b) : v.authorize = s.tally[b].authorize
      BY DEF Books, TallyCounts
    <3>2. CASE b # a
      <4>1. VotesOn(t, b) = VotesOn(s, b)
        BY <2>3, <3>2 DEF VotesOn
      <4>2. t.tally[b] = s.tally[b]
        BY <2>1, <2>3, <3>2 DEF Snapshot
      <4>. QED  BY <3>1, <4>1, <4>2
    <3>3. CASE b = a
      <4>1. VotesOn(t, a) = VotesOn(s, a) \cup {new} /\ new \notin VotesOn(s, a)
        BY <2>3, <2>5 DEF VotesOn
      <4>2. t.tally[a] = entry
        BY <2>1, <2>3 DEF Snapshot
      <4>3. IsFiniteSet(VotesOn(s, a))
        BY VotesOnFinite DEF Books
      <4>4. Cardinality(VotesOn(t, a)) = Cardinality(VotesOn(s, a)) + 1
        BY <4>1, <4>3, FS_AddElement
      <4>5. \A v \in VotesOn(s, a) : v.authorize = auth
        <5>1. ASSUME NEW v \in VotesOn(s, a) PROVE v.authorize = auth
          <6>1. v \in s.votes /\ v.address = a
            BY DEF VotesOn
          <6>2. v.authorize <=> a \notin s.signers
            BY <6>1 DEF LiveAt
          <6>3. v.authorize \in BOOLEAN
            BY <2>1, <6>1 DEF Snapshot, Vote
          <6>. QED  BY <2>6, <6>2, <6>3
        <5>. QED  BY <5>1
      <4>. QED  BY <2>2, <2>8, <3>1, <3>3, <4>1, <4>2, <4>4, <4>5
    <3>. QED  BY <3>2, <3>3
  <2>10. LiveAt(t, n)
    <3>. SUFFICES ASSUME NEW v \in t.votes
                  PROVE  /\ v.signer \in t.signers
                         /\ v.authorize <=> v.address \notin t.signers
                         /\ v.block <= n
                         /\ \A k \in (v.block + 1)..n : k % Epoch # 0
      BY DEF LiveAt
    <3>1. CASE v = new
      <4>1. (n + 1)..n = {}
        OBVIOUS
      <4>. QED  BY <2>3, <2>6, <3>1, <4>1
    <3>2. CASE v \in s.votes
      BY <2>3, <3>2 DEF LiveAt
    <3>. QED  BY <2>3, <3>1, <3>2
  <2>11. OneVoteEach(t)
    BY <2>3 DEF OneVoteEach
  <2>. QED  BY <2>3, <2>4, <2>7, <2>9, <2>10, <2>11 DEF Books, t
<1>. QED  BY <1>1, <1>2

\* The recent signers as they stand inside apply for header n.
WindowAt(s, n) ==
    /\ \A r \in s.recents : /\ n - Limit(s.signers) < r.block
                            /\ 1 <= r.block /\ r.block <= n
    /\ \A r, q \in s.recents :
           r.block = q.block \/ r.signer = q.signer => r = q

\* After the vote of the header is cast: votes and tally agree, votes are
\* live, the signer is in the window, and no vote appeared but the signer's.
LEMMA VotedInv ==
    ASSUME NEW s, SnapInv(s), NEW h \in Header, Applicable(s, h)
    PROVE  LET t == Voted(s, h)
           IN  /\ Books(t) /\ LiveAt(t, h.number) /\ OneVoteEach(t)
               /\ WindowAt(t, h.number)
               /\ t.number = s.number /\ t.signers = s.signers
               /\ [block |-> h.number, signer |-> h.signer] \in t.recents
               /\ \A v \in t.votes : \/ v \in ResetAtEpoch(s, h.number).votes
                                     \/ v.signer = h.signer
<1>. DEFINE n == h.number
            seal == [block |-> n, signer |-> h.signer]
            u == Shifted(s, n)
            r == RecordSigner(u, n, h.signer)
            prev == PreviousVote(r, h.signer, h.coinbase)
            d == DiscardVotes(r, prev)
            auth == h.nonce = NonceAuth
            t == CastVote(d, n, h.signer, h.coinbase, auth)
<1>1. /\ n \in Nat /\ n = s.number + 1 /\ h.signer \in Address
      /\ h.coinbase \in Address /\ h.signer \in s.signers
      /\ ~ RecentlySigned(u, h.signer)
  BY MaxNumberAssumption DEF Header, Applicable
<1>2. /\ Books(u) /\ LiveAt(u, n) /\ OneVoteEach(u)
      /\ u.number = s.number /\ u.signers = s.signers
      /\ u.votes = ResetAtEpoch(s, n).votes
      /\ \A v \in u.votes : v.block < n
      /\ u.recents \subseteq s.recents
      /\ \A q \in u.recents : /\ n - Limit(u.signers) < q.block
                              /\ 1 <= q.block /\ q.block < n
  BY <1>1, ShiftedInv
<1>. HIDE DEF n, u
<1>3. /\ r \in Snapshot
      /\ r.number = u.number /\ r.signers = u.signers
      /\ r.votes = u.votes /\ r.tally = u.tally
      /\ r.recents = u.recents \cup {seal}
  BY <1>1, <1>2 DEF RecordSigner, Books, Snapshot
<1>. HIDE DEF r
<1>4. Books(r) /\ LiveAt(r, n) /\ OneVoteEach(r)
  <2>1. Books(r)
    BY <1>2, <1>3 DEF Books, TallyCounts, VotesOn
  <2>2. LiveAt(r, n)
    BY <1>2, <1>3 DEF LiveAt
  <2>3. OneVoteEach(r)
    BY <1>2, <1>3 DEF OneVoteEach
  <2>. QED  BY <2>1, <2>2, <2>3
<1>5. WindowAt(r, n)
  <2>1. Limit(r.signers) \in Nat /\ Limit(r.signers) >= 1
    BY <1>3, LimitNat DEF Snapshot
  <2>2. \A q \in u.recents : q.block \in Nat /\ q.signer # h.signer
    BY <1>1, <1>2 DEF Books, Snapshot, RecentlySigned
  <2>3. \A q \in r.recents : /\ n - Limit(r.signers) < q.block
                             /\ 1 <= q.block /\ q.block <= n
    BY <1>1, <1>2, <1>3, <2>1, <2>2 DEF SnapInv, Books, Snapshot
  <2>4. \A q, x \in u.recents :
            q.block = x.block \/ q.signer = x.signer => q = x
    BY <1>2 DEF SnapInv, RecentsWindow
  <2>5. \A q \in u.recents : q.block # n /\ q.signer # h.signer
    BY <1>1, <1>2, <2>2
  <2>6. \A q, x \in r.recents :
            q.block = x.block \/ q.signer = x.signer => q = x
    BY <1>3, <2>4, <2>5
  <2>. QED  BY <2>3, <2>6 DEF WindowAt
<1>6. /\ prev \subseteq r.votes
      /\ \A v \in r.votes :
             v.signer = h.signer /\ v.address = h.coinbase => v \in prev
  <2>1. \A v \in r.votes : v.block \in Nat
    BY <1>3 DEF Snapshot, Vote
  <2>. QED  BY <1>4, <2>1 DEF PreviousVote, OneVoteEach
<1>. HIDE DEF prev
<1>7. /\ Books(d) /\ d.votes = r.votes \ prev
      /\ d.number = r.number /\ d.signers = r.signers
      /\ d.recents = r.recents
  BY <1>4, <1>6, DiscardVotesBooks
<1>. HIDE DEF d
<1>8. /\ LiveAt(d, n) /\ OneVoteEach(d)
      /\ \A v \in d.votes : v.block < n
      /\ \A v \in d.votes : ~ (v.signer = h.signer /\ v.address = h.coinbase)
      /\ h.signer \in d.signers
  BY <1>1, <1>2, <1>3, <1>4, <1>6, <1>7 DEF LiveAt, OneVoteEach
<1>9. auth \in BOOLEAN
  OBVIOUS
<1>. HIDE DEF auth
<1>10. /\ Books(t) /\ LiveAt(t, n) /\ OneVoteEach(t)
       /\ t.number = d.number /\ t.signers = d.signers
       /\ t.recents = d.recents
       /\ \A v \in t.votes : v \in d.votes \/ v.signer = h.signer
  BY <1>1, <1>7, <1>8, <1>9, CastBooks
<1>. HIDE DEF t
<1>11. WindowAt(t, n)
  BY <1>5, <1>7, <1>10 DEF WindowAt
<1>12. t = Voted(s, h)
  BY DEF t, auth, d, prev, r, u, n, Voted
<1>13. \A v \in t.votes : \/ v \in ResetAtEpoch(s, n).votes
                          \/ v.signer = h.signer
  BY <1>2, <1>3, <1>7, <1>10
<1>14. seal \in t.recents
  BY <1>3, <1>7, <1>10
<1>. QED  BY <1>2, <1>3, <1>7, <1>10, <1>11, <1>12, <1>13, <1>14 DEF n

-----------------------------------------------------------------------------
(***************************************************************************)
(* Counting the votes: a passed vote changes the signer set.               *)
(***************************************************************************)

\* The books do not mention the signer set.
LEMMA SignersBooks ==
    ASSUME NEW s, Books(s), NEW S \in SUBSET Address
    PROVE  LET t == [s EXCEPT !.signers = S]
           IN  /\ Books(t) /\ t.signers = S
               /\ t.number = s.number /\ t.recents = s.recents
               /\ t.votes = s.votes /\ t.tally = s.tally
<1>. DEFINE t == [s EXCEPT !.signers = S]
<1>1. /\ t \in Snapshot /\ t.signers = S
      /\ t.number = s.number /\ t.recents = s.recents
      /\ t.votes = s.votes /\ t.tally = s.tally
  BY DEF Books, Snapshot
<1>. HIDE DEF t
<1>2. Books(t)
  BY <1>1 DEF Books, TallyCounts, VotesOn
<1>. QED  BY <1>1, <1>2 DEF t

\* Closing the votes on an address empties its tally and its votes together.
LEMMA CloseBooks ==
    ASSUME NEW s, Books(s), NEW a \in Address
    PROVE  LET t == CloseVotesOn(s, a)
           IN  /\ Books(t) /\ t.signers = s.signers
               /\ t.number = s.number /\ t.recents = s.recents
               /\ t.votes = {v \in s.votes : v.address # a}
<1>. DEFINE t == CloseVotesOn(s, a)
<1>1. /\ t \in Snapshot /\ t.signers = s.signers
      /\ t.number = s.number /\ t.recents = s.recents
      /\ t.votes = {v \in s.votes : v.address # a}
      /\ t.tally = [s.tally EXCEPT ![a] = NoTally]
  BY DEF CloseVotesOn, Books, Snapshot, NoTally, Tally
<1>. HIDE DEF t
<1>2. IsFiniteSet(t.votes)
  BY <1>1, FS_Subset DEF Books
<1>3. TallyCounts(t)
  <2>. SUFFICES ASSUME NEW b \in Address
                PROVE  /\ t.tally[b].votes = Cardinality(VotesOn(t, b))
                       /\ \A v \in VotesOn(t, b) :
                              v.authorize = t.tally[b].authorize
    BY DEF TallyCounts
  <2>1. CASE b = a
    <3>1. VotesOn(t, b) = {}
      BY <1>1, <2>1 DEF VotesOn
    <3>2. t.tally[b].votes = 0
      BY <1>1, <2>1 DEF NoTally, Books, Snapshot
    <3>. QED  BY <3>1, <3>2, FS_EmptySet
  <2>2. CASE b # a
    <3>1. VotesOn(t, b) = VotesOn(s, b)
      BY <1>1, <2>2 DEF VotesOn
    <3>2. t.tally[b] = s.tally[b]
      BY <1>1, <2>2 DEF Books, Snapshot
    <3>. QED  BY <3>1, <3>2 DEF Books, TallyCounts
  <2>. QED  BY <2>1, <2>2
<1>. QED  BY <1>1, <1>2, <1>3 DEF Books, t

\* Counting the votes of header n keeps votes live and the window right, and
\* changes at most the membership of the header's coinbase.
LEMMA CountedInv ==
    ASSUME NEW s, NEW n \in Nat, NEW a \in Address,
           Books(s), LiveAt(s, n), OneVoteEach(s), WindowAt(s, n)
    PROVE  LET t == CountVotes(s, n, a)
           IN  /\ Books(t) /\ LiveAt(t, n) /\ OneVoteEach(t) /\ WindowAt(t, n)
               /\ t.number = s.number
               /\ t.signers \in {s.signers, s.signers \cup {a}, s.signers \ {a}}
               /\ ~ Passed(s, a) => t.signers = s.signers
               /\ \A r \in s.recents : r.block = n => r \in t.recents
<1>. DEFINE t == CountVotes(s, n, a)
<1>1. CASE ~ Passed(s, a)
  BY <1>1 DEF CountVotes
<1>2. CASE Passed(s, a) /\ s.tally[a].authorize
  <2>. DEFINE S == s.signers \cup {a}
              u == AddSigner(s, a)
  <2>1. S \in SUBSET Address /\ s.signers \in SUBSET Address
    BY DEF Books, Snapshot
  <2>2. u = [s EXCEPT !.signers = S]
    BY DEF AddSigner
  <2>3. /\ Books(u) /\ u.signers = S
        /\ u.number = s.number /\ u.recents = s.recents /\ u.votes = s.votes
    BY <2>1, <2>2, SignersBooks
  <2>4. t = CloseVotesOn(u, a)
    BY <1>2 DEF CountVotes
  <2>. HIDE DEF u, S, t
  <2>5. /\ Books(t) /\ t.signers = S
        /\ t.number = s.number /\ t.recents = s.recents
        /\ t.votes = {v \in s.votes : v.address # a}
    BY <2>3, <2>4, CloseBooks
  <2>6. LiveAt(t, n) /\ OneVoteEach(t)
    BY <2>5 DEF LiveAt, OneVoteEach, S
  <2>7. Limit(s.signers) \in Nat /\ Limit(S) \in Nat /\ Limit(S) >= Limit(s.signers)
    <3>1. /\ IsFiniteSet(s.signers) /\ Cardinality(s.signers) \in Nat
          /\ Cardinality(S) \in Nat
      BY <2>1, LimitNat
    <3>2. Cardinality(S) \in {Cardinality(s.signers), Cardinality(s.signers) + 1}
      BY <3>1, FS_AddElement DEF S
    <3>. QED  BY <3>1, <3>2 DEF Limit
  <2>8. \A r \in s.recents : r.block \in Nat
    BY DEF Books, Snapshot
  <2>9. WindowAt(t, n)
    BY <2>5, <2>7, <2>8 DEF WindowAt
  <2>. QED  BY <1>2, <2>5, <2>6, <2>9 DEF S, t
<1>3. CASE Passed(s, a) /\ ~ s.tally[a].authorize
  <2>. DEFINE S == s.signers \ {a}
              w == [s EXCEPT !.signers = S]
              u == ShiftRecents(w, n)
              out == {v \in u.votes : v.signer = a}
              d == DiscardVotes(u, out)
  <2>1. S \in SUBSET Address /\ s.signers \in SUBSET Address
    BY DEF Books, Snapshot
  <2>2. /\ Books(w) /\ w.signers = S
        /\ w.number = s.number /\ w.recents = s.recents /\ w.votes = s.votes
    BY <2>1, SignersBooks
  <2>3. t = CloseVotesOn(d, a)
    BY <1>3 DEF CountVotes, DropSigner
  <2>. HIDE DEF S, w, t
  <2>4. /\ Books(u) /\ u.signers = S
        /\ u.number = s.number /\ u.votes = s.votes
        /\ u.recents \subseteq s.recents
        /\ \A r \in s.recents : r \notin u.recents <=> r.block = n - Limit(S)
    BY <2>2, ShiftBooks
  <2>. HIDE DEF u
  <2>5. /\ Books(d) /\ d.signers = S
        /\ d.number = s.number /\ d.recents = u.recents
        /\ d.votes = s.votes \ out
    BY <2>4, DiscardVotesBooks
  <2>. HIDE DEF d
  <2>6. /\ Books(t) /\ t.signers = S
        /\ t.number = s.number /\ t.recents = u.recents
        /\ t.votes = {v \in d.votes : v.address # a}
    BY <2>3, <2>5, CloseBooks
  <2>7. LiveAt(t, n) /\ OneVoteEach(t)
    <3>1. \A v \in t.votes : v \in s.votes /\ v.address # a /\ v.signer # a
      BY <2>4, <2>5, <2>6
    <3>. QED  BY <2>6, <3>1 DEF LiveAt, OneVoteEach, S
  <2>8. /\ Limit(s.signers) \in Nat /\ Limit(S) \in Nat /\ Limit(S) >= 1
        /\ Limit(S) + 1 >= Limit(s.signers)
    <3>1. /\ IsFiniteSet(s.signers) /\ Cardinality(s.signers) \in Nat
          /\ Cardinality(S) \in Nat
      BY <2>1, LimitNat
    <3>2. Cardinality(S) \in {Cardinality(s.signers), Cardinality(s.signers) - 1}
      BY <3>1, FS_RemoveElement DEF S
    <3>. QED  BY <3>1, <3>2 DEF Limit
  <2>9. \A r \in s.recents : r.block \in Nat
    BY DEF Books, Snapshot
  <2>10. WindowAt(t, n)
    <3>1. \A r \in t.recents : r \in s.recents /\ r.block # n - Limit(S)
      BY <2>4, <2>6
    <3>2. \A r \in t.recents : /\ n - Limit(t.signers) < r.block
                              /\ 1 <= r.block /\ r.block <= n
      BY <3>1, <2>6, <2>8, <2>9 DEF WindowAt
    <3>. QED  BY <3>1, <3>2 DEF WindowAt
  <2>11. \A r \in s.recents : r.block = n => r \in t.recents
    BY <2>4, <2>6, <2>8
  <2>. QED  BY <1>3, <2>6, <2>7, <2>10, <2>11 DEF S, t
<1>. QED  BY <1>1, <1>2, <1>3

-----------------------------------------------------------------------------
(***************************************************************************)
(* The theorems.                                                           *)
(***************************************************************************)

\* apply takes a consistent snapshot and a header it accepts to a consistent
\* snapshot.
LEMMA ApplyInv ==
    ASSUME NEW s, SnapInv(s), NEW h \in Header, Applicable(s, h)
    PROVE  /\ SnapInv(Apply(s, h))
           /\ Apply(s, h).number = s.number + 1
           /\ [block |-> h.number, signer |-> h.signer] \in Apply(s, h).recents
           /\ Apply(s, h).signers \in {s.signers, s.signers \cup {h.coinbase},
                                       s.signers \ {h.coinbase}}
           /\ ~ Passed(Voted(s, h), h.coinbase) => Apply(s, h).signers = s.signers
<1>. DEFINE n == h.number
            v == Voted(s, h)
            c == CountVotes(v, n, h.coinbase)
            t == [c EXCEPT !.number = @ + 1]
<1>1. n \in Nat /\ n = s.number + 1 /\ h.coinbase \in Address /\ s.number \in Nat
  BY MaxNumberAssumption DEF Header, Applicable, SnapInv, Books, Snapshot
<1>2. /\ Books(v) /\ LiveAt(v, n) /\ OneVoteEach(v) /\ WindowAt(v, n)
      /\ v.number = s.number /\ v.signers = s.signers
      /\ [block |-> n, signer |-> h.signer] \in v.recents
  BY VotedInv
<1>. HIDE DEF v, n
<1>3. /\ Books(c) /\ LiveAt(c, n) /\ OneVoteEach(c) /\ WindowAt(c, n)
      /\ c.number = v.number
      /\ c.signers \in {v.signers, v.signers \cup {h.coinbase},
                        v.signers \ {h.coinbase}}
      /\ ~ Passed(v, h.coinbase) => c.signers = v.signers
      /\ \A r \in v.recents : r.block = n => r \in c.recents
  BY <1>1, <1>2, CountedInv
<1>. HIDE DEF c
<1>4. /\ t \in Snapshot /\ t.number = n
      /\ t.signers = c.signers /\ t.recents = c.recents
      /\ t.votes = c.votes /\ t.tally = c.tally
  BY <1>1, <1>2, <1>3 DEF Books, Snapshot
<1>5. t = Apply(s, h)
  BY DEF Apply, c, v, n
<1>. HIDE DEF t
<1>6. Books(t)
  BY <1>3, <1>4 DEF Books, TallyCounts, VotesOn
<1>7. VotesLive(t) /\ OneVoteEach(t)
  BY <1>3, <1>4 DEF LiveAt, VotesLive, OneVoteEach
<1>8. RecentsWindow(t)
  BY <1>3, <1>4 DEF WindowAt, RecentsWindow
<1>9. [block |-> n, signer |-> h.signer] \in t.recents
  BY <1>2, <1>3, <1>4
<1>. QED  BY <1>1, <1>2, <1>3, <1>4, <1>5, <1>6, <1>7, <1>8, <1>9 DEF SnapInv, v, n

\* The snapshot of the genesis block is consistent.
LEMMA InitInv == Init => SnapInv(snap)
<1>. SUFFICES ASSUME Init PROVE SnapInv(snap)
  OBVIOUS
<1>1. /\ snap \in Snapshot /\ snap.votes = {} /\ snap.recents = {}
      /\ snap.tally = [a \in Address |-> NoTally]
  BY GenesisAssumption DEF Init, newSnapshot, Snapshot, NoTally, Tally
<1>2. IsFiniteSet(snap.votes)
  BY <1>1, FS_EmptySet
<1>3. TallyCounts(snap)
  <2>1. \A a : VotesOn(snap, a) = {}
    BY <1>1 DEF VotesOn
  <2>2. Cardinality({}) = 0
    BY FS_EmptySet
  <2>3. \A a \in Address : snap.tally[a].votes = 0
    BY <1>1 DEF NoTally
  <2>. QED  BY <2>1, <2>2, <2>3 DEF TallyCounts
<1>. QED  BY <1>1, <1>2, <1>3
          DEF SnapInv, Books, VotesLive, OneVoteEach, RecentsWindow

\* Every snapshot of every chain of headers is consistent.
THEOREM SnapshotInvariant == Spec => []SnapInv(snap)
<1>1. SnapInv(snap) /\ [Next]_snap => SnapInv(snap)'
  <2>. SUFFICES ASSUME SnapInv(snap), [Next]_snap PROVE SnapInv(snap)'
    OBVIOUS
  <2>1. CASE Next
    <3>1. PICK h \in Header : Applicable(snap, h) /\ snap' = Apply(snap, h)
      BY <2>1 DEF Next, ApplyHeader
    <3>2. SnapInv(Apply(snap, h))
      BY <3>1, ApplyInv
    <3>. QED  BY <3>1, <3>2
  <2>2. CASE UNCHANGED snap
    BY <2>2
  <2>. QED  BY <2>1, <2>2
<1>. QED  BY <1>1, InitInv, PTL DEF Spec

\* Type correctness of the snapshot, for every set of addresses and epoch.
THEOREM TypeCorrect == Spec => []TypeOK
<1>1. SnapInv(snap) => TypeOK
  BY DEF SnapInv, Books, TypeOK
<1>. QED  BY <1>1, SnapshotInvariant, PTL

\* The tally always counts exactly the open votes (cast and uncast against
\* the edits of the vote list in apply).
THEOREM TallyCorrect == Spec => []TallyCountsVotes
<1>1. SnapInv(snap) => TallyCountsVotes
  BY DEF SnapInv, Books, TallyCountsVotes
<1>. QED  BY <1>1, SnapshotInvariant, PTL

\* No vote outlives its signer, its purpose or its epoch.
THEOREM VotesCorrect == Spec => []VotesAreLive
<1>1. SnapInv(snap) => VotesAreLive
  BY DEF SnapInv, VotesAreLive
<1>. QED  BY <1>1, SnapshotInvariant, PTL

\* The two records of the votes agree, and every open vote can still count (apply).
THEOREM VotesExactCorrect == Spec => []VotesExact
<1>1. TypeOK /\ TallyCountsVotes /\ VotesAreLive => VotesExact
  BY DEF VotesExact
<1>. QED  BY <1>1, TypeCorrect, TallyCorrect, VotesCorrect, PTL

\* The recents map is the window of the last Limit blocks.
THEOREM RecentsCorrect == Spec => []RecentsAreWindow
<1>1. SnapInv(snap) => RecentsAreWindow
  BY DEF SnapInv, RecentsAreWindow
<1>. QED  BY <1>1, SnapshotInvariant, PTL

\* The recently-signed rule of apply never bars every signer at once.
THEOREM NeverLockedOut == Spec => []SomeoneCanSign
<1>1. SnapInv(snap) => SomeoneCanSign
  BY WindowLeavesSigner DEF SomeoneCanSign
<1>. QED  BY <1>1, SnapshotInvariant, PTL

\* The window holds the last signers, each once, and leaves one free (apply, Seal).
THEOREM WindowExactCorrect == Spec => []WindowExact
<1>1. RecentsAreWindow /\ SomeoneCanSign => WindowExact
  BY DEF WindowExact
<1>. QED  BY <1>1, RecentsCorrect, NeverLockedOut, PTL

\* A signer with at most one vote per address counts once: the votes on an
\* address are as many as the signers who cast them.
LEMMA VotesOnAreVoters ==
    ASSUME NEW s, Books(s), OneVoteEach(s), NEW a
    PROVE  /\ IsFiniteSet(Voters(s, a))
           /\ Cardinality(VotesOn(s, a)) <= Cardinality(Voters(s, a))
<1>. DEFINE f == [v \in VotesOn(s, a) |-> v.signer]
<1>1. f \in Injection(VotesOn(s, a), Voters(s, a))
  BY DEF Injection, IsInjective, VotesOn, Voters, OneVoteEach
<1>2. IsFiniteSet(Voters(s, a))
  <2>1. Voters(s, a) \in SUBSET Address
    BY DEF Voters, VotesOn, Books, Snapshot, Vote
  <2>. QED  BY <2>1, AddressAssumption, FS_Subset
<1>. HIDE DEF f
<1>. QED  BY <1>1, <1>2, FS_Injection

\* The signer set changes one address at a time and only by a majority of the
\* signers it had (the threshold test of apply).
THEOREM MajorityChange == Spec => SignersChangeByMajority
<1>1. SnapInv(snap) /\ SnapInv(snap)' /\ [Next]_snap => [ChangeByMajority]_snap
  <2>. SUFFICES ASSUME SnapInv(snap), SnapInv(snap)', Next,
                       snap'.signers # snap.signers
                PROVE  \E a \in Address :
                         /\ snap'.signers \in {snap.signers \cup {a},
                                              snap.signers \ {a}}
                         /\ Cardinality(Voters(ResetAtEpoch(snap, snap'.number), a)
                                        \cup Sealer(snap'))
                                > Cardinality(snap.signers) \div 2
    BY DEF ChangeByMajority
  <2>1. PICK h \in Header : Applicable(snap, h) /\ snap' = Apply(snap, h)
    BY DEF Next, ApplyHeader
  <2>. DEFINE a == h.coinbase
              v == Voted(snap, h)
              w == ResetAtEpoch(snap, snap'.number)
              all == Voters(w, a) \cup Sealer(snap')
  <2>2. /\ snap'.number = snap.number + 1 /\ h.number = snap'.number
        /\ [block |-> h.number, signer |-> h.signer] \in snap'.recents
        /\ snap'.signers \in {snap.signers \cup {a}, snap.signers \ {a}}
        /\ Passed(v, a) /\ a \in Address
    BY <2>1, ApplyInv DEF Applicable, Header
  <2>3. /\ Books(v) /\ OneVoteEach(v) /\ v.signers = snap.signers
        /\ \A x \in v.votes : x \in w.votes \/ x.signer = h.signer
    BY <2>1, <2>2, VotedInv
  <2>4. h.signer \in Sealer(snap')
    BY <2>2 DEF Sealer
  <2>. HIDE DEF v, w
  <2>5. Voters(v, a) \subseteq all
    BY <2>3, <2>4 DEF Voters, VotesOn
  <2>6. IsFiniteSet(all)
    <3>1. Books(snap) /\ Books(snap)'
      BY DEF SnapInv
    <3>2. w \in Snapshot
      BY <3>1, ResetBooks DEF w, Books
    <3>3. Voters(w, a) \subseteq Address
      BY <3>2 DEF Voters, VotesOn, Snapshot, Vote
    <3>4. Sealer(snap') \subseteq Address
      BY <3>1 DEF Sealer, Books, Snapshot
    <3>. QED  BY <3>3, <3>4, AddressAssumption, FS_Subset
  <2>7. /\ Cardinality(VotesOn(v, a)) <= Cardinality(Voters(v, a))
        /\ IsFiniteSet(Voters(v, a))
    BY <2>3, VotesOnAreVoters
  <2>8. Cardinality(Voters(v, a)) <= Cardinality(all)
    BY <2>5, <2>6, FS_Subset
  <2>9. /\ Cardinality(VotesOn(v, a)) \in Nat
        /\ Cardinality(Voters(v, a)) \in Nat
        /\ Cardinality(all) \in Nat
    BY <2>3, <2>6, <2>7, VotesOnFinite, FS_CardinalityType DEF Books
  <2>10. Cardinality(snap.signers) \in Nat
    BY LimitNat DEF SnapInv, Books, Snapshot
  <2>11. Cardinality(VotesOn(v, a)) > Cardinality(snap.signers) \div 2
    BY <2>2, <2>3 DEF Passed, Books, TallyCounts
  <2>12. Cardinality(all) > Cardinality(snap.signers) \div 2
    BY <2>7, <2>8, <2>9, <2>10, <2>11
  <2>. QED  BY <2>2, <2>12 DEF w
<1>. QED  BY <1>1, SnapshotInvariant, PTL DEF Spec, SignersChangeByMajority

=============================================================================
