------------------------------ MODULE MCClique ------------------------------
(***************************************************************************)
(* The clique engine, one part at a time; a scenario fixes the part.       *)
(*                                                                         *)
(* votes: one chain of headers on four addresses, three of them signers    *)
(*     at genesis; the snapshot of CliqueSnapshot, which in the other      *)
(*     scenarios stays at genesis                                          *)
(* verify: headers of three accounts arrive at a node that does not seal   *)
(* seal: a node that votes and seals, with two accounts                    *)
(* early: four genesis signers and the first two blocks                    *)
(***************************************************************************)
EXTENDS CliqueSnapshot, TLC

CONSTANTS a1, a2, a3, a4, None, Off, Scenarios

VARIABLES scenario, now, chain, recents, disk, signer, proposals, work, sealing

engineVars == <<now, chain, recents, disk, signer, proposals, work, sealing>>

vars == <<scenario, snap, now, chain, recents, disk, signer, proposals, work, sealing>>

MCAddress == {a1, a2, a3, a4}
MCGenesis == {a1, a2, a3}
MCSymmetry == Permutations(MCGenesis)

Verifying == INSTANCE Clique WITH
    Address <- 0..3, GenesisSigners <- {1, 2}, Votable <- {3}, Own <- {}, Peers <- {1, 2, 3},
    Epoch <- 3, MaxNumber <- 4, CheckpointInterval <- 2, Period <- 1, Uint64 <- 1024,
    CacheSize <- 2, MaxTime <- 4, MaxHeaders <- 5

Sealing == INSTANCE Clique WITH
    Address <- 0..3, GenesisSigners <- {1, 2}, Votable <- {3}, Own <- {1, 2}, Peers <- {},
    Epoch <- 2, MaxNumber <- 2, CheckpointInterval <- 2, Period <- 1, Uint64 <- 1024,
    CacheSize <- 1, MaxTime <- 2, MaxHeaders <- 3

Early == INSTANCE Clique WITH
    Address <- 0..4, GenesisSigners <- 1..4, Votable <- {}, Own <- {}, Peers <- 1..4,
    Epoch <- 3, MaxNumber <- 2, CheckpointInterval <- 2, Period <- 1, Uint64 <- 1024,
    CacheSize <- 1, MaxTime <- 2, MaxHeaders <- 3

-----------------------------------------------------------------------------
EngineOff ==
    /\ now = Off /\ chain = Off /\ recents = Off /\ disk = Off /\ signer = Off /\ proposals = Off
    /\ work = Off /\ sealing = Off

MCInit ==
    /\ scenario \in Scenarios
    /\ Init
    /\ \/ scenario = "votes" /\ EngineOff
       \/ scenario = "verify" /\ Verifying!Init
       \/ scenario = "seal" /\ Sealing!Init
       \/ scenario = "early" /\ Early!Init

MCNext ==
    /\ UNCHANGED scenario
    /\ \/ scenario = "votes" /\ Next /\ UNCHANGED engineVars
       \/ scenario = "verify" /\ Verifying!Next /\ UNCHANGED snap
       \/ scenario = "seal" /\ Sealing!Next /\ UNCHANGED snap
       \/ scenario = "early" /\ Early!Next /\ UNCHANGED snap

MCSpec == MCInit /\ [][MCNext]_vars

-----------------------------------------------------------------------------
(* The properties of the engine, in the scenarios they are about. *)

\* Every snapshot in memory or on disk is the replay of the headers from genesis, and the caches
\* keep their bounds (snapshot).
SnapshotsCoherent == scenario = "verify" => Verifying!TypeOK /\ Verifying!SnapshotsCoherent

\* A signer signs at most one block of a window, in every chain verifyHeader accepts.
NoSignerTooOften ==
    /\ scenario = "verify" => Verifying!NoSignerTooOften
    /\ scenario = "early" => Early!NoSignerTooOften

\* In every chain verifyHeader accepts a signer signs at most one block of a window, and each
\* header can be applied to the snapshot of its parent (verifySeal, apply).
VerifiedSound == NoSignerTooOften /\ (scenario = "verify" => Verifying!VerifiedIsApplicable)

\* What the node seals its own verifyHeader accepts, if the signer did not change in between.
SealedVerifies == scenario = "seal" => Sealing!SealedVerifies

=============================================================================
