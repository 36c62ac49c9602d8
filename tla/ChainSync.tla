------------------------------ MODULE ChainSync ------------------------------
(***************************************************************************)
(* When the protocol manager synchronises, and in which mode (can/sync.go: *)
(* syncer, synchronise; can/handler.go: NewBlockMsg, inserter).  Several   *)
(* calls of synchronise run at once: the ticker, a new peer and every      *)
(* announced block start one each.  The downloader lets one at a time in.  *)
(*                                                                         *)
(* A block is its number, which is its total difficulty too.               *)
(***************************************************************************)
EXTENDS Integers

CONSTANTS
    Call,        \* the calls of synchronise that may run at once
    MaxTd,       \* bound of the peer's head
    MaxFailures  \* how many synchronisations fail

VARIABLES
    block, fast,     \* CurrentBlock, CurrentFastBlock
    ptd,             \* the head of the best peer
    fastSync, acceptTxs,
    synchronising,   \* a synchronisation runs in the downloader
    call,            \* each call: where it is, and what it has read
    succeeded,       \* a synchronisation has succeeded, and the flag was seen to
    failures

vars == <<block, fast, ptd, fastSync, acceptTxs, synchronising, call, succeeded, failures>>

Idle == [at |-> "idle", block |-> 0, td |-> 0, mode |-> "full"]
Higher(a, b) == IF a > b THEN a ELSE b

\* A fresh chain or one with a fast synchronisation behind it, in fast mode; any other chain in full
\* mode (NewProtocolManager).  The best peer is ahead of the fast blocks.
Init ==
    /\ fast \in 0..1 /\ block \in 0..fast
    /\ fastSync = (block = 0)
    /\ ptd = 2 /\ acceptTxs = FALSE /\ synchronising = FALSE
    /\ call = [c \in Call |-> Idle] /\ succeeded = FALSE /\ failures = 0

\* synchronise reads the head, and leaves if the peer is not ahead.
Read(c) ==
    /\ call[c].at = "idle" /\ ptd > block
    /\ call' = [call EXCEPT ![c] = [Idle EXCEPT !.at = "mode", !.block = block, !.td = ptd]]
    /\ UNCHANGED <<block, fast, ptd, fastSync, acceptTxs, synchronising, succeeded, failures>>

\* A chain whose fast synchronisation was interrupted goes on with it.
Resumes(c) == call[c].block = 0 /\ fast > 0

Choose(c) ==
    /\ call[c].at = "mode"
    /\ LET mode == IF fastSync \/ Resumes(c) THEN "fast" ELSE "full"
       IN call' = [call EXCEPT ![c] = [@ EXCEPT !.at = "check", !.mode = mode]]
    /\ fastSync' = (fastSync \/ Resumes(c))
    /\ UNCHANGED <<block, fast, ptd, acceptTxs, synchronising, succeeded, failures>>

\* Nothing to do in fast mode if the fast block is there; errBusy if another call is in.
Enter(c) ==
    /\ call[c].at = "check"
    /\ IF (call[c].mode = "fast" /\ fast >= call[c].td) \/ synchronising
       THEN call' = [call EXCEPT ![c] = Idle] /\ UNCHANGED synchronising
       ELSE call' = [call EXCEPT ![c].at = "in"] /\ synchronising' = TRUE
    /\ UNCHANGED <<block, fast, ptd, fastSync, acceptTxs, succeeded, failures>>

\* The downloader has reached the head it was given, or has failed on the way: in fast mode it may
\* have got no further than the fast blocks, which end at the pivot, below the peer's head.
Succeed(c) ==
    /\ call[c].at = "in"
    /\ block' = Higher(block, call[c].td) /\ fast' = Higher(fast, call[c].td)
    /\ synchronising' = FALSE
    /\ call' = [call EXCEPT ![c].at = "after"]
    /\ UNCHANGED <<ptd, fastSync, acceptTxs, succeeded, failures>>

FailedAtAfter == "after"

Released == FALSE
FailedAt == "idle"

Fail(c) ==
    /\ call[c].at = "in" /\ failures < MaxFailures
    /\ failures' = failures + 1
    /\ \/ /\ \E b \in block..Higher(block, call[c].td) : block' = b /\ fast' = Higher(fast, b)
       \/ /\ call[c].mode = "fast"
          /\ \E f \in fast..Higher(fast, call[c].td - 1) : fast' = f
          /\ UNCHANGED block
    /\ synchronising' = Released
    /\ call' = [call EXCEPT ![c] = [Idle EXCEPT !.at = FailedAt]]
    /\ UNCHANGED <<ptd, fastSync, acceptTxs, succeeded>>

\* The end of synchronise.
Cleared == FALSE

After(c) ==
    /\ call[c].at = "after"
    /\ fastSync' = Cleared
    /\ acceptTxs' = TRUE
    /\ succeeded' = TRUE
    /\ call' = [call EXCEPT ![c] = Idle]
    /\ UNCHANGED <<block, fast, ptd, synchronising, failures>>

\* A peer announces a new head.
Announce ==
    /\ ptd < MaxTd
    /\ ptd' = ptd + 1
    /\ UNCHANGED <<block, fast, fastSync, acceptTxs, synchronising, call, succeeded, failures>>

\* The fetcher imports a block: discarded during a fast synchronisation.
MayInsert == ~fastSync

Insert ==
    /\ MayInsert /\ block < ptd
    /\ acceptTxs' = TRUE
    /\ block' = block + 1 /\ fast' = Higher(fast, block + 1)
    /\ UNCHANGED <<ptd, fastSync, synchronising, call, succeeded, failures>>

Next ==
    \/ \E c \in Call : Read(c) \/ Choose(c) \/ Enter(c) \/ Succeed(c) \/ Fail(c) \/ After(c)
    \/ Announce \/ Insert

\* The ticker starts a call again and again, and a synchronisation ends.
Fairness == \A c \in Call : WF_vars(Read(c) \/ Choose(c) \/ Enter(c) \/ Succeed(c) \/ After(c))

Spec == Init /\ [][Next]_vars /\ Fairness

-----------------------------------------------------------------------------
(* Properties. *)

TypeOK ==
    /\ block \in 0..MaxTd /\ fast \in block..MaxTd /\ ptd \in 0..MaxTd
    /\ fastSync \in BOOLEAN /\ acceptTxs \in BOOLEAN /\ synchronising \in BOOLEAN
    /\ \A c \in Call : call[c].at \in {"idle", "mode", "check", "in", "after"}

\* Once a synchronisation has succeeded and no call is under way, fast synchronisation is off
\* (synchronise; TestFastSyncDisabling).
FastSyncDisabled ==
    succeeded /\ (\A c \in Call : call[c].at = "idle") => ~fastSync

\* Transactions are accepted only by a node that has a block beyond genesis: it synchronised, or a
\* block arrived.  While the first fast synchronisation is not over they are not.
AcceptsLate == acceptTxs => block > 0

=============================================================================
