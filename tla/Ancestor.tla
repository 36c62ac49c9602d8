------------------------------ MODULE Ancestor ------------------------------
(***************************************************************************)
(* Downloader.findAncestor (can/downloader/downloader.go): where the local *)
(* chain and the master's part.  A first request samples the headers below *)
(* the master's head (calculateRequestSpan); if none is known, a binary    *)
(* search follows, one header at a time.                                   *)
(*                                                                         *)
(* The master's chain is the numbers up to remoteHeight; the local node    *)
(* knows those up to common, which may grow while it searches (blocks      *)
(* arrive by other ways too).  The master is honest: what it sends is what *)
(* was asked for, or nothing.                                              *)
(***************************************************************************)
EXTENDS Integers, FiniteSetsExt

CONSTANTS
    Heights,          \* local and remote heights to start from
    MaxHeaderFetch, MaxForkAncestry,
    MaxSpan,          \* 16 in the source
    MaxImports        \* bound

VARIABLES
    localHeight, remoteHeight,   \* as read at the start
    common,       \* the master's headers up to here are known
    start, end,   \* the binary search
    phase,        \* "span", "search", "found" or an error
    number,       \* the ancestor found
    imports

vars == <<localHeight, remoteHeight, common, start, end, phase, number, imports>>

-----------------------------------------------------------------------------
Clamp(x, lo, hi) == IF x < lo THEN lo ELSE IF x > hi THEN hi ELSE x

\* calculateRequestSpan: the first header to ask for, how many, and how far
\* apart.  The local height is unsigned: zero minus one wraps around, and
\* is negative as an int.
calculateRequestSpan(rh, lh) ==
    LET MaxCount == MaxHeaderFetch \div 16
        requestHead == Max({rh - 1, 0})
        requestBottom == Max({lh - 1, 0})
        totalSpan == requestHead - requestBottom
        Quotient(a, b) == IF a >= 0 THEN a \div b ELSE -((-a) \div b)
        span == Clamp(1 + Quotient(totalSpan, MaxCount), 2, MaxSpan)
        count == Max({2, Min({MaxCount, 1 + Quotient(totalSpan, span)})})
        from == Max({0, requestHead - (count - 1) * span})
    IN  [from |-> from, count |-> count, span |-> span, max |-> from + (count - 1) * span]

floor == IF localHeight >= MaxForkAncestry THEN localHeight - MaxForkAncestry ELSE -1

-----------------------------------------------------------------------------
\* The heights, and how much of the master's chain is known, are anything.
\* The genesis block is always common.
Init ==
    /\ localHeight \in Heights /\ remoteHeight \in Heights
    /\ common \in 0..Min({localHeight, remoteHeight})
    /\ start = 0 /\ end = 0 /\ phase = "span" /\ number = 0 /\ imports = 0

\* A search that ends at n.
Ends(n) ==
    /\ number' = n
    /\ phase' = IF n <= floor THEN "errInvalidAncestor" ELSE "found"

\* The sampled headers: those the master has, the highest that is known
\* wins.
Sampled ==
    LET r == calculateRequestSpan(remoteHeight, localHeight)
    IN  {n \in {r.from + i * r.span : i \in 0..(r.count - 1)} : n <= remoteHeight}

Span ==
    /\ phase = "span"
    /\ LET known == {n \in Sampled : n <= common}
       IN  IF known # {}
           THEN Ends(Max(known)) /\ UNCHANGED <<start, end>>
           ELSE /\ phase' = "search"
                /\ start' = Max({floor, 0}) /\ end' = remoteHeight
                /\ UNCHANGED number
    /\ UNCHANGED <<localHeight, remoteHeight, common, imports>>

\* Mutant: a header that is not known is taken for the ancestor.
SearchedHigh(check) == IF check <= common + 1 THEN <<check, end>> ELSE <<start, check>>

Searched(check) == IF check <= common THEN <<check, end>> ELSE <<start, check>>

Search ==
    /\ phase = "search"
    /\ IF start + 1 < end
       THEN LET s == Searched((start + end) \div 2)
            IN  start' = s[1] /\ end' = s[2] /\ UNCHANGED <<phase, number>>
       ELSE Ends(start) /\ UNCHANGED <<start, end>>
    /\ UNCHANGED <<localHeight, remoteHeight, common, imports>>

\* No answer in time, an empty one, or a cancellation.
Fail ==
    /\ phase \in {"span", "search"}
    /\ phase' = "failed"
    /\ UNCHANGED <<localHeight, remoteHeight, common, start, end, number, imports>>

\* Another block of the master's chain arrives by another way.
ImportBlock ==
    /\ phase \in {"span", "search"} /\ common < remoteHeight /\ imports < MaxImports
    /\ common' = common + 1 /\ imports' = imports + 1
    /\ UNCHANGED <<localHeight, remoteHeight, start, end, phase, number>>

Next == Span \/ Search \/ Fail \/ ImportBlock

Spec == Init /\ [][Next]_vars

-----------------------------------------------------------------------------
(***************************************************************************)
(* Properties.                                                             *)
(***************************************************************************)

TypeOK ==
    /\ phase \in {"span", "search", "found", "failed", "errInvalidAncestor"}
    /\ number \in 0..Max(Heights) /\ start <= Max({end, floor, 0})

\* The first request never reaches the master's head or beyond what it was
\* said to have, and asks for what the peer will send in one packet.
SpanBounded ==
    LET r == calculateRequestSpan(remoteHeight, localHeight)
    IN  /\ r.from >= 0 /\ r.count * r.span <= Max({2, MaxHeaderFetch \div 16}) * MaxSpan
        /\ r.max <= Max({remoteHeight - 1, r.span * (r.count - 1)})

\* The ancestor found is common to both chains, within the allowance, and as
\* high as one request can tell: at most a span, and what arrived in the
\* meantime, below the highest one.
FoundCommon ==
    phase = "found" =>
        /\ number <= common /\ number > floor
        /\ common - number <= imports + calculateRequestSpan(remoteHeight, localHeight).span

\* A chain is refused only if it parts within a span of the allowance, or
\* below it.
RefusedDeep ==
    phase = "errInvalidAncestor" =>
        common - imports < floor + calculateRequestSpan(remoteHeight, localHeight).span

\* Whatever the answer, it narrows the search, so that it ends.
SearchNarrows ==
    phase = "search" /\ start + 1 < end =>
        LET s == Searched((start + end) \div 2) IN s[2] - s[1] < end - start

=============================================================================
