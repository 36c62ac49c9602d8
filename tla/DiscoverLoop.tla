---------------------------- MODULE DiscoverLoop ----------------------------
(***************************************************************************)
(* The goroutines of the node table (Table.loop in lib/p2p/discover/       *)
(* table.go): refreshes, which a lookup of an empty table asks for and     *)
(* waits for, revalidations, and the end of them all in Close.             *)
(*                                                                         *)
(*   refreshes, refreshDone    the doRefresh goroutines that run; "nil",   *)
(*                             "open" or "closed", the channel of the last *)
(*   revalidation  "timer", "runs", or "sends": its end is to be received  *)
(*   waiting       the channels to close when a refresh ends               *)
(*   lookup        the state of each lookup                                *)
(*   loop          "runs", "refresh", "revalidate" (what it waits for when *)
(*                 it ends) or "closed"                                    *)
(*   close         the state of Close                                      *)
(***************************************************************************)
EXTENDS Integers, FiniteSets

CONSTANTS Lookup, MaxLookups

VARIABLES refreshes, refreshDone, revalidation, waiting, initDone, lookup, loop, close, lookups

vars == <<refreshes, refreshDone, revalidation, waiting, initDone, lookup, loop, close, lookups>>

Init ==
    /\ refreshes = 1 /\ refreshDone = "open"
    /\ revalidation = "timer"
    /\ waiting = {"init"} /\ initDone = FALSE
    /\ lookup = [l \in Lookup |-> "idle"]
    /\ loop = "runs" /\ close = "no"
    /\ lookups = 0

-----------------------------------------------------------------------------
Started ==
    IF refreshDone = "nil" THEN refreshes' = refreshes + 1 /\ refreshDone' = "open"
    ELSE UNCHANGED <<refreshes, refreshDone>>

RefreshTicker ==
    /\ loop = "runs"
    /\ Started
    /\ UNCHANGED <<revalidation, waiting, initDone, lookup, loop, close, lookups>>

\* lookup finds the table empty and asks for a refresh; or it has nodes to ask.
LookupBegins(l) ==
    /\ lookup[l] = "idle" /\ lookups < MaxLookups
    /\ \E s \in {"asks", "queries"} : lookup' = [lookup EXCEPT ![l] = s]
    /\ lookups' = lookups + 1
    /\ UNCHANGED <<refreshes, refreshDone, revalidation, waiting, initDone, loop, close>>

RefreshRequest(l) ==
    /\ lookup[l] = "asks"
    /\ loop = "runs"
    /\ lookup' = [lookup EXCEPT ![l] = "waits"]
    /\ waiting' = waiting \cup {l}
    /\ Started
    /\ UNCHANGED <<revalidation, initDone, loop, close, lookups>>

\* refresh after Close.
RequestRefused(l) ==
    /\ lookup[l] = "asks"
    /\ loop = "closed"
    /\ lookup' = [lookup EXCEPT ![l] = "queries"]
    /\ UNCHANGED <<refreshes, refreshDone, revalidation, waiting, initDone, loop, close, lookups>>

\* The queries of a lookup end, with the socket closed at the latest.
LookupEnds(l) ==
    /\ lookup[l] = "queries"
    /\ lookup' = [lookup EXCEPT ![l] = "idle"]
    /\ UNCHANGED <<refreshes, refreshDone, revalidation, waiting, initDone, loop, close, lookups>>

doRefresh ==
    /\ refreshes > 0 /\ refreshDone = "open"
    /\ refreshes' = refreshes - 1
    /\ refreshDone' = "closed"
    /\ UNCHANGED <<revalidation, waiting, initDone, lookup, loop, close, lookups>>

\* The channels of W are closed.  Mutant: only that of the initialisation.
ReleasedInit(W) ==
    /\ UNCHANGED lookup
    /\ initDone' = (initDone \/ "init" \in W)
    /\ waiting' = {}
Released(W) ==
    /\ lookup' = [l \in Lookup |-> IF l \in W THEN "queries" ELSE lookup[l]]
    /\ initDone' = (initDone \/ "init" \in W)
    /\ waiting' = {}

RefreshEnds ==
    /\ loop = "runs"
    /\ refreshDone = "closed"
    /\ refreshDone' = "nil"
    /\ Released(waiting)
    /\ UNCHANGED <<refreshes, revalidation, loop, close, lookups>>

Revalidate ==
    /\ \/ revalidation = "timer" /\ loop = "runs" /\ revalidation' = "runs"
       \/ revalidation = "runs" /\ revalidation' = "sends"
       \/ revalidation = "sends" /\ loop = "runs" /\ revalidation' = "timer"
    /\ UNCHANGED <<refreshes, refreshDone, waiting, initDone, lookup, loop, close, lookups>>

CloseReq ==
    /\ close = "no"
    /\ loop = "runs"
    /\ close' = "waits"
    /\ loop' = IF refreshDone = "nil" THEN "revalidate" ELSE "refresh"
    /\ IF refreshDone = "nil" THEN Released(waiting) ELSE UNCHANGED <<waiting, initDone, lookup>>
    /\ UNCHANGED <<refreshes, refreshDone, revalidation, lookups>>

LoopRefreshed ==
    /\ loop = "refresh" /\ refreshDone = "closed"
    /\ loop' = "revalidate"
    /\ Released(waiting)
    /\ UNCHANGED <<refreshes, refreshDone, revalidation, close, lookups>>

Revalidated == revalidation \in {"timer", "sends"}
LoopEnds ==
    /\ loop = "revalidate"
    /\ Revalidated
    /\ revalidation' = IF revalidation = "sends" THEN "timer" ELSE revalidation
    /\ loop' = "closed" /\ close' = "done"
    /\ UNCHANGED <<refreshes, refreshDone, waiting, initDone, lookup, lookups>>

Next ==
    \/ RefreshTicker \/ doRefresh \/ RefreshEnds \/ Revalidate \/ CloseReq \/ LoopRefreshed \/ LoopEnds
    \/ \E l \in Lookup : LookupBegins(l) \/ RefreshRequest(l) \/ RequestRefused(l) \/ LookupEnds(l)
Spec == Init /\ [][Next]_vars

-----------------------------------------------------------------------------
TypeOK ==
    /\ refreshDone \in {"nil", "open", "closed"}
    /\ revalidation \in {"timer", "runs", "sends"}
    /\ waiting \subseteq Lookup \cup {"init"}
    /\ lookup \in [Lookup -> {"idle", "asks", "waits", "queries"}]
    /\ loop \in {"runs", "refresh", "revalidate", "closed"}

(* One refresh runs at a time, and the loop knows of it. *)
OneRefresh == refreshes = (IF refreshDone = "open" THEN 1 ELSE 0)

(* A lookup that waits for a refresh is known to the loop, and there is a
   refresh whose end will release it: none waits for ever, also when its
   request comes while the table closes. *)
RefreshComes ==
    \A l \in Lookup : lookup[l] = "waits" => l \in waiting /\ refreshDone # "nil" /\ loop \in {"runs", "refresh"}

(* When Close returns no goroutine of the table runs, and initDone is
   closed, so that nothing waits for the first refresh. *)
ClosedQuiet == close = "done" => refreshes = 0 /\ revalidation = "timer" /\ waiting = {} /\ initDone
=============================================================================
