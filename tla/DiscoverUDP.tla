----------------------------- MODULE DiscoverUDP -----------------------------
(***************************************************************************)
(* Requests and replies of the discovery protocol (lib/p2p/discover/       *)
(* udp.go).  A caller registers what it waits for with the loop, which     *)
(* matches incoming replies against its list, front to back, and answers   *)
(* with a timeout what has waited too long.  One timer serves the whole    *)
(* list: it is set for the request nextTimeout points at.                  *)
(*                                                                         *)
(*   plist     the requests, oldest first: [id, from, ptype, deadline,     *)
(*             got, adds]; adds if the pong puts the peer in the table     *)
(*   result    the error channel of each request: "none" until answered    *)
(*   next, timerAt, fired   nextTimeout; when the timer goes off; the time *)
(*             waiting in its channel.  0 stands for none                  *)
(*   caller    what each caller does: revalidation pings; lookups ping and *)
(*             wait for the ping of a peer they have not heard of, then    *)
(*             ask it for neighbors                                        *)
(*   reading   the ping whose handler is under way in the read loop        *)
(*   closing, up   the socket is closed; the loop runs                     *)
(* The expiration of bonds (a day) is beyond the bound on time.            *)
(***************************************************************************)
EXTENDS Integers, Sequences, FiniteSets, SequencesExt

CONSTANTS Peer, Caller, None, respTimeout, bucketSize, MaxTime, MaxCalls

VARIABLES now, plist, result, next, timerAt, fired, caller, reading, closing, up, pinged, lastPing, lastPong, table

vars == <<now, plist, result, next, timerAt, fired, caller, reading, closing, up, pinged, lastPing, lastPong, table>>
timer == <<next, timerAt, fired>>
known == <<pinged, lastPing, lastPong, table>>

Idle == [op |-> "idle", peer |-> None, stage |-> "idle", id |-> 0]

Init ==
    /\ now = 1
    /\ plist = << >> /\ result = << >>
    /\ next = 0 /\ timerAt = 0 /\ fired = 0
    /\ caller = [c \in Caller |-> Idle]
    /\ reading = None
    /\ closing = FALSE /\ up = TRUE
    /\ pinged = {} /\ lastPing = {} /\ lastPong = {} /\ table = {}

-----------------------------------------------------------------------------
\* resetTimeout, run after every event of the loop.
resetTimeout(list, nx, at) ==
    IF list = << >> \/ nx = Head(list).id THEN next' = nx /\ timerAt' = at
    ELSE next' = Head(list).id /\ timerAt' = Head(list).deadline

\* udp.pending, with the loop's addpending case: the request p gets the next id.
Pend(from, ptype, adds) ==
    /\ Len(result) < MaxCalls
    /\ result' = Append(result, "none")
    /\ plist' = Append(plist, [id |-> Len(result) + 1, from |-> from, ptype |-> ptype,
                               deadline |-> now + respTimeout, got |-> 0, adds |-> adds])
    /\ resetTimeout(plist', next, timerAt)
    /\ UNCHANGED fired

\* The callbacks: a pong must carry the token of the ping, neighbors come in several packets.
Got(p, k) == p.got + k
Completes(p, tok, k) ==
    CASE p.ptype = "pong" -> tok = p.id
      [] p.ptype = "ping" -> TRUE
      [] OTHER -> Got(p, k) >= bucketSize

(* handleReply, with the loop's gotreply case.  Removing a request from the
   list ends the walk over it: a reply answers at most one. *)
Matching(from, ptype) == {i \in DOMAIN plist : plist[i].from = from /\ plist[i].ptype = ptype}
Completed(from, ptype, tok, k) ==
    LET done == {i \in Matching(from, ptype) : Completes(plist[i], tok, k)}
    IN IF done = {} THEN 0 ELSE Min(done)
handleReply(from, ptype, tok, k) ==
    LET m == Matching(from, ptype)
        done == Completed(from, ptype, tok, k)
        seen == [i \in DOMAIN plist |->
                    IF i \in m /\ (done = 0 \/ i < done) THEN [plist[i] EXCEPT !.got = Got(plist[i], k)] ELSE plist[i]]
    IN /\ plist' = IF done = 0 THEN seen ELSE RemoveAt(seen, done)
       /\ result' = IF done = 0 THEN result ELSE [result EXCEPT ![plist[done].id] = "ok"]
       /\ resetTimeout(plist', next, timerAt)
       /\ UNCHANGED fired

-----------------------------------------------------------------------------
\* ping and findnode begin.
Begin(c) ==
    /\ caller[c].stage = "idle"
    /\ \E p \in Peer, op \in {"ping", "findnode"} :
           caller' = [caller EXCEPT ![c] =
               [op |-> op, peer |-> p, id |-> 0,
                stage |-> IF op = "ping" \/ p \notin lastPing THEN "pong" ELSE "neighbors"]]
    /\ UNCHANGED <<now, plist, result, timer, reading, closing, up, known>>

\* The request is registered, and the packet sent.
Request(c) ==
    /\ caller[c].stage # "idle" /\ caller[c].id = 0
    /\ up
    /\ Pend(caller[c].peer, caller[c].stage, FALSE)
    /\ caller' = [caller EXCEPT ![c].id = Len(result')]
    /\ pinged' = IF caller[c].stage = "pong" THEN pinged \cup {<<caller[c].peer, Len(result')>>} ELSE pinged
    /\ UNCHANGED <<now, reading, closing, up, lastPing, lastPong, table>>

\* What a caller does when its request was answered, or failed.
Then(r) == CASE r.op = "ping" \/ r.stage = "neighbors" -> Idle
             [] r.stage = "pong" -> [r EXCEPT !.stage = "ping", !.id = 0]
             [] OTHER -> [r EXCEPT !.stage = "neighbors", !.id = 0]
Proceed(c) ==
    /\ caller[c].id # 0 /\ result[caller[c].id] # "none"
    /\ caller' = [caller EXCEPT ![c] = Then(caller[c])]
    /\ UNCHANGED <<now, plist, result, timer, reading, closing, up, known>>

\* pending and handleReply give up when the socket is closed.
Refused(c) ==
    /\ closing
    /\ caller[c].stage # "idle" /\ caller[c].id = 0
    /\ caller' = [caller EXCEPT ![c] = Then(caller[c])]
    /\ UNCHANGED <<now, plist, result, timer, reading, closing, up, known>>

\* pong.handle.  The pong may be late, or the second one.
Pong ==
    /\ up /\ reading = None
    /\ \E s \in pinged :
           /\ handleReply(s[1], "pong", s[2], 0)
           /\ LET done == Completed(s[1], "pong", s[2], 0)
              IN /\ table' = IF done # 0 /\ plist[done].adds THEN table \cup {s[1]} ELSE table
                 /\ lastPong' = IF Matching(s[1], "pong") # {} THEN lastPong \cup {s[1]} ELSE lastPong
    /\ UNCHANGED <<now, caller, reading, closing, up, pinged, lastPing>>

\* neighbors.handle.
Neighbors ==
    /\ up /\ reading = None
    /\ \E p \in Peer, k \in 1..bucketSize : Matching(p, "neighbors") # {} /\ handleReply(p, "neighbors", 0, k)
    /\ UNCHANGED <<now, caller, reading, closing, up, known>>

\* ping.handle, up to the reply it may be.
Ping ==
    /\ up /\ reading = None
    /\ \E p \in Peer : reading' = p /\ handleReply(p, "ping", 0, 0)
    /\ UNCHANGED <<now, caller, closing, up, known>>

Bonded(p) == p \in lastPong

\* The rest of ping.handle: a peer that never sent a pong is pinged first.
PingBack ==
    /\ reading # None
    /\ reading' = None
    /\ lastPing' = lastPing \cup {reading}
    /\ \/ Bonded(reading) /\ table' = table \cup {reading} /\ UNCHANGED <<plist, result, timer, pinged>>
       \/ ~Bonded(reading) /\ up /\ Pend(reading, "pong", TRUE) /\ pinged' = pinged \cup {<<reading, Len(result')>>}
          /\ UNCHANGED table
       \/ ~Bonded(reading) /\ closing /\ UNCHANGED <<plist, result, timer, pinged, table>>
    /\ UNCHANGED <<now, caller, closing, up, lastPong>>

\* What nextTimeout is once the timer has gone off.  Mutant: it still points at its request.
AfterExpiryKept == next
AfterExpiry == 0

\* The loop's timeout case: one overdue request is answered per expiry.
Timeout ==
    /\ up /\ fired # 0
    /\ fired' = 0
    /\ LET late == {i \in DOMAIN plist : plist[i].deadline <= fired}
       IN /\ plist' = IF late = {} THEN plist ELSE RemoveAt(plist, Min(late))
          /\ result' = IF late = {} THEN result ELSE [result EXCEPT ![plist[Min(late)].id] = "timeout"]
    /\ resetTimeout(plist', AfterExpiry, timerAt)
    /\ UNCHANGED <<now, caller, reading, closing, up, known>>

\* The runtime: time passes, the timer goes off.
Tick ==
    /\ now < MaxTime
    /\ timerAt = 0 \/ now < timerAt
    /\ now' = now + 1
    /\ UNCHANGED <<plist, result, timer, caller, reading, closing, up, known>>
Fire ==
    /\ timerAt # 0 /\ timerAt <= now
    /\ timerAt' = 0
    /\ fired' = IF fired = 0 THEN now ELSE fired
    /\ UNCHANGED <<now, plist, result, next, caller, reading, closing, up, known>>

Close ==
    /\ ~closing
    /\ closing' = TRUE
    /\ UNCHANGED <<now, plist, result, timer, caller, reading, up, known>>

ClosedResults == [i \in DOMAIN result |-> IF \E j \in DOMAIN plist : plist[j].id = i THEN "closed" ELSE result[i]]
LoopEnds ==
    /\ closing /\ up
    /\ up' = FALSE
    /\ result' = ClosedResults
    /\ plist' = << >>
    /\ UNCHANGED <<now, timer, caller, reading, closing, known>>

Next ==
    \/ \E c \in Caller : Begin(c) \/ Request(c) \/ Proceed(c) \/ Refused(c)
    \/ Pong \/ Neighbors \/ Ping \/ PingBack \/ Timeout \/ Tick \/ Fire \/ Close \/ LoopEnds
Spec == Init /\ [][Next]_vars

-----------------------------------------------------------------------------
TypeOK ==
    /\ now \in 1..MaxTime /\ next \in 0..MaxCalls
    /\ \A i \in DOMAIN plist : plist[i].id \in DOMAIN result /\ plist[i].got < bucketSize
    /\ \A i \in DOMAIN result : result[i] \in {"none", "ok", "timeout", "closed"}
    /\ table \cup lastPing \cup lastPong \subseteq Peer

(* While a request waits, the timer is set for the oldest one at the
   latest, or has gone off: however replies take requests off the list, and
   late expiries arrive, none waits for a timer that is not running. *)
TimerArmed == up /\ plist # << >> => fired # 0 \/ (timerAt # 0 /\ timerAt <= Head(plist).deadline)

(* A request is answered exactly once: it is on the list, or its caller has
   its result.  Once the loop has ended no caller waits for an answer. *)
AnsweredOnce ==
    \A i \in DOMAIN result : (result[i] = "none") <=> (\E j \in DOMAIN plist : plist[j].id = i)

(* A peer that pings us enters the table only after a pong of its own: it
   answered at the address it claims. *)
TableBonded == table \subseteq lastPong \cup {p \in Peer : \E i \in DOMAIN result : result[i] = "ok" /\ <<p, i>> \in pinged}
=============================================================================
