------------------------------- MODULE PeerRun -------------------------------
(***************************************************************************)
(* The goroutines of one p2p peer (lib/p2p/peer.go): Peer.run, readLoop,   *)
(* pingLoop, and one per protocol.  A protocol writes only with the token  *)
(* of writeStart, and reports the result on writeErr; run hands the token  *)
(* on.  When run leaves its loop it closes the connection and waits for    *)
(* all of them: the capacities of the channels must be such that none      *)
(* blocks on a channel nobody reads any more.                              *)
(***************************************************************************)
EXTENDS Integers, Sequences, FiniteSets

CONSTANTS
    Proto,
    MaxWrites, MaxMsgs   \* bounds

VARIABLES
    run,        \* "loop", "waiting" or "done"
    closed,     \* p.closed, and the connection with it
    token,      \* writeStart
    writeErr, readErr, protoErr,   \* what is in these channels
    reader,     \* "read", the protocol a message is for, "failed" or "done"
    pinger,     \* "wait", "failed" or "done"
    proto,      \* of each protocol: "run", "writing", "report", "returned" or "done"
    bad,        \* the connection fails
    discs,      \* calls of Disconnect that wait
    writes, msgs

vars == <<run, closed, token, writeErr, readErr, protoErr, reader, pinger, proto, bad, discs, writes, msgs>>
chans == <<token, writeErr, readErr, protoErr>>

protoErrCap == Cardinality(Proto) + 1

Init ==
    /\ run = "loop" /\ closed = FALSE /\ token = 1
    /\ writeErr = << >> /\ readErr = << >> /\ protoErr = << >>
    /\ reader = "read" /\ pinger = "wait" /\ proto = [i \in Proto |-> "run"]
    /\ bad = FALSE /\ discs = 1 /\ writes = 0 /\ msgs = 0

Broken == bad \/ closed

Leaves == run' = "waiting" /\ closed' = TRUE

\* The loop of run: the result of a write, or one of the reasons to leave.
RunWritten ==
    /\ run = "loop" /\ writeErr # << >>
    /\ writeErr' = Tail(writeErr)
    /\ IF Head(writeErr) = "ok"
       THEN token' = token + 1 /\ UNCHANGED <<run, closed>>
       ELSE Leaves /\ UNCHANGED token
    /\ UNCHANGED <<readErr, protoErr, reader, pinger, proto, bad, discs, writes, msgs>>

RunLeaves ==
    /\ run = "loop"
    /\ \/ readErr # << >> /\ readErr' = Tail(readErr) /\ UNCHANGED <<protoErr, discs>>
       \/ protoErr # << >> /\ protoErr' = Tail(protoErr) /\ UNCHANGED <<readErr, discs>>
       \/ discs > 0 /\ discs' = discs - 1 /\ UNCHANGED <<readErr, protoErr>>
    /\ Leaves
    /\ UNCHANGED <<token, writeErr, reader, pinger, proto, bad, writes, msgs>>

\* wg.Wait.
RunDone ==
    /\ run = "waiting" /\ reader = "done" /\ pinger = "done" /\ \A i \in Proto : proto[i] = "done"
    /\ run' = "done"
    /\ UNCHANGED <<closed, chans, reader, pinger, proto, bad, discs, writes, msgs>>

\* Disconnect does not wait for a peer that has left.
DiscClosed ==
    /\ discs > 0 /\ closed
    /\ discs' = discs - 1
    /\ UNCHANGED <<run, closed, chans, reader, pinger, proto, bad, writes, msgs>>

\* readLoop: a message for a protocol, which waits until the protocol reads it; or an error.
Read ==
    /\ reader = "read"
    /\ \/ /\ ~Broken /\ msgs < MaxMsgs
          /\ msgs' = msgs + 1 /\ \E i \in Proto : reader' = i
       \/ Broken /\ reader' = "failed" /\ UNCHANGED msgs
    /\ UNCHANGED <<run, closed, chans, pinger, proto, bad, discs, writes>>

HandOut == closed

HandIn(i) ==
    /\ reader = i
    /\ \/ proto[i] = "run" /\ reader' = "read"
       \/ HandOut /\ reader' = "failed"
    /\ UNCHANGED <<run, closed, chans, pinger, proto, bad, discs, writes, msgs>>

ReadFailed ==
    /\ reader = "failed" /\ Len(readErr) < 1
    /\ readErr' = Append(readErr, "err") /\ reader' = "done"
    /\ UNCHANGED <<run, closed, token, writeErr, protoErr, pinger, proto, bad, discs, writes, msgs>>

\* pingLoop.
Ping ==
    /\ pinger = "wait"
    /\ \/ bad /\ pinger' = "failed"
       \/ closed /\ pinger' = "done"
    /\ UNCHANGED <<run, closed, chans, reader, proto, bad, discs, writes, msgs>>

PingFailed ==
    /\ pinger = "failed" /\ Len(protoErr) < protoErrCap
    /\ protoErr' = Append(protoErr, "err") /\ pinger' = "done"
    /\ UNCHANGED <<run, closed, token, writeErr, readErr, reader, proto, bad, discs, writes, msgs>>

\* A protocol writes: it takes the token, writes, and reports.
WriteStart(i) ==
    /\ proto[i] = "run" /\ token > 0 /\ writes < MaxWrites
    /\ token' = token - 1 /\ writes' = writes + 1
    /\ proto' = [proto EXCEPT ![i] = "writing"]
    /\ UNCHANGED <<run, closed, writeErr, readErr, protoErr, reader, pinger, bad, discs, msgs>>

\* Mutant: the token is given back by the writer as well.
GivenBackTwice == token + 1
GivenBack == token

WriteDone(i) ==
    /\ proto[i] = "writing" /\ Len(writeErr) < 1
    /\ writeErr' = Append(writeErr, IF Broken THEN "err" ELSE "ok")
    /\ token' = GivenBack
    /\ proto' = [proto EXCEPT ![i] = IF Broken THEN "returned" ELSE "run"]
    /\ UNCHANGED <<run, closed, readErr, protoErr, reader, pinger, bad, discs, writes, msgs>>

\* A protocol returns: of its own accord, or because the peer is closed.
Return(i) ==
    /\ proto[i] = "run"
    /\ proto' = [proto EXCEPT ![i] = "returned"]
    /\ UNCHANGED <<run, closed, chans, reader, pinger, bad, discs, writes, msgs>>

Returned(i) ==
    /\ proto[i] = "returned" /\ Len(protoErr) < protoErrCap
    /\ protoErr' = Append(protoErr, "err")
    /\ proto' = [proto EXCEPT ![i] = "done"]
    /\ UNCHANGED <<run, closed, token, writeErr, readErr, reader, pinger, bad, discs, writes, msgs>>

Fails ==
    /\ ~bad /\ ~closed
    /\ bad' = TRUE
    /\ UNCHANGED <<run, closed, chans, reader, pinger, proto, discs, writes, msgs>>

Next ==
    \/ RunWritten \/ RunLeaves \/ RunDone \/ DiscClosed \/ Read \/ ReadFailed \/ Ping \/ PingFailed \/ Fails
    \/ \E i \in Proto : HandIn(i) \/ WriteStart(i) \/ WriteDone(i) \/ Return(i) \/ Returned(i)

Spec == Init /\ [][Next]_vars

-----------------------------------------------------------------------------
(* Properties. *)

TypeOK ==
    /\ token \in 0..2 /\ discs \in 0..1
    /\ Len(writeErr) <= 1 /\ Len(readErr) <= 1 /\ Len(protoErr) <= protoErrCap
    /\ run \in {"loop", "waiting", "done"}

\* There is one token: it is in writeStart, with a writer, or on its way back to run.
OneWriter ==
    token + Len(writeErr) + Cardinality({i \in Proto : proto[i] = "writing"}) <= 1

\* Once run has left its loop nothing blocks for good: a goroutine that is not done either
\* can go on, or waits for something that another one which can go on will do.
\* Here: the reader, the pinger and the protocols find room in their channels.
NoneBlocked ==
    run = "waiting" =>
        /\ reader = "failed" => Len(readErr) < 1
        /\ pinger = "failed" => Len(protoErr) < protoErrCap
        /\ \A i \in Proto : /\ proto[i] = "returned" => Len(protoErr) < protoErrCap
                            /\ proto[i] = "writing" => Len(writeErr) < 1
                            /\ reader = i /\ proto[i] # "run" => HandOut

=============================================================================
