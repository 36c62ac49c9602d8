------------------------------ MODULE P2PServer ------------------------------
(***************************************************************************)
(* How the p2p server (lib/p2p/server.go) admits connections.  Every       *)
(* connection is set up by a goroutine of its own, which asks the loop     *)
(* (Server.run) twice: after the encryption handshake and after the        *)
(* protocol handshake.  The loop alone has the set of peers; a peer runs   *)
(* in a goroutine (runPeer) that reports its end on delpeer.               *)
(***************************************************************************)
EXTENDS Integers, FiniteSets

CONSTANTS
    Conn, Node,          \* connections, and whose they are
    Inbound, Static,     \* the accepted ones, and those dialed as static; the others are dialed freely
    Self,                \* the node itself
    MaxPeers, MaxInbound,
    MaxPendingPeers,     \* the slots of the listener
    Trusted0, MaxTrust   \* TrustedNodes, and how often the set changes

VARIABLES
    stage,      \* where each connection is
    peers,      \* the connection of each node, in the loop
    inboundCount,
    trusted,    \* the trusted nodes
    flagged,    \* the connections marked as trusted
    admitted,   \* those that were let in without a privilege
    phase,      \* of the loop: "running", "spindown", "stopped"
    changes

vars == <<stage, peers, inboundCount, trusted, flagged, admitted, phase, changes>>

Nodes == {Node[c] : c \in Conn}
None == "none"
Peers == {peers[n] : n \in Nodes} \ {None}

Init ==
    /\ stage = [c \in Conn |-> "off"] /\ peers = [n \in Nodes |-> None]
    /\ inboundCount = 0 /\ trusted = Trusted0 /\ flagged = {} /\ admitted = {}
    /\ phase = "running" /\ changes = 0

SetupStages == {"enc", "posthandshake", "proto", "addpeer"}
InSetup == {c \in Inbound : stage[c] \in SetupStages}

\* listenLoop takes a slot for the connection; a dialed one has its task.  setupConn looks whether the server runs.
Begin(c) ==
    /\ stage[c] = "off" /\ phase = "running"
    /\ c \in Inbound => Cardinality(InSetup) < MaxPendingPeers
    /\ stage' = [stage EXCEPT ![c] = "enc"]
    /\ UNCHANGED <<peers, inboundCount, trusted, flagged, admitted, phase, changes>>

\* A handshake ends; if well, the connection goes to the loop.
Shake(c, from, to) ==
    /\ stage[c] = from
    /\ \E s \in {to, "closed"} : stage' = [stage EXCEPT ![c] = s]
    /\ UNCHANGED <<peers, inboundCount, trusted, flagged, admitted, phase, changes>>
EncHandshake(c) == Shake(c, "enc", "posthandshake")
ProtoHandshake(c) == Shake(c, "proto", "addpeer")

\* encHandshakeChecks, with the flags of the connection.
Privileged(c, fl) == c \in fl \/ c \in Static
encHandshakeChecks(c, fl) ==
    /\ Privileged(c, fl) \/ Cardinality(Peers) < MaxPeers
    /\ c \in fl \/ c \notin Inbound \/ inboundCount < MaxInbound
    /\ peers[Node[c]] = None
    /\ Node[c] # Self

\* Mutant: what was checked before the protocol handshake is not checked again.
protoHandshakeChecksStale(c, fl) == TRUE
protoHandshakeChecks(c, fl) == encHandshakeChecks(c, fl)

Posthandshake(c) ==
    LET fl == IF Node[c] \in trusted THEN flagged \cup {c} ELSE flagged
    IN /\ stage[c] = "posthandshake" /\ phase = "running"
       /\ flagged' = fl
       /\ stage' = [stage EXCEPT ![c] = IF encHandshakeChecks(c, fl) THEN "proto" ELSE "closed"]
       /\ UNCHANGED <<peers, inboundCount, trusted, admitted, phase, changes>>

AddPeer(c) ==
    /\ stage[c] = "addpeer" /\ phase = "running"
    /\ IF protoHandshakeChecks(c, flagged)
       THEN /\ stage' = [stage EXCEPT ![c] = "running"]
            /\ peers' = [peers EXCEPT ![Node[c]] = c]
            /\ inboundCount' = inboundCount + (IF c \in Inbound THEN 1 ELSE 0)
            /\ admitted' = IF Privileged(c, flagged) THEN admitted ELSE admitted \cup {c}
       ELSE /\ stage' = [stage EXCEPT ![c] = "closed"]
            /\ UNCHANGED <<peers, inboundCount, admitted>>
    /\ UNCHANGED <<trusted, flagged, phase, changes>>

\* checkpoint gives up once quit is closed.
Stopping(c) ==
    /\ stage[c] \in {"posthandshake", "addpeer"} /\ phase # "running"
    /\ stage' = [stage EXCEPT ![c] = "closed"]
    /\ UNCHANGED <<peers, inboundCount, trusted, flagged, admitted, phase, changes>>

\* p.run returns, because of the remote node or of a call of Disconnect (by a protocol, by
\* RemovePeer, or by the loop when the server stops).
PeerEnds(c) ==
    /\ stage[c] = "running"
    /\ stage' = [stage EXCEPT ![c] = "delpeer"]
    /\ UNCHANGED <<peers, inboundCount, trusted, flagged, admitted, phase, changes>>

\* The loop, or what is left of it when the server stops, takes it from delpeer.
Counted(c) == IF c \in Inbound /\ phase = "running" THEN inboundCount - 1 ELSE inboundCount

DelPeer(c) ==
    /\ stage[c] = "delpeer" /\ phase # "stopped"
    /\ stage' = [stage EXCEPT ![c] = "closed"]
    /\ peers' = [peers EXCEPT ![Node[c]] = None]
    /\ inboundCount' = Counted(c)
    /\ admitted' = admitted \ {c}
    /\ UNCHANGED <<trusted, flagged, phase, changes>>

\* AddTrustedPeer, RemoveTrustedPeer.
Trust(n) ==
    /\ phase = "running" /\ changes < MaxTrust
    /\ changes' = changes + 1
    /\ IF n \in trusted
       THEN trusted' = trusted \ {n} /\ flagged' = flagged \ {peers[n]}
       ELSE trusted' = trusted \cup {n} /\ flagged' = flagged \cup ({peers[n]} \ {None})
    /\ UNCHANGED <<stage, peers, inboundCount, admitted, phase>>

\* Stop closes quit; the loop asks every peer to go, and waits for them.
Quit ==
    /\ phase = "running"
    /\ phase' = "spindown"
    /\ UNCHANGED <<stage, peers, inboundCount, trusted, flagged, admitted, changes>>

Drained == Peers = {}

Stopped ==
    /\ phase = "spindown" /\ Drained
    /\ phase' = "stopped"
    /\ UNCHANGED <<stage, peers, inboundCount, trusted, flagged, admitted, changes>>

Next ==
    \/ \E c \in Conn : \/ Begin(c) \/ EncHandshake(c) \/ Posthandshake(c) \/ ProtoHandshake(c)
                       \/ AddPeer(c) \/ Stopping(c) \/ PeerEnds(c) \/ DelPeer(c)
    \/ \E n \in Nodes : Trust(n)
    \/ Quit \/ Stopped

Spec == Init /\ [][Next]_vars

-----------------------------------------------------------------------------
(* Properties. *)

\* Types; the listener never has more connections in setup than slots.
TypeOK ==
    /\ stage \in [Conn -> SetupStages \cup {"off", "running", "delpeer", "closed"}]
    /\ Cardinality(InSetup) <= MaxPendingPeers
    /\ phase \in {"running", "spindown", "stopped"}

\* The peers of the loop are exactly the connections that run or wait on delpeer: no
\* connection runs that the loop does not know, though two of one node may pass the first check.
PeersExact == Peers = {c \in Conn : stage[c] \in {"running", "delpeer"}}

\* The inbound counter is that of the inbound peers, so that no slot is lost when a peer goes.
InboundExact == phase = "running" => inboundCount = Cardinality(Peers \cap Inbound)

\* No more peers are let in without a privilege than MaxPeers, and none is the node itself.
Bounded ==
    /\ Cardinality(admitted) <= MaxPeers /\ Cardinality(admitted \cap Inbound) <= MaxInbound
    /\ \A c \in Peers : Node[c] # Self

\* When the server has stopped no peer is left.
StoppedClean == phase = "stopped" => \A c \in Conn : stage[c] \notin {"running", "delpeer"}

=============================================================================
