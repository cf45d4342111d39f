------------------------------- MODULE ConnMgr -------------------------------
(***************************************************************************)
(* Who a node is connected to: the connection manager's goroutine          *)
(* (connmgr, connHandler), the goroutines and timers that make its         *)
(* connections (NewConnReq, Connect), and the server's goroutine           *)
(* (server.go, peerHandler), which keeps the lists of peers and tells the  *)
(* connection manager when a connection ends.                              *)
(*                                                                         *)
(* connHandler takes its messages from an unbuffered channel, so sending   *)
(* one and handling it are one step.  A goroutine that has just been       *)
(* started and a timer that has not run out look the same: neither has     *)
(* done anything yet.                                                      *)
(***************************************************************************)
EXTENDS Integers, Sequences, FiniteSets

CONSTANTS
    Addr,            \* addresses, each in a group of its own
    NoAddr, NoReq, NoConn,
    AddPeers,        \* sequence of addresses: the --addpeer options
    Nodes,           \* set of <<address, permanent>>: what RPC may ask for
    TargetOutbound,
    MaxPeers,
    MaxReqs,         \* bound: connection requests made
    MaxConns,        \* bound: connections made
    MaxEvents        \* bound: RPC commands and inbound connections

Req == 1..MaxReqs
Conn == 1..MaxConns

ASSUME ConstantsAssumption ==
    /\ NoAddr \notin Addr /\ NoReq \notin Req /\ NoConn \notin Conn
    /\ MaxReqs \in Nat /\ MaxConns \in Nat /\ MaxEvents \in Nat
    /\ TargetOutbound \in Nat /\ MaxPeers \in Nat
    /\ AddPeers \in Seq(Addr) /\ Nodes \subseteq Addr \X BOOLEAN

VARIABLES
    \* Connection requests.
    id,           \* [Req -> Nat]: 0 until it is assigned
    addr,         \* [Req -> Addr \cup {NoAddr}]
    perm,         \* [Req -> BOOLEAN]: Permanent
    state,        \* [Req -> the ConnState]
    work,         \* [Req -> what its goroutine does next]
    conn,         \* [Req -> the connection its last Dial made]
    \* The connection manager.
    pending, conns,
    connReqCount,
    starting,     \* NewConnReq calls that have not begun
    started,      \* Start has begun its NewConnReq calls
    \* Connections and the server's peers.
    req,          \* [Conn -> its request, NoReq if inbound]
    phase,        \* [Conn -> "none", "dialed", "open", "closed" or "done"]
    joining,      \* [Conn -> "no", "queued" or "handled"]: its AddPeer call
    listed,       \* the peers of peerState
    outboundGroups,
    reporting,    \* the request whose end peerHandler is about to report
    events

reqVars == <<id, addr, perm, state, work, conn>>
mgrVars == <<pending, conns, connReqCount, starting, started>>
peerVars == <<req, phase, joining, listed, outboundGroups, reporting>>
vars == <<reqVars, mgrVars, peerVars, events>>

\* What a goroutine or timer does next with a request: "unused" is a request
\* not made yet, "idle" one that is connected or was, "aborted" one that was a
\* duplicate, "gone" one that failed and has been replaced.
Work == {"unused", "register", "address", "ask", "assign", "dial", "connected",
         "failed", "timer", "abort", "idle", "aborted", "gone"}

Working(r) == work[r] \in {"register", "address", "ask", "assign", "dial",
                           "connected", "failed", "timer"}

\* At the start there is a goroutine in Connect for every --addpeer option.
Init ==
    /\ id = [r \in Req |-> 0]
    /\ addr = [r \in Req |-> IF r \in DOMAIN AddPeers THEN AddPeers[r]
                             ELSE NoAddr]
    /\ perm = [r \in Req |-> r \in DOMAIN AddPeers]
    /\ state = [r \in Req |-> "ConnPending"]
    /\ work = [r \in Req |-> IF r \in DOMAIN AddPeers THEN "ask" ELSE "unused"]
    /\ conn = [r \in Req |-> NoConn]
    /\ pending = {} /\ conns = {} /\ connReqCount = 0
    /\ starting = 0 /\ started = FALSE
    /\ req = [k \in Conn |-> NoReq]
    /\ phase = [k \in Conn |-> "none"]
    /\ joining = [k \in Conn |-> "no"]
    /\ listed = {} /\ outboundGroups = [a \in Addr |-> 0]
    /\ reporting = NoReq
    /\ events = 0

\* Commands and inbound connections come when the node is up.
Event == started /\ events < MaxEvents /\ events' = events + 1

\* The next request, the next connection.
Fresh(r) == work[r] = "unused" /\ \A q \in Req : q < r => work[q] # "unused"
Unmade(k) == phase[k] = "none" /\ \A j \in Conn : j < k => phase[j] # "none"

-----------------------------------------------------------------------------
(* Goroutines that make connections.                                        *)

\* The requests that have an id already count towards the target.
Start ==
    /\ ~started /\ started' = TRUE
    /\ starting' = IF connReqCount < TargetOutbound
                   THEN starting + TargetOutbound - connReqCount ELSE starting
    /\ UNCHANGED <<reqVars, pending, conns, connReqCount, peerVars, events>>

NewConnReq(r) ==
    /\ starting > 0 /\ Fresh(r)
    /\ starting' = starting - 1
    /\ connReqCount' = connReqCount + 1
    /\ id' = [id EXCEPT ![r] = connReqCount + 1]
    /\ work' = [work EXCEPT ![r] = "register"]
    /\ UNCHANGED <<addr, perm, state, conn, pending, conns, started, peerVars,
                   events>>

\* newAddressFunc, which asks peerHandler for the group counts; it may find no
\* address.
GetNewAddress(r) ==
    /\ work[r] = "address" /\ reporting = NoReq
    /\ \/ \E a \in Addr :
            /\ outboundGroups[a] = 0
            /\ addr' = [addr EXCEPT ![r] = a]
            /\ work' = [work EXCEPT ![r] = "ask"]
       \/ work' = [work EXCEPT ![r] = "failed"] /\ UNCHANGED addr
    /\ UNCHANGED <<id, perm, state, conn, mgrVars, peerVars, events>>

\* answerIsConnected: another request for the address that is established, or
\* is older and pending.
Connected(r) ==
    \E c \in pending \cup conns :
        /\ addr[c] = addr[r]
        /\ state[c] \in {"ConnPending", "ConnEstablished"}
        /\ c \in conns \/ id[r] > id[c]

\* Connect asks first, and removes the request if there is another one.
IsConnected(r) ==
    /\ work[r] = "ask"
    /\ work' = [work EXCEPT ![r] = IF Connected(r) THEN "abort"
                                   ELSE IF id[r] = 0 THEN "assign" ELSE "dial"]
    /\ UNCHANGED <<id, addr, perm, state, conn, mgrVars, peerVars, events>>

AssignId(r) ==
    /\ work[r] = "assign"
    /\ connReqCount' = connReqCount + 1
    /\ id' = [id EXCEPT ![r] = connReqCount + 1]
    /\ work' = [work EXCEPT ![r] = "register"]
    /\ UNCHANGED <<addr, perm, state, conn, pending, conns, starting, started,
                   peerVars, events>>

Dial(r) ==
    /\ work[r] = "dial"
    /\ \/ \E k \in Conn :
            /\ Unmade(k)
            /\ phase' = [phase EXCEPT ![k] = "dialed"]
            /\ req' = [req EXCEPT ![k] = r]
            /\ conn' = [conn EXCEPT ![r] = k]
            /\ work' = [work EXCEPT ![r] = "connected"]
       \/ /\ work' = [work EXCEPT ![r] = "failed"]
          /\ UNCHANGED <<phase, req, conn>>
    /\ UNCHANGED <<id, addr, perm, state, mgrVars, joining, listed,
                   outboundGroups, reporting, events>>

\* The timer of a retry runs out and Connect is called again.
RetryTimer(r) ==
    /\ work[r] = "timer"
    /\ work' = [work EXCEPT ![r] = "ask"]
    /\ UNCHANGED <<id, addr, perm, state, conn, mgrVars, peerVars, events>>

-----------------------------------------------------------------------------
(* connHandler.                                                             *)

registerPending(r) ==
    /\ work[r] = "register"
    /\ state' = [state EXCEPT ![r] = "ConnPending"]
    /\ pending' = pending \cup {r}
    /\ work' = [work EXCEPT ![r] = IF addr[r] = NoAddr THEN "address"
                                   ELSE "dial"]
    /\ UNCHANGED <<id, addr, perm, conn, conns, connReqCount, starting,
                   started, peerVars, events>>

\* A connection nobody wants any more is closed; otherwise outboundPeerConnected
\* makes a peer of it.
handleConnected(r) ==
    LET wanted == r \in pending
    IN  /\ work[r] = "connected"
        /\ state' = [state EXCEPT ![r] = IF wanted THEN "ConnEstablished" ELSE @]
        /\ conns' = IF wanted THEN conns \cup {r} ELSE conns
        /\ pending' = pending \ {r}
        /\ work' = [work EXCEPT ![r] = IF wanted THEN "idle" ELSE "gone"]
        /\ phase' = [phase EXCEPT ![conn[r]] = IF wanted THEN "open" ELSE "done"]
        /\ UNCHANGED <<id, addr, perm, conn, connReqCount, starting, started,
                       req, joining, listed, outboundGroups, reporting,
                       events>>

\* Mutant: the request is no longer pending while its timer runs.
handleFailed_Forgets(r) ==
    LET wanted == r \in pending
        retried == wanted /\ perm[r]
    IN  /\ work[r] = "failed"
        /\ state' = [state EXCEPT ![r] = IF retried THEN "ConnPending"
                                         ELSE IF wanted THEN "ConnFailing"
                                         ELSE @]
        /\ work' = [work EXCEPT ![r] = IF retried THEN "timer" ELSE "gone"]
        /\ starting' = IF wanted /\ ~perm[r] THEN starting + 1 ELSE starting
        /\ pending' = pending \ {r}
        /\ UNCHANGED <<id, addr, perm, conn, conns, connReqCount, started,
                       peerVars, events>>

\* A permanent request is retried; another one is replaced (handleFailedConn),
\* and stays in the pending map.
handleFailed(r) ==
    LET wanted == r \in pending
        retried == wanted /\ perm[r]
    IN  /\ work[r] = "failed"
        /\ state' = [state EXCEPT ![r] = IF retried THEN "ConnPending"
                                         ELSE IF wanted THEN "ConnFailing"
                                         ELSE @]
        /\ work' = [work EXCEPT ![r] = IF retried THEN "timer" ELSE "gone"]
        /\ starting' = IF wanted /\ ~perm[r] THEN starting + 1 ELSE starting
        /\ UNCHANGED <<id, addr, perm, conn, pending, conns, connReqCount,
                       started, peerVars, events>>

\* Mutant: connections are counted before the lost one is removed.
handleDisconnected_Early(r, again) ==
    LET found == r \in conns
        retried == found /\ again /\ perm[r]
        replaced == /\ found /\ again /\ ~perm[r]
                    /\ Cardinality(conns) < TargetOutbound
    IN  /\ conns' = conns \ {r}
        /\ pending' = IF retried THEN pending \cup {r}
                      ELSE IF found THEN pending ELSE pending \ {r}
        /\ state' = [state EXCEPT ![r] = IF retried THEN "ConnPending"
                                         ELSE IF found /\ ~again
                                         THEN "ConnDisconnected"
                                         ELSE IF r \in pending
                                         THEN "ConnCanceled" ELSE @]
        /\ work' = [work EXCEPT ![r] = IF retried THEN "timer"
                                       ELSE IF again THEN @ ELSE "aborted"]
        /\ starting' = IF replaced THEN starting + 1 ELSE starting
        /\ UNCHANGED <<id, addr, perm, conn, connReqCount, started>>

\* The end of a connection, or of a request that is not connected.  "again" is
\* the message's retry: TRUE from Disconnect, FALSE from Remove.
handleDisconnected(r, again) ==
    LET found == r \in conns
        retried == found /\ again /\ perm[r]
        replaced == /\ found /\ again /\ ~perm[r]
                    /\ Cardinality(conns \ {r}) < TargetOutbound
    IN  /\ conns' = conns \ {r}
        /\ pending' = IF retried THEN pending \cup {r}
                      ELSE IF found THEN pending ELSE pending \ {r}
        /\ state' = [state EXCEPT ![r] = IF retried THEN "ConnPending"
                                         ELSE IF found /\ ~again
                                         THEN "ConnDisconnected"
                                         ELSE IF ~found /\ r \in pending
                                         THEN "ConnCanceled" ELSE @]
        /\ work' = [work EXCEPT ![r] = IF retried THEN "timer"
                                       ELSE IF again THEN @ ELSE "aborted"]
        /\ starting' = IF replaced THEN starting + 1 ELSE starting
        /\ UNCHANGED <<id, addr, perm, conn, connReqCount, started>>

\* Connect removes a duplicate request.
Remove(r) ==
    /\ work[r] = "abort"
    /\ handleDisconnected(r, FALSE)
    /\ UNCHANGED <<peerVars, events>>

\* peerHandler reports the end of a connection.
Disconnect(r) ==
    /\ reporting = r
    /\ handleDisconnected(r, TRUE)
    /\ reporting' = NoReq
    /\ UNCHANGED <<req, phase, joining, listed, outboundGroups, events>>

-----------------------------------------------------------------------------
(* Connections and peerHandler.                                             *)

inboundPeerConnected(k) ==
    /\ Unmade(k) /\ Event
    /\ phase' = [phase EXCEPT ![k] = "open"]
    /\ UNCHANGED <<reqVars, mgrVars, req, joining, listed, outboundGroups,
                   reporting>>

\* The version message has come and OnVersion calls AddPeer.
OnVersion(k) ==
    /\ phase[k] = "open" /\ joining[k] = "no"
    /\ joining' = [joining EXCEPT ![k] = "queued"]
    /\ UNCHANGED <<reqVars, mgrVars, req, phase, listed, outboundGroups,
                   reporting, events>>

\* The connection ends, for whatever reason, and peerDoneHandler says so.
Close(k) ==
    /\ phase[k] = "open"
    /\ phase' = [phase EXCEPT ![k] = "closed"]
    /\ UNCHANGED <<reqVars, mgrVars, req, joining, listed, outboundGroups,
                   reporting, events>>

Inbound(k) == req[k] = NoReq
persistent(k) == ~Inbound(k) /\ perm[req[k]]

\* sp.Disconnect on a set of peers.
Closed(K) == [k \in Conn |-> IF k \in K /\ phase[k] = "open" THEN "closed"
                             ELSE phase[k]]

\* outboundGroups with the peers K counted once more, or once less.
Counted(K, step) ==
    [a \in Addr |-> outboundGroups[a]
        + step * Cardinality({k \in K : ~Inbound(k) /\ addr[req[k]] = a})]

\* A peer is refused when there are MaxPeers already, or when it is banned.
handleAddPeerMsg(k) ==
    /\ reporting = NoReq /\ joining[k] = "queued"
    /\ joining' = [joining EXCEPT ![k] = "handled"]
    /\ \/ /\ Cardinality(listed) < MaxPeers
          /\ listed' = listed \cup {k}
          /\ outboundGroups' = Counted({k}, 1)
          /\ UNCHANGED phase
       \/ /\ phase' = Closed({k})
          /\ UNCHANGED <<listed, outboundGroups>>
    /\ UNCHANGED <<reqVars, mgrVars, req, reporting, events>>

\* Mutant: the end of a connection whose peer is not listed is not reported.
handleDonePeerMsg_Listed(k) ==
    /\ reporting = NoReq /\ phase[k] = "closed"
    /\ phase' = [phase EXCEPT ![k] = "done"]
    /\ listed' = listed \ {k}
    /\ outboundGroups' = Counted(listed \cap {k}, -1)
    /\ reporting' = IF k \in listed THEN req[k] ELSE NoReq
    /\ UNCHANGED <<reqVars, mgrVars, req, joining, events>>

handleDonePeerMsg(k) ==
    /\ reporting = NoReq /\ phase[k] = "closed"
    /\ phase' = [phase EXCEPT ![k] = "done"]
    /\ listed' = listed \ {k}
    /\ outboundGroups' = Counted(listed \cap {k}, -1)
    /\ reporting' = req[k]
    /\ UNCHANGED <<reqVars, mgrVars, req, joining, events>>

Command == reporting = NoReq /\ Event

\* connectNodeMsg: RPC addnode and node connect.
ConnectNode(r, a, permanent) ==
    /\ Command /\ Fresh(r)
    /\ Cardinality(listed) < MaxPeers
    /\ ~\E k \in listed : persistent(k) /\ addr[req[k]] = a
    /\ addr' = [addr EXCEPT ![r] = a]
    /\ perm' = [perm EXCEPT ![r] = permanent]
    /\ work' = [work EXCEPT ![r] = "ask"]
    /\ UNCHANGED <<id, state, conn, mgrVars, peerVars>>

\* disconnectPeer on every peer of K: it leaves its list and is disconnected.
Dropped(K) ==
    /\ listed' = listed \ K
    /\ outboundGroups' = Counted(K, -1)
    /\ phase' = Closed(K)
    /\ UNCHANGED <<reqVars, mgrVars, req, joining, reporting>>

\* Mutant: the group of the removed peer is still counted.
RemoveNode_Counted(k) ==
    /\ Command /\ k \in listed /\ persistent(k)
    /\ listed' = listed \ {k}
    /\ phase' = Closed({k})
    /\ UNCHANGED <<reqVars, mgrVars, req, joining, outboundGroups, reporting>>

\* removeNodeMsg: a persistent peer.
RemoveNode(k) ==
    /\ Command /\ k \in listed /\ persistent(k)
    /\ Dropped({k})

\* disconnectNodeMsg: an inbound peer, or an outbound one that is not
\* persistent, named by its id or, with every other one like it, by address.
DisconnectNode(k) ==
    /\ Command /\ k \in listed /\ ~persistent(k)
    /\ \/ Dropped({k})
       \/ /\ ~Inbound(k)
          /\ Dropped({j \in listed : /\ ~Inbound(j) /\ ~persistent(j)
                                    /\ addr[req[j]] = addr[req[k]]})

-----------------------------------------------------------------------------
Next ==
    \/ Start
    \/ \E r \in Req :
        \/ NewConnReq(r) \/ GetNewAddress(r) \/ IsConnected(r) \/ AssignId(r)
        \/ Dial(r) \/ RetryTimer(r)
        \/ registerPending(r) \/ handleConnected(r) \/ handleFailed(r)
        \/ Remove(r) \/ Disconnect(r)
        \/ \E n \in Nodes : ConnectNode(r, n[1], n[2])
    \/ \E k \in Conn :
        \/ inboundPeerConnected(k) \/ OnVersion(k) \/ Close(k)
        \/ handleAddPeerMsg(k) \/ handleDonePeerMsg(k)
        \/ RemoveNode(k) \/ DisconnectNode(k)

Spec == Init /\ [][Next]_vars

-----------------------------------------------------------------------------
\* A permanent request is never given up: whatever fails or ends, it is
\* connected or a goroutine or timer is at work on it, and then the connection
\* manager still has it as pending, so that the connection made is not thrown
\* away.  Only a duplicate is removed.
PermanentKept ==
    \A r \in Req : perm[r] =>
        \/ r \in conns /\ r \notin pending /\ work[r] = "idle"
        \/ r \in pending /\ r \notin conns /\ (Working(r) \/ work[r] = "abort")
        \/ r \notin pending \cup conns
           /\ work[r] \in {"ask", "assign", "register", "abort", "aborted"}

\* The end of every established connection is reported exactly once, however
\* the peer was refused, removed or disconnected before: no entry of conns is
\* left behind, and no report cancels a request that is being retried.
EndsReportedOnce ==
    /\ \A r \in conns :
         phase[conn[r]] \in IF reporting = r THEN {"done"}
                            ELSE {"open", "closed"}
    /\ \A k \in Conn :
         phase[k] \in {"open", "closed"} /\ ~Inbound(k) =>
             req[k] \in conns /\ conn[req[k]] = k
    /\ reporting # NoReq => reporting \in conns

\* The slots for outbound connections are kept: what is connected, being
\* connected or about to be adds up to TargetOutbound, except for requests that
\* were removed as duplicates.
SlotsKept ==
    started =>
        Cardinality(conns) + starting
        + Cardinality({r \in Req : Working(r)})
        + Cardinality({r \in Req : work[r] \in {"abort", "aborted"}})
            >= TargetOutbound

\* newAddressFunc avoids a group that outboundGroups counts; the counts are
\* those of the peers in the lists, however they got there and left.
GroupCounts ==
    \A a \in Addr : outboundGroups[a] =
        Cardinality({k \in listed : ~Inbound(k) /\ addr[req[k]] = a})

=============================================================================
