--------------------------- MODULE ConnMgr_proofs ---------------------------
(* Proofs about ConnMgr: permanent requests are kept, the end of every      *)
(* connection is reported once, and the group counts are exact, for any     *)
(* number of requests, connections, addresses and commands.                 *)
EXTENDS ConnMgr, FiniteSetTheorems, TLAPS

Phase == {"none", "dialed", "open", "closed", "done"}

TypeInv ==
    /\ id \in [Req -> Nat] /\ connReqCount \in Nat
    /\ addr \in [Req -> Addr \cup {NoAddr}]
    /\ perm \in [Req -> BOOLEAN]
    /\ work \in [Req -> Work]
    /\ conn \in [Req -> Conn \cup {NoConn}]
    /\ pending \subseteq Req /\ conns \subseteq Req
    /\ req \in [Conn -> Req \cup {NoReq}]
    /\ phase \in [Conn -> Phase]
    /\ joining \in [Conn -> {"no", "queued", "handled"}]
    /\ listed \subseteq Conn
    /\ reporting \in Req \cup {NoReq}

\* Where a request is registered, by what its goroutine does next.
ReqInv ==
    \A r \in Req :
        /\ work[r] = "unused" => id[r] = 0 /\ ~perm[r]
        /\ work[r] = "assign" => id[r] = 0
        /\ work[r] \in {"unused", "register", "assign"}
             => r \notin pending /\ r \notin conns
        /\ work[r] = "ask" => r \notin conns /\ (r \in pending <=> id[r] # 0)
        /\ work[r] \in {"address", "dial", "connected", "failed", "timer"}
             => r \in pending /\ r \notin conns /\ id[r] # 0
        /\ work[r] = "register" => id[r] # 0
        /\ work[r] = "abort" => r \notin conns
        /\ work[r] = "aborted" => r \notin conns /\ r \notin pending
        /\ r \in conns => work[r] = "idle" /\ r \notin pending /\ id[r] # 0
        /\ perm[r] => work[r] # "gone" /\ (work[r] = "idle" => r \in conns)

\* Which connection belongs to which request.
ConnInv ==
    /\ \A k \in Conn : phase[k] = "none" => req[k] = NoReq
    /\ \A r \in Req : work[r] = "connected" =>
         /\ conn[r] \in Conn /\ req[conn[r]] = r
         /\ phase[conn[r]] = "dialed"
    /\ \A r \in conns :
         /\ conn[r] \in Conn /\ req[conn[r]] = r
         /\ phase[conn[r]] \in IF reporting = r THEN {"done"}
                               ELSE {"open", "closed"}
    /\ \A k \in Conn :
         phase[k] \in {"open", "closed"} /\ req[k] # NoReq =>
             req[k] \in conns /\ conn[req[k]] = k
    /\ reporting # NoReq => reporting \in conns

\* A request with a connection has an address, and a listed peer is one that
\* was added.
AddrInv ==
    /\ \A r \in Req :
         /\ work[r] \in {"unused", "address"} => addr[r] = NoAddr
         /\ work[r] \in {"ask", "assign", "dial", "connected", "timer"}
              => addr[r] # NoAddr
         /\ perm[r] => addr[r] # NoAddr
    /\ \A r \in conns : addr[r] # NoAddr
    /\ \A k \in Conn : req[k] # NoReq => addr[req[k]] # NoAddr
    /\ \A k \in Conn : joining[k] # "no" => phase[k] # "none"
    /\ \A k \in listed : joining[k] = "handled"

-----------------------------------------------------------------------------
\* Every step keeps the types.
LEMMA TypeStep ==
    ASSUME TypeInv, [Next]_vars
    PROVE  TypeInv'
<1> USE ConstantsAssumption
<1>1. ASSUME Start PROVE TypeInv'
  BY <1>1 DEF Start, TypeInv, Work, Phase, reqVars, mgrVars, peerVars
<1>2. ASSUME NEW r \in Req, NewConnReq(r) PROVE TypeInv'
  BY <1>2
    DEF NewConnReq, Fresh, TypeInv, Work, Phase, reqVars, mgrVars, peerVars
<1>3. ASSUME NEW r \in Req, GetNewAddress(r) PROVE TypeInv'
  <2>1. work' \in [Req -> Work] /\ addr' \in [Req -> Addr \cup {NoAddr}]
    <3>1. CASE UNCHANGED addr /\ work' = [work EXCEPT ![r] = "failed"]
      BY <3>1 DEF TypeInv, Work
    <3>2. ASSUME NEW a \in Addr, addr' = [addr EXCEPT ![r] = a],
                 work' = [work EXCEPT ![r] = "ask"]
          PROVE  work' \in [Req -> Work] /\ addr' \in [Req -> Addr \cup {NoAddr}]
      BY <3>2 DEF TypeInv, Work
    <3>3. QED
      BY <1>3, <3>1, <3>2 DEF GetNewAddress
  <2>2. QED
    BY <1>3, <2>1 DEF GetNewAddress, TypeInv, mgrVars, peerVars
<1>4. ASSUME NEW r \in Req, IsConnected(r) PROVE TypeInv'
  BY <1>4 DEF IsConnected, TypeInv, Work, Phase, reqVars, mgrVars, peerVars
<1>5. ASSUME NEW r \in Req, AssignId(r) PROVE TypeInv'
  BY <1>5 DEF AssignId, TypeInv, Work, Phase, reqVars, mgrVars, peerVars
<1>6. ASSUME NEW r \in Req, Dial(r) PROVE TypeInv'
  <2>1. CASE /\ work' = [work EXCEPT ![r] = "failed"]
             /\ UNCHANGED <<phase, req, conn>>
    BY <1>6, <2>1 DEF Dial, TypeInv, Work, mgrVars
  <2>2. ASSUME NEW k \in Conn, phase' = [phase EXCEPT ![k] = "dialed"],
               req' = [req EXCEPT ![k] = r], conn' = [conn EXCEPT ![r] = k],
               work' = [work EXCEPT ![r] = "connected"]
        PROVE  TypeInv'
    BY <1>6, <2>2, SMTT(30) DEF Dial, TypeInv, Work, Phase, mgrVars
  <2>3. QED
    BY <1>6, <2>1, <2>2 DEF Dial
<1>7. ASSUME NEW r \in Req, RetryTimer(r) PROVE TypeInv'
  BY <1>7 DEF RetryTimer, TypeInv, Work, Phase, reqVars, mgrVars, peerVars
<1>8. ASSUME NEW r \in Req, registerPending(r) PROVE TypeInv'
  BY <1>8 DEF registerPending, TypeInv, Work, Phase, reqVars, mgrVars, peerVars
<1>9. ASSUME NEW r \in Req, handleConnected(r) PROVE TypeInv'
  BY <1>9, Zenon DEF handleConnected, TypeInv, Work, Phase, reqVars, mgrVars, peerVars
<1>10. ASSUME NEW r \in Req, handleFailed(r) PROVE TypeInv'
  BY <1>10 DEF handleFailed, TypeInv, Work, Phase, reqVars, mgrVars, peerVars
<1>11. ASSUME NEW r \in Req, Remove(r) PROVE TypeInv'
  BY <1>11
    DEF Remove, handleDisconnected, TypeInv, Work, Phase, reqVars, mgrVars,
        peerVars
<1>12. ASSUME NEW r \in Req, Disconnect(r) PROVE TypeInv'
  BY <1>12
    DEF Disconnect, handleDisconnected, TypeInv, Work, Phase, reqVars, mgrVars,
        peerVars
<1>13. ASSUME NEW r \in Req, NEW n \in Nodes, ConnectNode(r, n[1], n[2])
       PROVE  TypeInv'
  BY <1>13
    DEF ConnectNode, Command, Event, Fresh, TypeInv, Work, Phase, reqVars,
        mgrVars, peerVars
<1>14. ASSUME NEW k \in Conn, inboundPeerConnected(k) PROVE TypeInv'
  BY <1>14
    DEF inboundPeerConnected, Unmade, Event, TypeInv, Work, Phase, reqVars,
        mgrVars, peerVars
<1>15. ASSUME NEW k \in Conn, OnVersion(k) PROVE TypeInv'
  BY <1>15 DEF OnVersion, TypeInv, Work, Phase, reqVars, mgrVars, peerVars
<1>16. ASSUME NEW k \in Conn, Close(k) PROVE TypeInv'
  BY <1>16 DEF Close, TypeInv, Work, Phase, reqVars, mgrVars, peerVars
<1>17. ASSUME NEW k \in Conn, handleAddPeerMsg(k) PROVE TypeInv'
  BY <1>17
    DEF handleAddPeerMsg, Closed, TypeInv, Work, Phase, reqVars, mgrVars,
        peerVars
<1>18. ASSUME NEW k \in Conn, handleDonePeerMsg(k) PROVE TypeInv'
  BY <1>18
    DEF handleDonePeerMsg, TypeInv, Work, Phase, reqVars, mgrVars, peerVars
<1>drop. ASSUME NEW K \in SUBSET listed, Command, Dropped(K) PROVE TypeInv'
  BY <1>drop
    DEF Dropped, Closed, Command, Event, TypeInv, Work, Phase,
        reqVars, mgrVars, peerVars
<1>19. ASSUME NEW k \in Conn, RemoveNode(k) PROVE TypeInv'
  BY <1>19, <1>drop DEF RemoveNode
<1>20. ASSUME NEW k \in Conn, DisconnectNode(k) PROVE TypeInv'
  BY <1>20, <1>drop DEF DisconnectNode
<1>21. ASSUME UNCHANGED vars PROVE TypeInv'
  BY <1>21 DEF vars, TypeInv, Work, Phase, reqVars, mgrVars, peerVars
<1>22. QED
  BY <1>1, <1>2, <1>3, <1>4, <1>5, <1>6, <1>7, <1>8, <1>9, <1>10,
     <1>11, <1>12, <1>13, <1>14, <1>15, <1>16, <1>17, <1>18, <1>19,
     <1>20, <1>21
    DEF Next

\* Every step keeps requests registered where their goroutines expect them.
LEMMA ReqStep ==
    ASSUME TypeInv, ReqInv, ConnInv, [Next]_vars
    PROVE  ReqInv'
<1> USE ConstantsAssumption
<1>1. ASSUME Start PROVE ReqInv'
  BY <1>1 DEF Start, TypeInv, ReqInv, ConnInv, Work, reqVars, mgrVars, peerVars
<1>2. ASSUME NEW r \in Req, NewConnReq(r) PROVE ReqInv'
  BY <1>2
    DEF NewConnReq, Fresh, TypeInv, ReqInv, ConnInv, Work, reqVars, mgrVars,
        peerVars
<1>3. ASSUME NEW r \in Req, GetNewAddress(r) PROVE ReqInv'
  BY <1>3
    DEF GetNewAddress, TypeInv, ReqInv, ConnInv, Work, reqVars, mgrVars,
        peerVars
<1>4. ASSUME NEW r \in Req, IsConnected(r) PROVE ReqInv'
  BY <1>4, SMTT(30)
    DEF IsConnected, TypeInv, ReqInv, ConnInv, Work, reqVars, mgrVars, peerVars
<1>5. ASSUME NEW r \in Req, AssignId(r) PROVE ReqInv'
  BY <1>5
    DEF AssignId, TypeInv, ReqInv, ConnInv, Work, reqVars, mgrVars, peerVars
<1>6. ASSUME NEW r \in Req, Dial(r) PROVE ReqInv'
  BY <1>6
    DEF Dial, Unmade, TypeInv, ReqInv, ConnInv, Work, reqVars, mgrVars, peerVars
<1>7. ASSUME NEW r \in Req, RetryTimer(r) PROVE ReqInv'
  BY <1>7
    DEF RetryTimer, TypeInv, ReqInv, ConnInv, Work, reqVars, mgrVars, peerVars
<1>8. ASSUME NEW r \in Req, registerPending(r) PROVE ReqInv'
  BY <1>8
    DEF registerPending, TypeInv, ReqInv, ConnInv, Work, reqVars, mgrVars,
        peerVars
<1>9. ASSUME NEW r \in Req, handleConnected(r) PROVE ReqInv'
  BY <1>9
    DEF handleConnected, TypeInv, ReqInv, ConnInv, Work, reqVars, mgrVars,
        peerVars
<1>10. ASSUME NEW r \in Req, handleFailed(r) PROVE ReqInv'
  BY <1>10
    DEF handleFailed, TypeInv, ReqInv, ConnInv, Work, reqVars, mgrVars, peerVars
<1>11. ASSUME NEW r \in Req, Remove(r) PROVE ReqInv'
  BY <1>11, SMTT(30)
    DEF Remove, handleDisconnected, TypeInv, ReqInv, ConnInv, Work, reqVars,
        mgrVars, peerVars
<1>12. ASSUME NEW r \in Req, Disconnect(r) PROVE ReqInv'
  BY <1>12, SMTT(30)
    DEF Disconnect, handleDisconnected, TypeInv, ReqInv, ConnInv, Work, reqVars,
        mgrVars, peerVars
<1>13. ASSUME NEW r \in Req, NEW n \in Nodes, ConnectNode(r, n[1], n[2])
       PROVE  ReqInv'
  BY <1>13, SMTT(30)
    DEF ConnectNode, Command, Event, Fresh, TypeInv, ReqInv, ConnInv, Work,
        reqVars, mgrVars, peerVars
<1>14. ASSUME NEW k \in Conn, inboundPeerConnected(k) PROVE ReqInv'
  BY <1>14
    DEF inboundPeerConnected, Unmade, Event, TypeInv, ReqInv, ConnInv, Work,
        reqVars, mgrVars, peerVars
<1>15. ASSUME NEW k \in Conn, OnVersion(k) PROVE ReqInv'
  BY <1>15, SMTT(30)
    DEF OnVersion, TypeInv, ReqInv, ConnInv, Work, reqVars, mgrVars, peerVars
<1>16. ASSUME NEW k \in Conn, Close(k) PROVE ReqInv'
  BY <1>16 DEF Close, TypeInv, ReqInv, ConnInv, Work, reqVars, mgrVars, peerVars
<1>17. ASSUME NEW k \in Conn, handleAddPeerMsg(k) PROVE ReqInv'
  BY <1>17, ZenonT(60)
    DEF handleAddPeerMsg, Closed, TypeInv, ReqInv, ConnInv, Work, reqVars,
        mgrVars, peerVars
<1>18. ASSUME NEW k \in Conn, handleDonePeerMsg(k) PROVE ReqInv'
  BY <1>18, ZenonT(60)
    DEF handleDonePeerMsg, TypeInv, ReqInv, ConnInv, Work, reqVars, mgrVars,
        peerVars
<1>drop. ASSUME NEW K \in SUBSET listed, Command, Dropped(K) PROVE ReqInv'
  BY <1>drop, ZenonT(60)
    DEF Dropped, Closed, Command, Event, TypeInv, ReqInv, ConnInv, Work,
        reqVars, mgrVars, peerVars
<1>19. ASSUME NEW k \in Conn, RemoveNode(k) PROVE ReqInv'
  BY <1>19, <1>drop DEF RemoveNode
<1>20. ASSUME NEW k \in Conn, DisconnectNode(k) PROVE ReqInv'
  BY <1>20, <1>drop DEF DisconnectNode
<1>21. ASSUME UNCHANGED vars PROVE ReqInv'
  BY <1>21, ZenonT(60) DEF vars, TypeInv, ReqInv, ConnInv, Work, reqVars, mgrVars, peerVars
<1>22. QED
  BY <1>1, <1>2, <1>3, <1>4, <1>5, <1>6, <1>7, <1>8, <1>9, <1>10,
     <1>11, <1>12, <1>13, <1>14, <1>15, <1>16, <1>17, <1>18, <1>19,
     <1>20, <1>21
    DEF Next

\* Every step keeps connections with their requests.
LEMMA ConnStep ==
    ASSUME TypeInv, ReqInv, ConnInv, [Next]_vars
    PROVE  ConnInv'
<1> USE ConstantsAssumption
<1>1. ASSUME Start PROVE ConnInv'
  BY <1>1
    DEF Start, TypeInv, ReqInv, ConnInv, Work, Phase, reqVars, mgrVars, peerVars
<1>2. ASSUME NEW r \in Req, NewConnReq(r) PROVE ConnInv'
  BY <1>2
    DEF NewConnReq, Fresh, TypeInv, ReqInv, ConnInv, Work, Phase, reqVars,
        mgrVars, peerVars
<1>3. ASSUME NEW r \in Req, GetNewAddress(r) PROVE ConnInv'
  BY <1>3, SMTT(30)
    DEF GetNewAddress, TypeInv, ReqInv, ConnInv, Work, Phase, reqVars, mgrVars,
        peerVars
<1>4. ASSUME NEW r \in Req, IsConnected(r) PROVE ConnInv'
  BY <1>4, SMTT(30)
    DEF IsConnected, TypeInv, ReqInv, ConnInv, Work, Phase, reqVars, mgrVars,
        peerVars
<1>5. ASSUME NEW r \in Req, AssignId(r) PROVE ConnInv'
  BY <1>5
    DEF AssignId, TypeInv, ReqInv, ConnInv, Work, Phase, reqVars, mgrVars,
        peerVars
<1>6. ASSUME NEW r \in Req, Dial(r) PROVE ConnInv'
  <2>1. CASE /\ work' = [work EXCEPT ![r] = "failed"]
             /\ UNCHANGED <<phase, req, conn>>
    BY <1>6, <2>1 DEF Dial, TypeInv, ConnInv, mgrVars
  <2>2. ASSUME NEW k \in Conn, Unmade(k), phase' = [phase EXCEPT ![k] = "dialed"],
               req' = [req EXCEPT ![k] = r], conn' = [conn EXCEPT ![r] = k],
               work' = [work EXCEPT ![r] = "connected"]
        PROVE  ConnInv'
    <3>1. work[r] = "dial" /\ r \notin conns /\ UNCHANGED <<conns, reporting>>
      BY <1>6, Zenon DEF Dial, ReqInv, mgrVars
    <3>2. phase[k] = "none"
      BY <2>2 DEF Unmade
    <3>3. QED
      BY <2>2, <3>1, <3>2, SMTT(30) DEF TypeInv, ConnInv, Work, Phase
  <2>3. QED
    BY <1>6, <2>1, <2>2 DEF Dial
<1>7. ASSUME NEW r \in Req, RetryTimer(r) PROVE ConnInv'
  BY <1>7, SMTT(30)
    DEF RetryTimer, TypeInv, ReqInv, ConnInv, Work, Phase, reqVars, mgrVars,
        peerVars
<1>8. ASSUME NEW r \in Req, registerPending(r) PROVE ConnInv'
  BY <1>8
    DEF registerPending, TypeInv, ReqInv, ConnInv, Work, Phase, reqVars,
        mgrVars, peerVars
<1>9. ASSUME NEW r \in Req, handleConnected(r) PROVE ConnInv'
  BY <1>9, SMTT(30)
    DEF handleConnected, TypeInv, ReqInv, ConnInv, Work, Phase, reqVars,
        mgrVars, peerVars
<1>10. ASSUME NEW r \in Req, handleFailed(r) PROVE ConnInv'
  BY <1>10, SMTT(30)
    DEF handleFailed, TypeInv, ReqInv, ConnInv, Work, Phase, reqVars, mgrVars,
        peerVars
<1>11. ASSUME NEW r \in Req, Remove(r) PROVE ConnInv'
  BY <1>11, SMTT(30)
    DEF Remove, handleDisconnected, TypeInv, ReqInv, ConnInv, Work, Phase,
        reqVars, mgrVars, peerVars
<1>12. ASSUME NEW r \in Req, Disconnect(r) PROVE ConnInv'
  BY <1>12, SMTT(30)
    DEF Disconnect, handleDisconnected, TypeInv, ReqInv, ConnInv, Work, Phase,
        reqVars, mgrVars, peerVars
<1>13. ASSUME NEW r \in Req, NEW n \in Nodes, ConnectNode(r, n[1], n[2])
       PROVE  ConnInv'
  BY <1>13, SMTT(20)
    DEF ConnectNode, Command, Event, Fresh, TypeInv, ReqInv, ConnInv, Work,
        Phase, reqVars, mgrVars, peerVars
<1>14. ASSUME NEW k \in Conn, inboundPeerConnected(k) PROVE ConnInv'
  BY <1>14, SMTT(30)
    DEF inboundPeerConnected, Unmade, Event, TypeInv, ReqInv, ConnInv, Work,
        Phase, reqVars, mgrVars, peerVars
<1>15. ASSUME NEW k \in Conn, OnVersion(k) PROVE ConnInv'
  BY <1>15, ZenonT(60)
    DEF OnVersion, TypeInv, ReqInv, ConnInv, Work, Phase, reqVars, mgrVars,
        peerVars
<1>16. ASSUME NEW k \in Conn, Close(k) PROVE ConnInv'
  BY <1>16, SMTT(30)
    DEF Close, TypeInv, ReqInv, ConnInv, Work, Phase, reqVars, mgrVars, peerVars
<1>17. ASSUME NEW k \in Conn, handleAddPeerMsg(k) PROVE ConnInv'
  BY <1>17, SMTT(20)
    DEF handleAddPeerMsg, Closed, TypeInv, ReqInv, ConnInv, Work, Phase,
        reqVars, mgrVars, peerVars
<1>18. ASSUME NEW k \in Conn, handleDonePeerMsg(k) PROVE ConnInv'
  BY <1>18, SMTT(20)
    DEF handleDonePeerMsg, TypeInv, ReqInv, ConnInv, Work, Phase, reqVars,
        mgrVars, peerVars
<1>drop. ASSUME NEW K \in SUBSET listed, Command, Dropped(K) PROVE ConnInv'
  BY <1>drop, ZenonT(60)
    DEF Dropped, Closed, Command, Event, TypeInv, ReqInv, ConnInv, Work, Phase,
        reqVars, mgrVars, peerVars
<1>19. ASSUME NEW k \in Conn, RemoveNode(k) PROVE ConnInv'
  BY <1>19, <1>drop DEF RemoveNode
<1>20. ASSUME NEW k \in Conn, DisconnectNode(k) PROVE ConnInv'
  BY <1>20, <1>drop, Zenon DEF DisconnectNode
<1>21. ASSUME UNCHANGED vars PROVE ConnInv'
  BY <1>21, SMTT(30)
    DEF vars, TypeInv, ReqInv, ConnInv, Work, Phase, reqVars, mgrVars, peerVars
<1>22. QED
  BY <1>1, <1>2, <1>3, <1>4, <1>5, <1>6, <1>7, <1>8, <1>9, <1>10,
     <1>11, <1>12, <1>13, <1>14, <1>15, <1>16, <1>17, <1>18, <1>19,
     <1>20, <1>21
    DEF Next

\* Every step keeps the addresses of requests that have connections.
LEMMA AddrStep ==
    ASSUME TypeInv, ReqInv, ConnInv, AddrInv, [Next]_vars
    PROVE  AddrInv'
<1> USE ConstantsAssumption
<1>1. ASSUME Start PROVE AddrInv'
  BY <1>1, Zenon
    DEF Start, TypeInv, AddrInv, Work, Phase, reqVars, mgrVars,
        peerVars
<1>2. ASSUME NEW r \in Req, NewConnReq(r) PROVE AddrInv'
  BY <1>2
    DEF NewConnReq, Fresh, TypeInv, AddrInv, Work, Phase,
        reqVars, mgrVars, peerVars
<1>3. ASSUME NEW r \in Req, GetNewAddress(r) PROVE AddrInv'
  BY <1>3, SMTT(30)
    DEF GetNewAddress, TypeInv, AddrInv, Work, Phase, reqVars,
        mgrVars, peerVars
<1>4. ASSUME NEW r \in Req, IsConnected(r) PROVE AddrInv'
  BY <1>4, ZenonT(60)
    DEF IsConnected, TypeInv, AddrInv, Work, Phase, reqVars,
        mgrVars, peerVars
<1>5. ASSUME NEW r \in Req, AssignId(r) PROVE AddrInv'
  BY <1>5
    DEF AssignId, TypeInv, AddrInv, Work, Phase, reqVars,
        mgrVars, peerVars
<1>6. ASSUME NEW r \in Req, Dial(r) PROVE AddrInv'
  BY <1>6, SMTT(60)
    DEF Dial, Unmade, TypeInv, AddrInv, Work, Phase, reqVars,
        mgrVars, peerVars
<1>7. ASSUME NEW r \in Req, RetryTimer(r) PROVE AddrInv'
  BY <1>7
    DEF RetryTimer, TypeInv, AddrInv, Work, Phase, reqVars,
        mgrVars, peerVars
<1>8. ASSUME NEW r \in Req, registerPending(r) PROVE AddrInv'
  BY <1>8
    DEF registerPending, TypeInv, AddrInv, Work, Phase,
        reqVars, mgrVars, peerVars
<1>9. ASSUME NEW r \in Req, handleConnected(r) PROVE AddrInv'
  BY <1>9, ZenonT(60)
    DEF handleConnected, TypeInv, AddrInv, Work, Phase,
        reqVars, mgrVars, peerVars
<1>10. ASSUME NEW r \in Req, handleFailed(r) PROVE AddrInv'
  BY <1>10, ZenonT(60)
    DEF handleFailed, TypeInv, AddrInv, Work, Phase, reqVars,
        mgrVars, peerVars
<1>11. ASSUME NEW r \in Req, Remove(r) PROVE AddrInv'
  BY <1>11, Zenon
    DEF Remove, handleDisconnected, TypeInv, AddrInv, Work,
        Phase, reqVars, mgrVars, peerVars
<1>12. ASSUME NEW r \in Req, Disconnect(r) PROVE AddrInv'
  BY <1>12, ZenonT(60)
    DEF Disconnect, handleDisconnected, TypeInv, AddrInv, Work,
        Phase, reqVars, mgrVars, peerVars
<1>13. ASSUME NEW r \in Req, NEW n \in Nodes, ConnectNode(r, n[1], n[2])
       PROVE  AddrInv'
  BY <1>13, SMTT(20)
    DEF ConnectNode, Command, Event, Fresh, TypeInv, AddrInv,
        Work, Phase, reqVars, mgrVars, peerVars
<1>14. ASSUME NEW k \in Conn, inboundPeerConnected(k) PROVE AddrInv'
  BY <1>14, Zenon
    DEF inboundPeerConnected, Unmade, Event, TypeInv, AddrInv,
        Work, Phase, reqVars, mgrVars, peerVars
<1>15. ASSUME NEW k \in Conn, OnVersion(k) PROVE AddrInv'
  BY <1>15, ZenonT(60)
    DEF OnVersion, TypeInv, AddrInv, Work, Phase, reqVars,
        mgrVars, peerVars
<1>16. ASSUME NEW k \in Conn, Close(k) PROVE AddrInv'
  BY <1>16, Zenon
    DEF Close, TypeInv, AddrInv, Work, Phase, reqVars, mgrVars,
        peerVars
<1>17. ASSUME NEW k \in Conn, handleAddPeerMsg(k) PROVE AddrInv'
  BY <1>17, SMTT(20)
    DEF handleAddPeerMsg, Closed, TypeInv, AddrInv, Work,
        Phase, reqVars, mgrVars, peerVars
<1>18. ASSUME NEW k \in Conn, handleDonePeerMsg(k) PROVE AddrInv'
  BY <1>18, Zenon
    DEF handleDonePeerMsg, TypeInv, AddrInv, Work, Phase, reqVars, mgrVars
<1>drop. ASSUME NEW K \in SUBSET listed, Command, Dropped(K) PROVE AddrInv'
  BY <1>drop, Zenon
    DEF Dropped, Closed, Command, Event, TypeInv, AddrInv, Work, Phase,
        reqVars, mgrVars, peerVars
<1>19. ASSUME NEW k \in Conn, RemoveNode(k) PROVE AddrInv'
  BY <1>19, <1>drop DEF RemoveNode
<1>20. ASSUME NEW k \in Conn, DisconnectNode(k) PROVE AddrInv'
  BY <1>20, <1>drop, Zenon DEF DisconnectNode
<1>21. ASSUME UNCHANGED vars PROVE AddrInv'
  BY <1>21, Zenon
    DEF vars, TypeInv, ReqInv, ConnInv, AddrInv, Work, Phase, reqVars, mgrVars,
        peerVars
<1>22. QED
  BY <1>1, <1>2, <1>3, <1>4, <1>5, <1>6, <1>7, <1>8, <1>9, <1>10,
     <1>11, <1>12, <1>13, <1>14, <1>15, <1>16, <1>17, <1>18, <1>19,
     <1>20, <1>21
    DEF Next

-----------------------------------------------------------------------------
\* The request of a connection that was made, and that request's address, do
\* not change.
LEMMA MadeStays ==
    ASSUME TypeInv, AddrInv, [Next]_vars, NEW k \in Conn, phase[k] # "none"
    PROVE  /\ req'[k] = req[k]
           /\ req[k] # NoReq => addr'[req[k]] = addr[req[k]]
<1> USE ConstantsAssumption
<1>1. CASE UNCHANGED <<req, addr>>
  BY <1>1
<1>2. ASSUME NEW r \in Req, GetNewAddress(r)
      PROVE  req' = req /\ (req[k] # NoReq => addr'[req[k]] = addr[req[k]])
  BY <1>2, ZenonT(60) DEF GetNewAddress, AddrInv, TypeInv, peerVars
<1>3. ASSUME NEW r \in Req, NEW n \in Nodes, ConnectNode(r, n[1], n[2])
      PROVE  req' = req /\ (req[k] # NoReq => addr'[req[k]] = addr[req[k]])
  BY <1>3, ZenonT(60) DEF ConnectNode, Fresh, AddrInv, TypeInv, peerVars
<1>4. ASSUME NEW r \in Req, Dial(r) PROVE req'[k] = req[k] /\ addr' = addr
  BY <1>4, SMTT(30) DEF Dial, Unmade, TypeInv
<1>5. QED
  BY <1>1, <1>2, <1>3, <1>4, ZenonT(60)
     DEF Next, vars, reqVars, mgrVars, peerVars, Start, NewConnReq,
         IsConnected, AssignId, RetryTimer, registerPending, handleConnected,
         handleFailed, Remove, Disconnect, handleDisconnected,
         inboundPeerConnected, OnVersion, Close, handleAddPeerMsg,
         handleDonePeerMsg, RemoveNode, DisconnectNode, Dropped

\* The outbound peers of L at an address.
Peers(L, a) == {k \in L : ~Inbound(k) /\ addr[req[k]] = a}

\* The lists and the group counts change together: a peer that is in no list
\* is added and counted, or some peers of the lists are dropped and no longer
\* counted.
LEMMA ListsStep ==
    ASSUME TypeInv, AddrInv, [Next]_vars
    PROVE  \/ UNCHANGED <<listed, outboundGroups>>
           \/ \E k \in Conn \ listed :
                /\ joining[k] # "no" /\ listed' = listed \cup {k}
                /\ outboundGroups' = Counted({k}, 1)
           \/ \E K \in SUBSET listed :
                /\ listed' = listed \ K
                /\ outboundGroups' = Counted(K, -1)
<1> DEFINE Goal ==
       \/ UNCHANGED <<listed, outboundGroups>>
       \/ \E k \in Conn \ listed :
            /\ joining[k] # "no" /\ listed' = listed \cup {k}
            /\ outboundGroups' = Counted({k}, 1)
       \/ \E K \in SUBSET listed :
            /\ listed' = listed \ K
            /\ outboundGroups' = Counted(K, -1)
<1>1. ASSUME NEW k \in Conn, handleAddPeerMsg(k) PROVE Goal
  BY <1>1, Zenon DEF handleAddPeerMsg, AddrInv
<1>2. ASSUME NEW k \in Conn, handleDonePeerMsg(k) PROVE Goal
  <2>1. listed' = listed \ (listed \cap {k})
    BY <1>2 DEF handleDonePeerMsg
  <2>2. QED
    BY <1>2, <2>1 DEF handleDonePeerMsg
<1>3. ASSUME NEW K \in SUBSET listed, Dropped(K) PROVE Goal
  BY <1>3 DEF Dropped
<1>4. ASSUME NEW k \in Conn, RemoveNode(k) PROVE Goal
  BY <1>3, <1>4, Zenon DEF RemoveNode
<1>5. ASSUME NEW k \in Conn, DisconnectNode(k) PROVE Goal
  <2> DEFINE K == {j \in listed : /\ ~Inbound(j) /\ ~persistent(j)
                                  /\ addr[req[j]] = addr[req[k]]}
  <2>1. k \in listed /\ (Dropped({k}) \/ Dropped(K))
    BY <1>5 DEF DisconnectNode
  <2>2. QED
    BY <1>3, <2>1, Zenon
<1>6. ASSUME UNCHANGED <<listed, outboundGroups>> PROVE Goal
  BY <1>6
<1> HIDE DEF Goal
<1>7. Goal
  <2>1. CASE UNCHANGED vars
    BY <1>6, <2>1 DEF vars, peerVars
  <2>2. CASE Start
    BY <1>6, <2>2 DEF Start, peerVars
  <2>3. ASSUME NEW r \in Req,
               \/ NewConnReq(r) \/ GetNewAddress(r) \/ IsConnected(r)
               \/ AssignId(r) \/ Dial(r) \/ RetryTimer(r)
               \/ registerPending(r) \/ handleConnected(r) \/ handleFailed(r)
               \/ Remove(r) \/ Disconnect(r)
               \/ \E n \in Nodes : ConnectNode(r, n[1], n[2])
        PROVE  Goal
    <3>1. UNCHANGED <<listed, outboundGroups>>
      BY <2>3, Zenon DEF NewConnReq, GetNewAddress, IsConnected, AssignId, Dial,
             RetryTimer, registerPending, handleConnected, handleFailed,
             Remove, Disconnect, ConnectNode, peerVars
    <3>2. QED
      BY <1>6, <3>1
  <2>4. ASSUME NEW k \in Conn,
               inboundPeerConnected(k) \/ OnVersion(k) \/ Close(k)
        PROVE  Goal
    BY <1>6, <2>4 DEF inboundPeerConnected, OnVersion, Close
  <2>5. QED
    BY <1>1, <1>2, <1>4, <1>5, <2>1, <2>2, <2>3, <2>4 DEF Next
<1>8. QED
  BY <1>7, Zenon DEF Goal

\* Every step keeps the group counts exact.
LEMMA GroupStep ==
    ASSUME TypeInv, AddrInv, GroupCounts, [Next]_vars
    PROVE  GroupCounts'
<1> USE ConstantsAssumption
<1>1. SUFFICES ASSUME NEW a \in Addr
               PROVE  outboundGroups'[a] = Cardinality(Peers(listed, a)')
  BY Zenon DEF GroupCounts, Peers
<1>2. IsFiniteSet(Conn) /\ listed \subseteq Conn
  <2>1. IsFiniteSet(Conn)
    BY FS_Interval, SMTT(30) DEF Conn
  <2>2. listed \subseteq Conn
    BY Zenon DEF TypeInv
  <2>3. QED
    BY <2>1, <2>2, Zenon
<1>3. \A k \in Conn : phase[k] # "none" =>
        (k \in Peers({k}, a)' <=> k \in Peers({k}, a))
  BY MadeStays, Zenon DEF Peers, Inbound
<1>4. \A k \in Conn : joining[k] # "no" => phase[k] # "none"
  BY DEF AddrInv
<1>5. \A k \in listed : phase[k] # "none"
  BY <1>2, <1>4, Zenon DEF AddrInv
<1>6. /\ outboundGroups[a] = Cardinality(Peers(listed, a))
      /\ \A L \in SUBSET Conn :
           IsFiniteSet(Peers(L, a)) /\ Cardinality(Peers(L, a)) \in Nat
  <2>1. \A L \in SUBSET Conn : Peers(L, a) \in SUBSET Conn
    BY DEF Peers
  <2>2. QED
    BY <1>2, <2>1, FS_Subset, FS_CardinalityType, Zenon DEF GroupCounts, Peers
<1>7. CASE UNCHANGED <<listed, outboundGroups>>
  <2>1. Peers(listed, a)' = Peers(listed, a)
    BY <1>2, <1>3, <1>5, <1>7, Zenon DEF Peers
  <2>2. QED
    BY <1>6, <1>7, <2>1
<1>8. ASSUME NEW k \in Conn \ listed, joining[k] # "no",
             listed' = listed \cup {k}, outboundGroups' = Counted({k}, 1)
      PROVE  outboundGroups'[a] = Cardinality(Peers(listed, a)')
  <2>1. Peers(listed, a)' = Peers(listed, a) \cup Peers({k}, a)
    BY <1>2, <1>3, <1>4, <1>5, <1>8, ZenonT(60) DEF Peers
  <2>2. Peers(listed, a) \cap Peers({k}, a) = {}
    BY DEF Peers
  <2>3. Cardinality(Peers(listed, a)')
          = Cardinality(Peers(listed, a)) + Cardinality(Peers({k}, a))
    <3>1. {k} \in SUBSET Conn
      OBVIOUS
    <3> DEFINE P == Peers(listed, a)
               Q == Peers({k}, a)
    <3>2. IsFiniteSet(P) /\ IsFiniteSet(Q)
      BY <1>2, <1>6, <3>1
    <3>3. P \cap Q = {}
      BY <2>2, Zenon
    <3>4. Cardinality(P) \in Nat /\ Cardinality(Q) \in Nat
      BY <1>2, <1>6, <3>1
    <3>5. Peers(listed, a)' = P \cup Q
      BY <2>1
    <3> HIDE DEF P, Q
    <3>6. Cardinality(P \cup Q)
            = Cardinality(P) + Cardinality(Q) - Cardinality(P \cap Q)
      BY <3>2, FS_Union
    <3>7. Cardinality(P \cap Q) = 0
      BY <3>3, FS_EmptySet, Zenon
    <3>8. Cardinality(P \cup Q) = Cardinality(P) + Cardinality(Q)
      BY <3>4, <3>6, <3>7
    <3>9. QED
      BY <3>5, <3>8 DEF P, Q
  <2>4. outboundGroups'[a]
          = outboundGroups[a] + 1 * Cardinality(Peers({k}, a))
    BY <1>8 DEF Counted, Peers
  <2>5. QED
    BY <1>6, <2>3, <2>4
<1>9. ASSUME NEW K \in SUBSET listed, listed' = listed \ K,
             outboundGroups' = Counted(K, -1)
      PROVE  outboundGroups'[a] = Cardinality(Peers(listed, a)')
  <2>1. Peers(listed, a)' = Peers(listed, a) \ Peers(K, a)
    BY <1>2, <1>3, <1>5, <1>9, Zenon DEF Peers
  <2>2. Peers(listed, a) \cap Peers(K, a) = Peers(K, a)
    BY DEF Peers
  <2>3. Cardinality(Peers(listed, a)')
          = Cardinality(Peers(listed, a)) - Cardinality(Peers(K, a))
    BY <1>2, <1>6, <2>1, <2>2, FS_Difference, ZenonT(60)
  <2>4. outboundGroups'[a]
          = outboundGroups[a] + (-1) * Cardinality(Peers(K, a))
    BY <1>9 DEF Counted, Peers
  <2>5. QED
    BY <1>2, <1>6, <2>3, <2>4
<1>10. QED
  BY <1>7, <1>8, <1>9, ListsStep, Zenon

-----------------------------------------------------------------------------
\* The inductive invariant.
IInv == TypeInv /\ ReqInv /\ ConnInv /\ AddrInv /\ GroupCounts

\* It holds when the connection manager starts.
LEMMA InitInv ==
    ASSUME Init
    PROVE  IInv
<1> USE ConstantsAssumption
<1>1. TypeInv
  BY DEF Init, TypeInv, Work, Phase
<1>2. ReqInv /\ ConnInv
  BY Zenon DEF Init, ReqInv, ConnInv
<1>3. AddrInv
  <2>1. \A r \in DOMAIN AddPeers : AddPeers[r] # NoAddr
    OBVIOUS
  <2>2. \A r \in Req :
          /\ work[r] = IF r \in DOMAIN AddPeers THEN "ask" ELSE "unused"
          /\ addr[r] = IF r \in DOMAIN AddPeers THEN AddPeers[r] ELSE NoAddr
          /\ perm[r] = (r \in DOMAIN AddPeers)
    BY DEF Init
  <2>3. \A k \in Conn : req[k] = NoReq /\ joining[k] = "no"
    BY DEF Init
  <2>4. conns = {} /\ listed = {}
    BY DEF Init
  <2>5. QED
    BY <2>1, <2>2, <2>3, <2>4, Zenon DEF AddrInv
<1>4. GroupCounts
  BY FS_EmptySet DEF Init, GroupCounts
<1>5. QED
  BY <1>1, <1>2, <1>3, <1>4 DEF IInv

\* Every step keeps it.
LEMMA StepInv ==
    ASSUME IInv, [Next]_vars
    PROVE  IInv'
BY TypeStep, ReqStep, ConnStep, AddrStep, GroupStep DEF IInv

\* Every reachable state of the connection manager and the server's peer
\* lists satisfies the inductive invariant.
THEOREM Invariance == Spec => []IInv
<1>1. Init => IInv
  BY InitInv
<1>2. IInv /\ [Next]_vars => IInv'
  BY StepInv
<1>3. QED
  BY <1>1, <1>2, PTL DEF Spec

\* A permanent request is never given up, unless as a duplicate.
THEOREM PermanentAlwaysKept == Spec => []PermanentKept
<1>1. IInv => PermanentKept
  BY ZenonT(60) DEF IInv, TypeInv, ReqInv, PermanentKept, Working, Work
<1>2. QED
  BY <1>1, Invariance, PTL

\* Every connection's end is reported once.
THEOREM EndsAlwaysReportedOnce == Spec => []EndsReportedOnce
<1>1. IInv => EndsReportedOnce
  BY Zenon DEF IInv, ConnInv, EndsReportedOnce, Inbound
<1>2. QED
  BY <1>1, Invariance, PTL

\* The group counts are always those of the listed peers.
THEOREM GroupsAlwaysCounted == Spec => []GroupCounts
BY Invariance, PTL DEF IInv

-----------------------------------------------------------------------------
\* The requests that hold a slot, for connections cs and the work w.
HoldsSlot == Work \ {"unused", "idle", "gone"}
Held(cs, w) == {r \in Req : r \in cs \/ w[r] \in HoldsSlot}

\* The requests that have been given an id.
Numbered(i) == {r \in Req : i[r] # 0}

\* Slots are held or about to be; before Start only --addpeer requests exist,
\* which are permanent, and those with an id are the ones Start counts.
SlotInv ==
    /\ starting \in Nat /\ started \in BOOLEAN
    /\ Cardinality(Numbered(id)) = connReqCount
    /\ ~started => starting = 0 /\ \A r \in Req : work[r] # "unused" => perm[r]
    /\ started => Cardinality(Held(conns, work)) + starting >= TargetOutbound

\* Sets of requests are finite.
LEMMA ReqSets ==
    ASSUME NEW S \in SUBSET Req
    PROVE  /\ IsFiniteSet(S) /\ Cardinality(S) \in Nat
           /\ \A T \in SUBSET S : Cardinality(T) <= Cardinality(S)
           /\ \A r \in S : Cardinality(S \ {r}) = Cardinality(S) - 1
           /\ \A r \in Req \ S : Cardinality(S \cup {r}) = Cardinality(S) + 1
<1>1. IsFiniteSet(Req)
  BY FS_Interval, ConstantsAssumption DEF Req
<1>2. IsFiniteSet(S) /\ Cardinality(S) \in Nat
  BY <1>1, FS_Subset, FS_CardinalityType
<1>3. QED
  BY <1>2, FS_Subset, FS_AddElement, FS_RemoveElement

\* A request is numbered, once.
LEMMA NumberedStep ==
    ASSUME TypeInv, Cardinality(Numbered(id)) = connReqCount, NEW r \in Req, id[r] = 0,
           connReqCount' = connReqCount + 1, id' = [id EXCEPT ![r] = connReqCount + 1]
    PROVE  Cardinality(Numbered(id')) = connReqCount'
<1>1. Numbered(id') = Numbered(id) \cup {r} /\ r \notin Numbered(id)
  BY DEF TypeInv, Numbered
<1>2. Numbered(id) \in SUBSET Req
  BY DEF Numbered
<1>3. QED
  BY <1>1, <1>2, ReqSets, Zenon

\* What a step does to the slots: it leaves them as they are, takes one for a
\* new request, or gives one up for a NewConnReq call or when there are enough
\* connections.
LEMMA HeldStep ==
    ASSUME TypeInv, ReqInv, ConnInv, [Next]_vars, ~Start
    PROVE  \/ Held(conns', work') = Held(conns, work) /\ starting' = starting
           \/ \E r \in Req : /\ r \notin Held(conns, work)
                             /\ Held(conns', work') = Held(conns, work) \cup {r}
                             /\ \/ starting' = starting
                                \/ starting > 0 /\ starting' = starting - 1
           \/ \E r \in Req : /\ r \in Held(conns, work)
                             /\ Held(conns', work') = Held(conns, work) \ {r}
                             /\ \/ starting' = starting + 1
                                \/ starting' = starting
                                   /\ Cardinality(conns') >= TargetOutbound
<1> USE ConstantsAssumption
<1>1. ASSUME NEW r \in Req,
             NewConnReq(r) \/ \E n \in Nodes : ConnectNode(r, n[1], n[2])
      PROVE  /\ r \notin Held(conns, work)
             /\ Held(conns', work') = Held(conns, work) \cup {r}
             /\ \/ starting' = starting
                \/ starting > 0 /\ starting' = starting - 1
  <2>1. /\ work[r] = "unused" /\ UNCHANGED conns
        /\ work' = [work EXCEPT ![r] = "register"] \/ work' = [work EXCEPT ![r] = "ask"]
        /\ \/ starting' = starting
           \/ starting > 0 /\ starting' = starting - 1
    BY <1>1, Zenon DEF NewConnReq, ConnectNode, Fresh, mgrVars
  <2>2. QED
    BY <2>1, SMTT(30) DEF Held, HoldsSlot, Work, TypeInv, ReqInv
<1>2. ASSUME NEW r \in Req,
             \/ GetNewAddress(r) \/ IsConnected(r) \/ AssignId(r) \/ Dial(r)
             \/ RetryTimer(r) \/ registerPending(r)
      PROVE  Held(conns', work') = Held(conns, work) /\ starting' = starting
  <2>1. /\ work[r] \in HoldsSlot /\ UNCHANGED <<conns, starting>>
        /\ \E w \in HoldsSlot : work' = [work EXCEPT ![r] = w]
    <3>1. CASE GetNewAddress(r)
      BY <3>1, Zenon DEF GetNewAddress, mgrVars, HoldsSlot, Work
    <3>2. CASE IsConnected(r)
      BY <3>2, Zenon DEF IsConnected, mgrVars, HoldsSlot, Work
    <3>3. CASE AssignId(r)
      BY <3>3, Zenon DEF AssignId, HoldsSlot, Work
    <3>4. CASE Dial(r)
      BY <3>4, Zenon DEF Dial, mgrVars, HoldsSlot, Work
    <3>5. CASE RetryTimer(r)
      BY <3>5, Zenon DEF RetryTimer, mgrVars, HoldsSlot, Work
    <3>6. CASE registerPending(r)
      BY <3>6, Zenon DEF registerPending, HoldsSlot, Work
    <3>7. QED
      BY <1>2, <3>1, <3>2, <3>3, <3>4, <3>5, <3>6, Zenon
  <2>2. QED
    BY <2>1, SMTT(30) DEF Held, TypeInv
<1>3. ASSUME NEW r \in Req, handleConnected(r)
      PROVE  Held(conns', work') = Held(conns, work) /\ starting' = starting
  <2>1. /\ work[r] = "connected" /\ UNCHANGED starting /\ conns' = conns \cup {r}
        /\ work' = [work EXCEPT ![r] = "idle"]
    BY <1>3, Zenon DEF handleConnected, ReqInv
  <2>2. QED
    BY <2>1, Zenon DEF Held, HoldsSlot, Work, TypeInv
<1>4. ASSUME NEW r \in Req, handleFailed(r)
      PROVE  \/ Held(conns', work') = Held(conns, work) /\ starting' = starting
             \/ /\ r \in Held(conns, work)
                /\ Held(conns', work') = Held(conns, work) \ {r}
                /\ starting' = starting + 1
  <2>1. /\ work[r] = "failed" /\ r \notin conns /\ UNCHANGED conns
        /\ \/ work' = [work EXCEPT ![r] = "timer"] /\ UNCHANGED starting
           \/ work' = [work EXCEPT ![r] = "gone"] /\ starting' = starting + 1
    BY <1>4, Zenon DEF handleFailed, ReqInv
  <2>2. QED
    BY <2>1, SMTT(30) DEF Held, HoldsSlot, Work, TypeInv
<1>5. ASSUME NEW r \in Req, Remove(r)
      PROVE  Held(conns', work') = Held(conns, work) /\ starting' = starting
  <2>1. /\ work[r] = "abort" /\ r \notin conns /\ UNCHANGED starting
        /\ conns' = conns \ {r} /\ work' = [work EXCEPT ![r] = "aborted"]
    BY <1>5, Zenon DEF Remove, handleDisconnected, ReqInv
  <2>2. QED
    BY <2>1, Zenon DEF Held, HoldsSlot, Work, TypeInv
<1>6. ASSUME NEW r \in Req, Disconnect(r)
      PROVE  \/ Held(conns', work') = Held(conns, work) /\ starting' = starting
             \/ /\ r \in Held(conns, work)
                /\ Held(conns', work') = Held(conns, work) \ {r}
                /\ \/ starting' = starting + 1
                   \/ starting' = starting /\ Cardinality(conns') >= TargetOutbound
  <2>1. r \in conns /\ work[r] = "idle" /\ conns' = conns \ {r}
    BY <1>6, SMTT(30) DEF Disconnect, handleDisconnected, ReqInv, ConnInv, TypeInv
  <2>2. \/ work' = [work EXCEPT ![r] = "timer"] /\ UNCHANGED starting
        \/ /\ work' = [work EXCEPT ![r] = @]
           /\ \/ starting' = starting + 1
              \/ UNCHANGED starting /\ ~(Cardinality(conns \ {r}) < TargetOutbound)
    BY <1>6, <2>1, Zenon DEF Disconnect, handleDisconnected
  <2>3. Cardinality(conns \ {r}) \in Nat
    <3>1. conns \ {r} \in SUBSET Req
      BY Zenon DEF TypeInv
    <3>2. QED
      BY <3>1, ReqSets, Zenon
  <2>4. QED
    BY <2>1, <2>2, <2>3, SMTT(30) DEF Held, HoldsSlot, Work, TypeInv
<1>7. ASSUME \/ UNCHANGED vars
             \/ \E k \in Conn : \/ inboundPeerConnected(k) \/ OnVersion(k) \/ Close(k)
                               \/ handleAddPeerMsg(k) \/ handleDonePeerMsg(k)
                               \/ RemoveNode(k) \/ DisconnectNode(k)
      PROVE  Held(conns', work') = Held(conns, work) /\ starting' = starting
  <2>1. UNCHANGED <<conns, work, starting>>
    BY <1>7, ZenonT(60) DEF vars, reqVars, mgrVars, inboundPeerConnected, OnVersion, Close,
           handleAddPeerMsg, handleDonePeerMsg, RemoveNode, DisconnectNode, Dropped
  <2>2. QED
    BY <2>1
<1>8. QED
  BY <1>1, <1>2, <1>3, <1>4, <1>5, <1>6, <1>7, Zenon DEF Next

\* Before Start no request is made, and none is replaced.
LEMMA BeforeStart ==
    ASSUME TypeInv, ReqInv, ConnInv, [Next]_vars, ~Start, ~started, starting = 0,
           \A r \in Req : work[r] # "unused" => perm[r]
    PROVE  /\ perm' = perm /\ starting' = starting
           /\ \A q \in Req : work[q] = "unused" => work'[q] = "unused"
<1> DEFINE Goal == /\ perm' = perm /\ starting' = starting
                   /\ \A q \in Req : work[q] = "unused" => work'[q] = "unused"
<1>1. ASSUME NEW r \in Req, work[r] # "unused", NEW w, work' = [work EXCEPT ![r] = w],
             UNCHANGED <<perm, starting>>
      PROVE  Goal
  BY <1>1 DEF TypeInv
<1>2. ASSUME UNCHANGED <<work, perm, starting>> PROVE Goal
  BY <1>2, Zenon
<1> HIDE DEF Goal
<1>3. ASSUME NEW r \in Req,
             \/ NewConnReq(r) \/ GetNewAddress(r) \/ IsConnected(r) \/ AssignId(r)
             \/ Dial(r) \/ RetryTimer(r)
             \/ registerPending(r) \/ handleConnected(r) \/ handleFailed(r)
             \/ Remove(r) \/ Disconnect(r)
             \/ \E n \in Nodes : ConnectNode(r, n[1], n[2])
      PROVE  Goal
  <2>1. ~NewConnReq(r)
    BY SMTT(30) DEF NewConnReq
  <2>2. ~\E n \in Nodes : ConnectNode(r, n[1], n[2])
    BY Zenon DEF ConnectNode, Command, Event
  <2>3. CASE GetNewAddress(r)
    BY <1>1, <2>3, Zenon DEF GetNewAddress, mgrVars
  <2>4. CASE IsConnected(r)
    BY <1>1, <2>4, Zenon DEF IsConnected, mgrVars
  <2>5. CASE AssignId(r)
    BY <1>1, <2>5, Zenon DEF AssignId
  <2>6. CASE Dial(r)
    BY <1>1, <2>6, Zenon DEF Dial, mgrVars
  <2>7. CASE RetryTimer(r)
    BY <1>1, <2>7, Zenon DEF RetryTimer, mgrVars
  <2>8. CASE registerPending(r)
    BY <1>1, <2>8, Zenon DEF registerPending
  <2>9. CASE handleConnected(r)
    BY <1>1, <2>9, Zenon DEF handleConnected
  <2>10. CASE handleFailed(r)
    <3>1. work[r] # "unused" /\ perm[r] /\ UNCHANGED <<perm, starting>>
      BY <2>10, Zenon DEF handleFailed
    <3>2. \E w : work' = [work EXCEPT ![r] = w]
      BY <2>10, Zenon DEF handleFailed
    <3>3. QED
      BY <1>1, <3>1, <3>2, Zenon
  <2>11. CASE Remove(r)
    <3>1. work[r] = "abort" /\ r \notin conns
      BY <2>11, Zenon DEF Remove, ReqInv
    <3>2. UNCHANGED <<perm, starting>> /\ \E w : work' = [work EXCEPT ![r] = w]
      BY <2>11, <3>1, Zenon DEF Remove, handleDisconnected
    <3>3. QED
      BY <1>1, <3>1, <3>2, Zenon
  <2>12. CASE Disconnect(r)
    <3>0. r \in conns
      BY <2>12, ConstantsAssumption, ZenonT(60) DEF Disconnect, ConnInv
    <3>1. work[r] = "idle" /\ perm[r]
      BY <3>0, Zenon DEF ReqInv
    <3>2. UNCHANGED <<perm, starting>> /\ \E w : work' = [work EXCEPT ![r] = w]
      BY <2>12, <3>1, Zenon DEF Disconnect, handleDisconnected
    <3>3. QED
      BY <1>1, <3>1, <3>2, Zenon
  <2>13. QED
    BY <1>3, <2>1, <2>2, <2>3, <2>4, <2>5, <2>6, <2>7, <2>8, <2>9, <2>10, <2>11, <2>12, Zenon
<1>4. ASSUME \/ UNCHANGED vars
             \/ \E k \in Conn : \/ inboundPeerConnected(k) \/ OnVersion(k) \/ Close(k)
                               \/ handleAddPeerMsg(k) \/ handleDonePeerMsg(k)
                               \/ RemoveNode(k) \/ DisconnectNode(k)
      PROVE  Goal
  <2>1. UNCHANGED <<work, perm, starting>>
    BY <1>4, ZenonT(60) DEF vars, reqVars, mgrVars, inboundPeerConnected, OnVersion, Close,
           handleAddPeerMsg, handleDonePeerMsg, RemoveNode, DisconnectNode, Dropped
  <2>2. QED
    BY <1>2, <2>1
<1>5. Goal
  BY <1>3, <1>4, Zenon DEF Next
<1>6. QED
  BY <1>5 DEF Goal

\* Every step keeps the slots.
LEMMA SlotStep ==
    ASSUME TypeInv, ReqInv, ConnInv, SlotInv, [Next]_vars
    PROVE  SlotInv'
<1> USE ConstantsAssumption
<1> DEFINE H == Held(conns, work)
           H1 == Held(conns', work')
<1>1. /\ H \in SUBSET Req /\ H1 \in SUBSET Req
      /\ starting \in Nat /\ connReqCount \in Nat
      /\ Cardinality(H) \in Nat /\ Cardinality(H1) \in Nat
  <2>1. H \in SUBSET Req /\ H1 \in SUBSET Req
    BY Zenon DEF Held
  <2>2. QED
    BY <2>1, ReqSets, Zenon DEF SlotInv, TypeInv
<1>2. Cardinality(Numbered(id')) = connReqCount'
  <2>1. CASE UNCHANGED <<id, connReqCount>>
    BY <2>1, Zenon DEF SlotInv
  <2>2. ASSUME NEW r \in Req, NewConnReq(r) \/ AssignId(r)
        PROVE  Cardinality(Numbered(id')) = connReqCount'
    <3>1. /\ id[r] = 0 /\ connReqCount' = connReqCount + 1
          /\ id' = [id EXCEPT ![r] = connReqCount + 1]
      BY <2>2, Zenon DEF NewConnReq, AssignId, Fresh, ReqInv
    <3>2. QED
      BY <3>1, NumberedStep, Zenon DEF SlotInv
  <2>3. \/ UNCHANGED <<id, connReqCount>>
        \/ \E r \in Req : NewConnReq(r) \/ AssignId(r)
    BY ZenonT(60) DEF Next, vars, reqVars, mgrVars, Start, GetNewAddress, IsConnected, Dial,
       RetryTimer, registerPending, handleConnected, handleFailed, Remove, Disconnect,
       handleDisconnected, ConnectNode, inboundPeerConnected, OnVersion, Close,
       handleAddPeerMsg, handleDonePeerMsg, RemoveNode, DisconnectNode, Dropped
  <2>4. QED
    BY <2>1, <2>2, <2>3
<1>3. CASE Start
  <2>1. /\ ~started /\ started' = TRUE /\ UNCHANGED <<conns, work>>
        /\ starting' = IF connReqCount < TargetOutbound
                       THEN starting + TargetOutbound - connReqCount ELSE starting
    BY <1>3 DEF Start, reqVars
  <2>2. Numbered(id) \in SUBSET H
    BY <2>1, Zenon DEF SlotInv, ReqInv, Numbered, Held, HoldsSlot, TypeInv
  <2>3. connReqCount <= Cardinality(H)
    BY <1>1, <2>2, ReqSets, Zenon DEF SlotInv
  <2>4. starting' \in Nat /\ started' \in BOOLEAN
    BY <1>1, <2>1
  <2>5. Cardinality(H1) + starting' >= TargetOutbound
    BY <1>1, <2>1, <2>3, SMTT(30)
  <2>6. QED
    BY <1>2, <2>1, <2>4, <2>5, Zenon DEF SlotInv
<1>4. CASE ~Start
  <2>1. UNCHANGED started
    BY <1>4, ZenonT(60) DEF Next, vars, reqVars, mgrVars, NewConnReq, AssignId, GetNewAddress,
       IsConnected, Dial, RetryTimer, registerPending, handleConnected, handleFailed,
       Remove, Disconnect, handleDisconnected, ConnectNode, inboundPeerConnected,
       OnVersion, Close, handleAddPeerMsg, handleDonePeerMsg, RemoveNode,
       DisconnectNode, Dropped
  <2>2. /\ starting' \in Nat
        /\ \/ Cardinality(H1) + starting' >= Cardinality(H) + starting
           \/ Cardinality(H1) + starting' >= TargetOutbound
    <3>1. CASE H1 = H /\ starting' = starting
      BY <1>1, <3>1
    <3>2. ASSUME NEW r \in Req, r \notin H, H1 = H \cup {r},
                 starting' = starting \/ (starting > 0 /\ starting' = starting - 1)
          PROVE  /\ starting' \in Nat
                 /\ Cardinality(H1) + starting' >= Cardinality(H) + starting
      <4>1. Cardinality(H1) = Cardinality(H) + 1
        BY <1>1, <3>2, ReqSets, Zenon
      <4>2. QED
        BY <1>1, <3>2, <4>1, SMTT(30)
    <3>3. ASSUME NEW r \in Req, r \in H, H1 = H \ {r}, starting' = starting + 1
          PROVE  /\ starting' \in Nat
                 /\ Cardinality(H1) + starting' >= Cardinality(H) + starting
      <4>1. Cardinality(H1) = Cardinality(H) - 1
        BY <1>1, <3>3, ReqSets, Zenon
      <4>2. QED
        BY <1>1, <3>3, <4>1, SMTT(30)
    <3>4. ASSUME starting' = starting, Cardinality(conns') >= TargetOutbound
          PROVE  /\ starting' \in Nat
                 /\ Cardinality(H1) + starting' >= TargetOutbound
      <4>1. conns' \in SUBSET H1
        BY TypeStep, Zenon DEF Held, TypeInv
      <4>2. Cardinality(conns') <= Cardinality(H1) /\ Cardinality(conns') \in Nat
        <5>1. conns' \in SUBSET Req
          BY <1>1, <4>1
        <5>2. QED
          BY <1>1, <4>1, <5>1, ReqSets, Zenon
      <4>3. QED
        BY <1>1, <3>4, <4>2, SMTT(30)
    <3> HIDE DEF H, H1
    <3>5. QED
      BY <1>4, <3>1, <3>2, <3>3, <3>4, HeldStep, Zenon DEF H, H1
  <2>3. CASE started
    BY <1>1, <1>2, <2>1, <2>2, <2>3, SMTT(60) DEF SlotInv
  <2>4. CASE ~started
    <3>1. starting = 0 /\ \A r \in Req : work[r] # "unused" => perm[r]
      BY <2>4, Zenon DEF SlotInv
    <3>2. /\ perm' = perm /\ starting' = starting
          /\ \A q \in Req : work[q] = "unused" => work'[q] = "unused"
      BY <1>4, <2>4, <3>1, BeforeStart, Zenon
    <3>3. starting' = 0
      BY <3>1, <3>2
    <3>4. QED
      BY <1>2, <2>1, <2>4, <3>1, <3>2, <3>3, Zenon DEF SlotInv
  <2>5. QED
    BY <2>3, <2>4
<1>5. QED
  BY <1>3, <1>4

\* The slots for outbound connections are always kept.
THEOREM SlotsAlwaysKept == Spec => []SlotsKept
<1>1. Init => SlotInv
  <2> SUFFICES ASSUME Init PROVE SlotInv
    OBVIOUS
  <2>1. starting = 0 /\ started = FALSE /\ connReqCount = 0
    BY DEF Init
  <2>2. \A r \in Req : id[r] = 0 /\ (work[r] # "unused" => perm[r])
    BY Zenon DEF Init
  <2>3. Numbered(id) = {}
    BY <2>2 DEF Numbered
  <2>4. Cardinality(Numbered(id)) = 0
    BY <2>3, FS_EmptySet
  <2>5. started \in BOOLEAN
    BY <2>1, Zenon
  <2>6. QED
    BY <2>1, <2>2, <2>4, <2>5, Zenon DEF SlotInv
<1>2. IInv /\ SlotInv => SlotsKept
  <2> SUFFICES ASSUME IInv, SlotInv, started PROVE SlotsKept
    BY DEF SlotsKept
  <2> DEFINE W == {r \in Req : Working(r)}
             A == {r \in Req : work[r] \in {"abort", "aborted"}}
  <2>1. /\ conns \in SUBSET Req /\ W \in SUBSET Req /\ A \in SUBSET Req
        /\ conns \cup W \in SUBSET Req
        /\ Held(conns, work) = (conns \cup W) \cup A
    BY ZenonT(60) DEF IInv, TypeInv, Held, HoldsSlot, Work, Working
  <2> HIDE DEF W, A
  <2>2. ASSUME NEW S \in SUBSET Req, NEW T \in SUBSET Req
        PROVE  Cardinality(S \cup T) <= Cardinality(S) + Cardinality(T)
    <3>1. /\ IsFiniteSet(S) /\ IsFiniteSet(T) /\ S \cap T \in SUBSET Req
          /\ Cardinality(S) \in Nat /\ Cardinality(T) \in Nat
      BY ReqSets
    <3>2. Cardinality(S \cap T) \in Nat
      BY <3>1, ReqSets
    <3>3. Cardinality(S \cup T)
            = Cardinality(S) + Cardinality(T) - Cardinality(S \cap T)
      BY <3>1, FS_Union
    <3>4. QED
      BY <3>1, <3>2, <3>3
  <2>3. /\ Cardinality(Held(conns, work)) <= Cardinality(conns \cup W) + Cardinality(A)
        /\ Cardinality(conns \cup W) <= Cardinality(conns) + Cardinality(W)
    BY <2>1, <2>2, Zenon
  <2>4. /\ Cardinality(Held(conns, work)) \in Nat /\ Cardinality(conns \cup W) \in Nat
        /\ Cardinality(conns) \in Nat /\ Cardinality(W) \in Nat
        /\ Cardinality(A) \in Nat
    <3>1. (conns \cup W) \cup A \in SUBSET Req
      BY <2>1
    <3>2. QED
      BY <2>1, <3>1, ReqSets, Zenon
  <2>5. Cardinality(conns) + starting + Cardinality(W) + Cardinality(A) >= TargetOutbound
    BY <2>3, <2>4, ConstantsAssumption, SMTT(60) DEF SlotInv
  <2>6. QED
    BY <2>5 DEF SlotsKept, W, A
<1>3. IInv /\ SlotInv /\ [Next]_vars => SlotInv'
  BY SlotStep DEF IInv
<1>4. QED
  BY <1>1, <1>2, <1>3, Invariance, PTL DEF Spec

=============================================================================
