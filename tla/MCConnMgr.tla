------------------------------ MODULE MCConnMgr ------------------------------
(* Small networks for ConnMgr. *)
EXTENDS ConnMgr

CONSTANTS x, y

MCAddPeers == <<x>>
MCNodes == {<<y, TRUE>>}

==============================================================================
