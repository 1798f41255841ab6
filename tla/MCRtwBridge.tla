---------------------------- MODULE MCRtwBridge ----------------------------
(***************************************************************************)
(* The bridge with a session of a few messages: MCRtwBridge.cfg for safety, *)
(* MCBridgeLive.cfg and MCBridgePlay.cfg for liveness; the other            *)
(* configurations show, one by one, where the code does not keep what the   *)
(* documentation says.                                                     *)
(***************************************************************************)
EXTENDS RtwBridge
=============================================================================
