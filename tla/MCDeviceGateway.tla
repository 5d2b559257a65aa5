-------------------------- MODULE MCDeviceGateway --------------------------
(***************************************************************************)
(* Bounds for TLC: with three connections a handshake can be overtaken by  *)
(* a newer one while it closes an older one; three turns make a stream, a  *)
(* direct speech and a stream that follows them.                           *)
(***************************************************************************)
EXTENDS DeviceGateway, TLC

Symmetry == Permutations(Conn) \cup Permutations(Turn)
=============================================================================
