--------------------------- MODULE MCUdpDispatcher ---------------------------
(***************************************************************************)
(* Values for the constants of UdpDispatcher. Sessions are interchangeable *)
(* in the safety runs, and so are peers.                                   *)
(***************************************************************************)
EXTENDS UdpDispatcher, TLC

MCSymmetry == Permutations(Sessions) \cup Permutations(Peers)
=============================================================================
