---------------------------- MODULE MCConnections ----------------------------
(* Instances of Connections for TLC: two peers, and what may go wrong. *)
EXTENDS Connections

TwoPeers    == {1, 2}
AllFaults   == FaultKinds
Flaps       == {"flap"}
=============================================================================
