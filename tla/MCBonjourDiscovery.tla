------------------------- MODULE MCBonjourDiscovery -------------------------
(* Three services: this machine, one whose name comes out of the browse     *)
(* list as it went in, and one whose name fills the record of the list, so  *)
(* that it is shown blank.                                                  *)
EXTENDS BonjourDiscovery

CONSTANTS me, near, long

MCLength   == [n \in Names |-> IF n = long THEN N_BYTES_SERVNAME_MAX ELSE 5]
MCSqueezed == [n \in Names |-> n]
=============================================================================
