-------------------------- MODULE MCAvahiDiscovery --------------------------
(***************************************************************************)
(* Instances of AvahiDiscovery for TLC: this host's own service, a peer's, *)
(* one whose name has a blank (written _) and one whose name fills its     *)
(* field, and enough keys for a pause, a resume and another pause.         *)
(***************************************************************************)
EXTENDS AvahiDiscovery

MCServices == {"own", "peer", "a_peer", "long"}
MCOwn      == {"own"}
MCLength   == [s \in MCServices |-> IF s = "long" THEN N_BYTES_SERVNAME_MAX ELSE 6]
MCSqueezed == [s \in MCServices |-> IF s = "a_peer" THEN "apeer" ELSE s]
MCRunOn    == [own |-> "own+regtype", peer |-> "peer+regtype",
               a_peer |-> "a_peer+regtype", long |-> "long+regtype"]
=============================================================================
