--------------------------- MODULE MCFileTransfer ---------------------------
(* Instances of FileTransfer for TLC: who sends which files. *)
EXTENDS FileTransfer, TLC

CONSTANTS s1, s2, f1, f2, f3, f4

(* Two files from s1, the second one empty, and two from s2, the first of  *)
(* which has the key of the empty one.                                     *)
FourOwners == (f1 :> s1) @@ (f2 :> s2) @@ (f3 :> s1) @@ (f4 :> s2)
FourSizes  == (f1 :> 50) @@ (f2 :> 300) @@ (f3 :> 0) @@ (f4 :> 1040000)
Second      == (s1 :> 0) @@ (s2 :> 1)

(* One file from each, the first either has ever offered. *)
TwoOwners == (f1 :> s1) @@ (f2 :> s2)
TwoSizes  == (f1 :> 300) @@ (f2 :> 300)
First     == (s1 :> 0) @@ (s2 :> 0)
=============================================================================
