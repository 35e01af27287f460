---------------------------- MODULE MCSuperpowers ----------------------------
(***************************************************************************)
(* The instances of Superpowers that TLC checks.  Two sessions let every   *)
(* object of an earlier session meet the fields of a later one; two        *)
(* workers let two frames of a session be out at the same time, if the     *)
(* buffer protocol ever allowed it.                                        *)
(***************************************************************************)
EXTENDS Superpowers

CONSTANTS w1, w2   \* worker threads, model values

OneWorker  == {w1}
TwoWorkers == {w1, w2}

\* A platform that refuses nothing, anything, or the camera only.
NoFaults     == {}
AllFaults    == FaultKinds
CameraFault  == {"camera"}

=============================================================================
