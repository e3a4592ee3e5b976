------------------------ MODULE MCSotoportegoServer -------------------------
(* Instances of SotoportegoServer for TLC. *)
EXTENDS SotoportegoServer

=============================================================================
