-------------------------- MODULE MCOpenVPNBackend --------------------------
(***************************************************************************)
(* Small instances of OpenVPNBackend for TLC.  No peer is special, so      *)
(* they are interchangeable in the safety runs.                            *)
(***************************************************************************)
EXTENDS OpenVPNBackend, TLC

PeerSymmetry == Permutations(Peers)
=============================================================================
