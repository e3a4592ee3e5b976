------------------------------ MODULE MCTailnet ------------------------------
(***************************************************************************)
(* The parts of the Tailscale engine below the session, checked by one     *)
(* run: a behaviour belongs to one of them, chosen at the start, and       *)
(* leaves the others alone.                                                *)
(***************************************************************************)
EXTENDS ReplayWindow, TailscalePeers, TSNetmap, TSMapStream

VARIABLE active

\* Peers advertise everything, or one network.
Routes == {<<0, 0>>, <<2, 1>>}

\* Two messages on a map stream.
MessageLengths == <<1, 2>>

PartsInit ==
    /\ active \in {"window", "peers", "map", "stream"}
    /\ Init /\ PeersInit /\ NetmapInit /\ MapStreamInit

PartsNext ==
    \/ /\ active = "window" /\ Next
       /\ UNCHANGED <<peerVars, mapVars, mapStreamVars, active>>
    \/ /\ active = "peers" /\ PeersNext
       /\ UNCHANGED <<vars, mapVars, mapStreamVars, active>>
    \/ /\ active = "map" /\ NetmapNext
       /\ UNCHANGED <<vars, peerVars, mapStreamVars, active>>
    \/ /\ active = "stream" /\ MapStreamNext
       /\ UNCHANGED <<vars, peerVars, mapVars, active>>

PartsSpec ==
    PartsInit /\ [][PartsNext]_<<vars, peerVars, mapVars, mapStreamVars, active>>
=============================================================================
