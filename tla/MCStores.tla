------------------------------ MODULE MCStores ------------------------------
(***************************************************************************)
(* What is kept on disk and what the windows show of it, checked by one    *)
(* run: a behaviour belongs to one of the parts, chosen at the start, and  *)
(* leaves the others alone.                                                *)
(***************************************************************************)
EXTENDS ProfileStore, TSIdentity, TileCache, MainWindow, VPNMapWindow

VARIABLE active

PartsInit ==
    /\ active \in {"profiles", "identity", "tiles", "window", "map"}
    /\ Init /\ IdentityInit /\ TilesInit /\ WindowInit /\ MapWindowInit
    /\ active # "tiles" => byAge = <<>>
    /\ active # "window" => saved = <<>>

PartsNext ==
    \/ /\ active = "profiles" /\ Next
       /\ UNCHANGED <<identityVars, tileVars, guiVars, mapWindowVars, active>>
    \/ /\ active = "identity" /\ IdentityNext
       /\ UNCHANGED <<vars, tileVars, guiVars, mapWindowVars, active>>
    \/ /\ active = "tiles" /\ TilesNext
       /\ UNCHANGED <<vars, identityVars, guiVars, mapWindowVars, active>>
    \/ /\ active = "window" /\ WindowNext
       /\ UNCHANGED <<vars, identityVars, tileVars, mapWindowVars, active>>
    \/ /\ active = "map" /\ MapWindowNext
       /\ UNCHANGED <<vars, identityVars, tileVars, guiVars, active>>

PartsSpec ==
    PartsInit /\ [][PartsNext]_<<vars, identityVars, tileVars, guiVars, mapWindowVars, active>>

\* Names and sources of profiles are interchangeable.
Interchangeable == Permutations(Names) \cup Permutations(Sources)
=============================================================================
