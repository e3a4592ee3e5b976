---------------------------- MODULE StoresProofs ----------------------------
(***************************************************************************)
(* What is kept on disk and what the windows show of it.                   *)
(*                                                                         *)
(* ProfileStore for any names and imported files, whatever operations fail *)
(* and wherever the daemon dies: a saved profile stays in the profiles     *)
(* file, and a profile that points at a copy of ours finds it whole,       *)
(* unless the import that made the copy was itself cut short.  TSIdentity  *)
(* for any number of roles and keys: the node is never a new device.       *)
(* VPNMapWindow and MainWindow for any catalogue and profiles, and queues  *)
(* of any length: what is shown is what a click acts on.                   *)
(* TileCache for any tiles and limits: memory keeps its limit and the      *)
(* books agree with the disk.  VPNGateCatalogue for any clients and any    *)
(* number of waiting requests: while the fetch thread can be spawned, a    *)
(* request without an answer always has a fetch on its way.                *)
(***************************************************************************)
EXTENDS ProfileStore, TSIdentity, TileCache, VPNMapWindow, MainWindow, VPNGateCatalogue,
        FiniteSetTheorems, TLAPS

\* What the temporary and the final file hold where the handler is.
FilesFollowList ==
    /\ at = "rename" => tmp = fProfiles
    /\ at = "done" => file = fProfiles

\* Only a config of the user's is staged, and only for a save.
StagesSources ==
    /\ at \in {"stage", "copy"} => req.path \in Sources
    /\ at \in {"stage", "copy", "update"} => req.kind = "save"

\* The list in memory holds the profile that is being saved.
SavedInMemory ==
    at \in {"write", "flatten", "rename", "done"} /\ req.kind = "save" =>
        fProfiles[req.name] # NoProfile

\* Names whose save was announced are in the file, and in the list a running
\* daemon will write next.
KeptEverywhere ==
    \A n \in kept : file[n] # NoProfile /\ (at # "down" => fProfiles[n] # NoProfile)

IInv == TypeOK /\ StagesSources /\ FilesFollowList /\ SavedInMemory /\ KeptEverywhere

\* A profile file of the right type is not torn.
LEMMA ListsAreWhole == file \in List => file # Torn /\ Loaded = file
BY ProfileStoreAssumption DEF List, Loaded

\* The path of a request is never the mark for "no profile".
LEMMA PathsAreProfiles == \A p \in Paths : p # NoProfile
BY ProfileStoreAssumption

\* A copy belongs to the name it is made from.
LEMMA CopyNames ==
    /\ \A n \in Names : CopyOf(n) \in Copies /\ CopyOf(n) \in Paths /\ CopyOf(n).copyOf = n
    /\ \A p \in Copies : p \in Paths /\ p.copyOf \in Names /\ p = CopyOf(p.copyOf)
<1>1. \A n \in Names : CopyOf(n).copyOf = n
  BY DEF CopyOf
<1>2. \A n \in Names : CopyOf(n) \in Copies
  BY DEF Copies
<1>3. \A p \in Copies : \E n \in Names : p = CopyOf(n)
  BY DEF Copies
<1>4. \A p \in Copies : p.copyOf \in Names /\ p = CopyOf(p.copyOf)
  BY <1>1, <1>3
<1>5. Copies \subseteq Paths
  BY DEF Paths
<1> QED BY <1>1, <1>2, <1>4, <1>5

\* No step of the handler, no failure and no crash leaves the types.
LEMMA TypeInv ==
    ASSUME IInv, [Next]_vars
    PROVE  TypeOK'
<1> USE DEF IInv, TypeOK, fileVars
<1>1. ASSUME NEW n \in Names, NEW p \in Paths, SaveProfile(n, p) PROVE TypeOK'
  BY <1>1 DEF SaveProfile, Request, Steps
<1>2. ASSUME NEW n \in Names, DeleteProfile(n) PROVE TypeOK'
  BY <1>2 DEF DeleteProfile, Request, Steps, List
<1>3. CASE StageOpens
  BY <1>3 DEF StageOpens, Steps, Request
<1>4. CASE StageCopies
  <2>1. at' \in Steps /\ req' \in Request
    BY <1>4, CopyNames DEF StageCopies, Steps, Request
  <2>2. copies' \in [Names -> Sources \cup {Absent, Torn}]
    <3>1. req.name \in Names
      BY DEF Request
    <3>2. CASE copies' = [copies EXCEPT ![req.name] = Absent]
      BY <3>1, <3>2
    <3>3. CASE copies' = [copies EXCEPT ![req.name] = req.path]
      BY <1>4, <3>1, <3>3 DEF StageCopies, StagesSources
    <3> QED BY <1>4, <3>2, <3>3 DEF StageCopies
  <2> QED BY <1>4, <2>1, <2>2 DEF StageCopies
<1>5. CASE UpdateList
  BY <1>5 DEF UpdateList, Steps, List, Request
<1>6. CASE WriteOpens
  BY <1>6 DEF WriteOpens, Steps
<1>7. CASE WriteFlattens
  BY <1>7 DEF WriteFlattens, Steps
<1>8. CASE WriteRenames
  BY <1>8 DEF WriteRenames, Steps, FilesFollowList
<1>9. CASE Announce
  <2>1. copies' \in [Names -> Sources \cup {Absent, Torn}]
    BY <1>9, CopyNames DEF Announce, RemoveStagedConfig
  <2> QED BY <1>9, <2>1 DEF Announce, Steps, Request
<1>10. CASE Crash
  BY <1>10 DEF Crash
<1>11. CASE Restart
  BY <1>11, ListsAreWhole DEF Restart, Steps
<1>12. ASSUME NEW s \in Sources, SourceMoves(s) PROVE TypeOK'
  BY <1>12 DEF SourceMoves
<1>13. CASE UNCHANGED vars
  BY <1>13 DEF vars
<1> QED BY <1>1, <1>2, <1>3, <1>4, <1>5, <1>6, <1>7, <1>8, <1>9, <1>10, <1>11, <1>12, <1>13
        DEF Next

\* Every step keeps the invariant.
LEMMA StepInv ==
    ASSUME IInv, [Next]_vars
    PROVE  IInv'
<1>1. TypeOK'
  BY TypeInv
<1> USE DEF fileVars
<1>2. StagesSources'
  <2>1. CASE StageCopies
    BY <2>1 DEF StageCopies, StagesSources, IInv, TypeOK, Request
  <2>2. ASSUME NEW n \in Names, NEW p \in Paths, SaveProfile(n, p) PROVE StagesSources'
    BY <2>2 DEF SaveProfile, StagesSources
  <2>3. CASE Crash
    BY <2>3 DEF Crash, StagesSources
  <2>4. CASE StageOpens
    BY <2>4 DEF StageOpens, StagesSources, IInv
  <2>5. CASE [Next]_vars /\ ~StageCopies /\ ~StageOpens /\ ~Crash
             /\ ~\E n \in Names, p \in Paths : SaveProfile(n, p)
    BY <2>5 DEF IInv, StagesSources, Next, vars, DeleteProfile,
           UpdateList, WriteOpens, WriteFlattens, WriteRenames, Announce, Restart, SourceMoves
  <2> QED BY <2>1, <2>2, <2>3, <2>4, <2>5
<1>3. FilesFollowList'
  BY DEF IInv, FilesFollowList, Next, vars, SaveProfile, DeleteProfile, StageOpens, StageCopies,
         UpdateList, WriteOpens, WriteFlattens, WriteRenames, Announce, Crash, Restart,
         SourceMoves
<1>4. SavedInMemory'
  <2>1. CASE UpdateList
    <3>1. req.path # NoProfile /\ req.name \in Names
      BY PathsAreProfiles DEF IInv, TypeOK, Request
    <3> QED BY <2>1, <3>1 DEF UpdateList, SavedInMemory, IInv, TypeOK, List
  <2>2. ASSUME NEW n \in Names, DeleteProfile(n) PROVE SavedInMemory'
    BY <2>2 DEF DeleteProfile, SavedInMemory
  <2>3. CASE [Next]_vars /\ ~UpdateList /\ ~\E n \in Names : DeleteProfile(n)
    BY <2>3 DEF IInv, SavedInMemory, Next, vars, SaveProfile, StageOpens, StageCopies,
           WriteOpens, WriteFlattens, WriteRenames, Announce, Crash, Restart, SourceMoves
  <2> QED BY <2>1, <2>2, <2>3
<1>5. KeptEverywhere'
  <2>1. CASE UpdateList
    <3>1. req.path # NoProfile /\ req.name \in Names
      BY PathsAreProfiles DEF IInv, TypeOK, Request
    <3> QED BY <2>1, <3>1 DEF UpdateList, KeptEverywhere, IInv, TypeOK, List
  <2>2. ASSUME NEW n \in Names, DeleteProfile(n) PROVE KeptEverywhere'
    BY <2>2 DEF DeleteProfile, KeptEverywhere, IInv, TypeOK, List
  <2>3. CASE WriteRenames
    BY <2>3 DEF WriteRenames, KeptEverywhere, IInv, FilesFollowList
  <2>4. CASE Announce
    BY <2>4 DEF Announce, KeptEverywhere, IInv, TypeOK, FilesFollowList, SavedInMemory, Request
  <2>5. CASE Restart
    BY <2>5, ListsAreWhole DEF Restart, KeptEverywhere, IInv, TypeOK
  <2>6. CASE [Next]_vars /\ ~UpdateList /\ ~WriteRenames /\ ~Announce /\ ~Restart
             /\ ~\E n \in Names : DeleteProfile(n)
    BY <2>6 DEF IInv, KeptEverywhere, Next, vars, SaveProfile, StageOpens, StageCopies,
           WriteOpens, WriteFlattens, Crash, SourceMoves
  <2> QED BY <2>1, <2>2, <2>3, <2>4, <2>5, <2>6
<1> QED BY <1>1, <1>2, <1>3, <1>4, <1>5 DEF IInv

\* Every reachable state satisfies the invariant.
THEOREM StoreInvariant == Spec => []IInv
<1>1. Init => IInv
  <2> SUFFICES ASSUME Init PROVE IInv
    OBVIOUS
  <2>1. TypeOK
    BY DEF Init, TypeOK, Empty, List, Steps, Request, Paths
  <2>2. StagesSources /\ FilesFollowList /\ SavedInMemory /\ KeptEverywhere
    BY DEF Init, StagesSources, FilesFollowList, SavedInMemory, KeptEverywhere
  <2> QED BY <2>1, <2>2 DEF IInv
<1>2. IInv /\ [Next]_vars => IInv'
  BY StepInv
<1> QED BY <1>1, <1>2, PTL DEF Spec

\* The profiles file can always be read, whatever fails and wherever the daemon
\* dies.
THEOREM TypeCorrect == Spec => []TypeOK
<1>1. IInv => TypeOK
  BY DEF IInv
<1> QED BY <1>1, StoreInvariant, PTL

\* A profile whose save was announced stays in the profiles file until its
\* deletion is asked for.
THEOREM SavedSurvive == Spec => []SavedProfilesSurvive
<1>1. IInv => SavedProfilesSurvive
  BY ListsAreWhole DEF IInv, TypeOK, KeptEverywhere, SavedProfilesSurvive
<1> QED BY <1>1, StoreInvariant, PTL

-----------------------------------------------------------------------------
(* The copies. *)

\* The copy being written is marked, and a path about to enter the list points
\* at a whole copy, if at one of ours.
StagedIsMarked ==
    /\ at = "copy" => req.name \in cut
    /\ at = "update" /\ req.path \in Copies => copies[req.path.copyOf] \in Sources

CopyInv ==
    /\ IntactIn(file)
    /\ at # "down" => IntactIn(fProfiles)
    /\ StagedIsMarked

\* Every step keeps the copies' part of the invariant.
LEMMA CopyStep ==
    ASSUME IInv, CopyInv, [Next]_vars
    PROVE  CopyInv'
<1> USE DEF fileVars
<1>0. req.name \in Names /\ req.path \in Paths /\ req \in Request /\ file \in List
      /\ fProfiles \in List /\ copies \in [Names -> Sources \cup {Absent, Torn}]
  BY DEF IInv, TypeOK, Request
<1>1. ASSUME NEW n \in Names, NEW p \in Paths, SaveProfile(n, p) PROVE CopyInv'
  BY <1>1 DEF SaveProfile, CopyInv, IntactIn, StagedIsMarked
<1>2. ASSUME NEW n \in Names, DeleteProfile(n) PROVE CopyInv'
  <2>1. IntactIn(file)' /\ StagedIsMarked'
    BY <1>2 DEF DeleteProfile, CopyInv, IntactIn, StagedIsMarked
  <2>2. \A m \in Names : CopyOf(m) # NoProfile
    BY CopyNames, PathsAreProfiles
  <2>3. IntactIn(fProfiles)'
    BY <1>0, <1>2, <2>2 DEF DeleteProfile, CopyInv, IntactIn, List
  <2> QED BY <2>1, <2>3 DEF CopyInv
<1>3. CASE StageOpens
  <2>1. CASE UNCHANGED <<copies, cut>>
    BY <1>3, <2>1, ProfileStoreAssumption
       DEF StageOpens, CopyInv, IntactIn, StagedIsMarked, IInv, StagesSources
  <2>2. CASE at' = "copy" /\ copies' = [copies EXCEPT ![req.name] = Torn]
             /\ cut' = cut \cup {req.name}
    BY <1>0, <1>3, <2>2 DEF StageOpens, CopyInv, IntactIn, StagedIsMarked
  <2> QED BY <1>3, <2>1, <2>2 DEF StageOpens
<1>4. CASE StageCopies
  <2>1. /\ req.path \in Sources /\ req.name \in cut
        /\ at = "copy" /\ at' = "update" /\ UNCHANGED <<file, fProfiles>>
    BY <1>4 DEF StageCopies, IInv, StagesSources, CopyInv, StagedIsMarked
  <2>2. CASE /\ copies' = [copies EXCEPT ![req.name] = req.path]
             /\ req' = [req EXCEPT !.path = CopyOf(req.name)] /\ cut' = cut \ {req.name}
    <3>1. copies'[req.name] \in Sources /\ \A m \in Names : m # req.name => copies'[m] = copies[m]
      BY <1>0, <2>1, <2>2
    <3>2. StagedIsMarked'
      BY <1>0, <2>1, <2>2, <3>1, CopyNames DEF StagedIsMarked, Request
    <3>3. IntactIn(file)' /\ IntactIn(fProfiles)'
      BY <2>1, <2>2, <3>1 DEF CopyInv, IntactIn
    <3> QED BY <3>2, <3>3 DEF CopyInv
  <2>3. CASE copies' = [copies EXCEPT ![req.name] = Absent] /\ UNCHANGED <<req, cut>>
    BY <1>0, <2>1, <2>3, ProfileStoreAssumption DEF CopyInv, IntactIn, StagedIsMarked
  <2> QED BY <1>4, <2>2, <2>3 DEF StageCopies
<1>5. CASE UpdateList
  <2>1. \A m \in Names : req.path = CopyOf(m) => copies[m] \in Sources
    BY <1>5, CopyNames DEF UpdateList, CopyInv, StagedIsMarked
  <2>2. IntactIn(fProfiles)'
    BY <1>0, <1>5, <2>1 DEF UpdateList, CopyInv, IntactIn, List
  <2>3. IntactIn(file)' /\ StagedIsMarked'
    BY <1>5 DEF UpdateList, CopyInv, IntactIn, StagedIsMarked
  <2> QED BY <2>2, <2>3 DEF CopyInv
<1>6. CASE WriteOpens \/ WriteFlattens
  BY <1>6 DEF WriteOpens, WriteFlattens, CopyInv, IntactIn, StagedIsMarked
<1>7. CASE WriteRenames
  BY <1>7 DEF WriteRenames, CopyInv, IntactIn, StagedIsMarked, IInv, FilesFollowList
<1>8. CASE Announce
  <2>1. CASE UNCHANGED copies
    BY <1>8, <2>1 DEF Announce, CopyInv, IntactIn, StagedIsMarked
  <2>2. CASE copies' # copies
    <3>1. /\ req.path \in Copies /\ Unreferenced(req.path)
          /\ copies' = [copies EXCEPT ![req.path.copyOf] = Absent]
      BY <1>8, <2>2 DEF Announce, RemoveStagedConfig
    <3>2. /\ \A m \in Names : fProfiles[m] # CopyOf(req.path.copyOf)
          /\ \A m \in Names : m # req.path.copyOf => copies'[m] = copies[m]
      BY <1>0, <3>1, CopyNames DEF Unreferenced
    <3>3. file = fProfiles /\ at = "done" /\ at' = "idle" /\ UNCHANGED <<file, fProfiles, cut>>
      BY <1>8 DEF Announce, IInv, FilesFollowList
    <3> QED BY <3>2, <3>3 DEF CopyInv, IntactIn, StagedIsMarked
  <2> QED BY <2>1, <2>2
<1>9. CASE Crash
  BY <1>9 DEF Crash, CopyInv, IntactIn, StagedIsMarked
<1>10. CASE Restart
  BY <1>0, <1>10, ListsAreWhole DEF Restart, CopyInv, IntactIn, StagedIsMarked
<1>11. ASSUME NEW s \in Sources, SourceMoves(s) PROVE CopyInv'
  BY <1>11 DEF SourceMoves, CopyInv, IntactIn, StagedIsMarked
<1>12. CASE UNCHANGED vars
  BY <1>12 DEF vars, CopyInv, IntactIn, StagedIsMarked
<1> QED BY <1>1, <1>2, <1>3, <1>4, <1>5, <1>6, <1>7, <1>8, <1>9, <1>10, <1>11, <1>12
        DEF Next

\* A profile that points at a copy of ours finds it whole, now and after the
\* next start, unless the import of that copy was cut short.
THEOREM CopiesIntact == Spec => []ConfigsIntact
<1>1. Init => CopyInv
  <2>1. \A m \in Names : CopyOf(m) # NoProfile
    BY CopyNames, PathsAreProfiles
  <2> QED BY <2>1 DEF Init, CopyInv, IntactIn, StagedIsMarked, Empty
<1>2. IInv /\ CopyInv /\ [Next]_vars => CopyInv'
  BY CopyStep
<1>3. IInv /\ CopyInv => ConfigsIntact
  BY ListsAreWhole DEF IInv, TypeOK, CopyInv, ConfigsIntact
<1> QED BY <1>1, <1>2, <1>3, StoreInvariant, PTL DEF Spec

\* What was saved survives, the profile and our copy of its config, for all
\* failures and crash points.
THEOREM StoreSafety == Spec => []StoreSafe
<1>1. StoreSafe <=> SavedProfilesSurvive /\ ConfigsIntact
  BY DEF StoreSafe
<1> QED BY <1>1, SavedSurvive, CopiesIntact, PTL
-----------------------------------------------------------------------------
(***************************************************************************)
(* A tailnet profile's keys.  IdentityStable is not inductive: that what   *)
(* is handed out is the keystore's content, and stays so, is decided role  *)
(* by role while LoadOrCreate runs.                                        *)
(***************************************************************************)
IdentitySpec == IdentityInit /\ [][IdentityNext]_identityVars

RoleKeys == [RoleIDs -> Nat \cup {NoKey}]

\* The roles LoadOrCreate is past are in memory as they are in the keystore.
RolesLoaded ==
    \A r \in RoleIDs : r < loading => keystore[r] # NoKey /\ keypairs[r] = keystore[r]

\* The one identity given to sessions is the keystore's, with every role there.
HandedOutKept ==
    /\ handedOut \subseteq {keystore}
    /\ handedOut # {} => \A r \in RoleIDs : keystore[r] # NoKey

IdentityInv ==
    /\ keystore \in RoleKeys /\ keypairs \in RoleKeys /\ minted \in Nat /\ loading \in Nat
    /\ RolesLoaded /\ HandedOutKept
    /\ fValid => loading = 0 /\ keypairs = keystore

\* Roles loaded to the last one are the keystore.
LEMMA LoadedIsStored ==
    ASSUME IdentityInv, loading = Roles + 1
    PROVE  keypairs = keystore /\ \A r \in RoleIDs : keystore[r] # NoKey
<1>1. \A r \in RoleIDs : r < loading
  BY IdentityAssumption DEF RoleIDs
<1> QED BY <1>1 DEF IdentityInv, RolesLoaded, RoleKeys

\* Loading, minting, failing, dying and being tampered with all keep it.
LEMMA IdentityStep ==
    ASSUME IdentityInv, [IdentityNext]_identityVars
    PROVE  IdentityInv'
<1> USE DEF IdentityInv
<1>1. CASE LoadOrCreate
  <2>1. \A r \in RoleIDs : ~(r < 1)
    BY IdentityAssumption DEF RoleIDs
  <2> QED BY <1>1, <2>1 DEF LoadOrCreate, RolesLoaded, HandedOutKept
<1>2. CASE LoadRole
  <2>0. /\ loading \in RoleIDs /\ keystore[loading] # NoKey /\ ~fValid
        /\ UNCHANGED <<keystore, minted, fValid, handedOut>>
    BY <1>2, IdentityAssumption DEF LoadRole, RoleIDs
  <2>1. CASE loading' = 0 /\ keypairs' = [keypairs EXCEPT ![loading] = NoKey]
    <3>1. keypairs' \in RoleKeys /\ \A r \in RoleIDs : ~(r < 0)
      BY <2>0, <2>1, IdentityAssumption DEF RoleKeys, RoleIDs
    <3> QED BY <2>0, <2>1, <3>1 DEF RolesLoaded, HandedOutKept
  <2>2. CASE loading' = loading + 1 /\ keypairs' = [keypairs EXCEPT ![loading] = keystore[loading]]
    <3>1. keypairs' \in RoleKeys
      BY <2>0, <2>2 DEF RoleKeys
    <3>2. \A r \in RoleIDs : r < loading + 1 => r < loading \/ r = loading
      BY IdentityAssumption DEF RoleIDs
    <3>3. RolesLoaded'
      BY <2>0, <2>2, <3>2 DEF RolesLoaded, RoleKeys
    <3> QED BY <2>0, <2>2, <3>1, <3>3 DEF HandedOutKept
  <2> QED BY <1>2, <2>1, <2>2 DEF LoadRole
<1>3. ASSUME NEW r \in RoleIDs, AddKeyFails(r) PROVE IdentityInv'
  <2>1. /\ loading' = 0 /\ keypairs' = [keypairs EXCEPT ![r] = NoKey] /\ loading = r /\ loading # 0
        /\ minted' = minted + 1 /\ UNCHANGED <<keystore, fValid, handedOut>>
    BY <1>3, IdentityAssumption DEF AddKeyFails, RoleIDs
  <2>2. keypairs' \in RoleKeys /\ \A q \in RoleIDs : ~(q < 0)
    BY <2>1, IdentityAssumption DEF RoleKeys, RoleIDs
  <2> QED BY <2>1, <2>2 DEF RolesLoaded, HandedOutKept
<1>4. ASSUME NEW r \in RoleIDs, CreateRole(r) PROVE IdentityInv'
  <2>1. /\ loading = r /\ loading # 0 /\ keystore[r] = NoKey /\ loading' = r + 1
        /\ minted' = minted + 1 /\ minted + 1 \in Nat /\ r + 1 \in Nat
        /\ keystore' = [keystore EXCEPT ![r] = minted + 1]
        /\ keypairs' = [keypairs EXCEPT ![r] = minted + 1]
        /\ UNCHANGED <<fValid, handedOut>>
    BY <1>4, IdentityAssumption DEF CreateRole, RoleIDs
  <2>2. keystore' \in RoleKeys /\ keypairs' \in RoleKeys
    BY <2>1 DEF RoleKeys
  <2>3. minted + 1 # NoKey
    BY <2>1, IdentityAssumption
  <2>4. \A q \in RoleIDs : q < r + 1 => q < r \/ q = r
    BY IdentityAssumption DEF RoleIDs
  <2>5. RolesLoaded'
    BY <2>1, <2>3, <2>4 DEF RolesLoaded, RoleKeys
  <2>6. handedOut = {}
    BY <2>1 DEF HandedOutKept
  <2> QED BY <2>1, <2>2, <2>5, <2>6 DEF HandedOutKept
<1>5. CASE IdentityLoaded
  <2>1. keypairs = keystore /\ \A r \in RoleIDs : keystore[r] # NoKey
    BY <1>5, LoadedIsStored DEF IdentityLoaded
  <2>2. \A r \in RoleIDs : ~(r < 0)
    BY IdentityAssumption DEF RoleIDs
  <2> QED BY <1>5, <2>1, <2>2 DEF IdentityLoaded, RolesLoaded, HandedOutKept
<1>6. CASE RelaunchIdentity
  <2>1. Wiped \in RoleKeys /\ \A r \in RoleIDs : ~(r < 0)
    BY IdentityAssumption DEF RoleIDs, RoleKeys, Wiped
  <2> QED BY <1>6, <2>1 DEF RelaunchIdentity, RolesLoaded, HandedOutKept
<1>7. CASE KeystoreDamaged
  BY <1>7 DEF KeystoreDamaged, RolesLoaded, HandedOutKept
<1>8. CASE UNCHANGED identityVars
  BY <1>8 DEF identityVars, RolesLoaded, HandedOutKept
<1> QED BY <1>1, <1>2, <1>3, <1>4, <1>5, <1>6, <1>7, <1>8 DEF IdentityNext

\* Whatever fails, and wherever the daemon dies, every session of a tailnet
\* profile has the identity the keystore holds, and there is only one.
THEOREM NodeStaysItself == IdentitySpec => []IdentityStable
<1>1. IdentityInit => IdentityInv
  <2>1. Wiped \in RoleKeys /\ 0 \in Nat /\ \A r \in RoleIDs : ~(r < 0)
    BY IdentityAssumption DEF RoleIDs, RoleKeys, Wiped
  <2> QED BY <2>1 DEF IdentityInit, IdentityInv, RolesLoaded, HandedOutKept
<1>2. IdentityInv /\ [IdentityNext]_identityVars => IdentityInv'
  BY IdentityStep
<1>3. IdentityInv => IdentityStable
  <2> SUFFICES ASSUME IdentityInv PROVE IdentityStable
    OBVIOUS
  <2>1. handedOut = {} \/ handedOut = {keystore}
    BY DEF IdentityInv, HandedOutKept
  <2>2. Cardinality({}) = 0 /\ Cardinality({keystore}) = 1
    BY FS_EmptySet, FS_Singleton
  <2>3. Cardinality(handedOut) <= 1
    BY <2>1, <2>2
  <2> QED BY <2>3 DEF IdentityInv, HandedOutKept, IdentityStable
<1> QED BY <1>1, <1>2, <1>3, PTL DEF IdentitySpec

-----------------------------------------------------------------------------
(***************************************************************************)
(* Queues of messages.                                                     *)
(***************************************************************************)
\* A message of this kind is waiting.
Waiting(q, what) == \E i \in 1 .. Len(q) : q[i].what = what

\* A message posted waits with the others.
LEMMA Posted ==
    ASSUME NEW M, NEW q \in Seq(M), NEW m \in M, NEW what
    PROVE  /\ Append(q, m) \in Seq(M)
           /\ Waiting(Append(q, m), what) <=> Waiting(q, what) \/ m.what = what
<1>1. /\ Append(q, m) \in Seq(M) /\ Len(Append(q, m)) = Len(q) + 1
      /\ Append(q, m)[Len(q) + 1] = m /\ Len(q) \in Nat
      /\ \A i \in 1 .. Len(q) : Append(q, m)[i] = q[i]
  OBVIOUS
<1>2. ASSUME Waiting(q, what) \/ m.what = what PROVE Waiting(Append(q, m), what)
  BY <1>1, <1>2 DEF Waiting
<1>3. ASSUME Waiting(Append(q, m), what) PROVE Waiting(q, what) \/ m.what = what
  <2>1. PICK i \in 1 .. Len(q) + 1 : Append(q, m)[i].what = what
    BY <1>1, <1>3 DEF Waiting
  <2>2. i \in 1 .. Len(q) \/ i = Len(q) + 1
    BY <1>1
  <2> QED BY <1>1, <2>1, <2>2 DEF Waiting
<1> QED BY <1>1, <1>2, <1>3

\* A message taken was at the head.
LEMMA Taken ==
    ASSUME NEW M, NEW q \in Seq(M), q # <<>>, NEW what
    PROVE  /\ Head(q) \in M /\ Tail(q) \in Seq(M)
           /\ Waiting(q, what) <=> Head(q).what = what \/ Waiting(Tail(q), what)
<1>1. /\ Head(q) \in M /\ Tail(q) \in Seq(M) /\ Len(q) \in Nat \ {0} /\ Head(q) = q[1]
      /\ Len(Tail(q)) = Len(q) - 1 /\ \A i \in 1 .. Len(q) - 1 : Tail(q)[i] = q[i + 1]
  OBVIOUS
<1>2. ASSUME Waiting(q, what) PROVE Head(q).what = what \/ Waiting(Tail(q), what)
  <2>1. PICK i \in 1 .. Len(q) : q[i].what = what
    BY <1>2 DEF Waiting
  <2>2. i = 1 \/ (i - 1 \in 1 .. Len(q) - 1 /\ (i - 1) + 1 = i)
    BY <1>1
  <2> QED BY <1>1, <2>1, <2>2 DEF Waiting
<1>3. ASSUME Head(q).what = what \/ Waiting(Tail(q), what) PROVE Waiting(q, what)
  <2>1. 1 \in 1 .. Len(q) /\ \A i \in 1 .. Len(q) - 1 : i + 1 \in 1 .. Len(q)
    BY <1>1
  <2> QED BY <1>1, <1>3, <2>1 DEF Waiting
<1> QED BY <1>1, <1>2, <1>3

\* Nothing waits in an empty queue.
LEMMA NoneWaiting == <<>> \in Seq({}) /\ \A what : ~Waiting(<<>>, what)
  BY DEF Waiting

-----------------------------------------------------------------------------
(***************************************************************************)
(* The map's side panel.  It may differ from the selection only while the  *)
(* notice of a click waits in the window's queue, and that notice outlives *)
(* a catalogue handled before it.                                          *)
(***************************************************************************)
MapSpec == MapWindowInit /\ [][MapWindowNext]_mapWindowVars

MapMessage ==
    [what : {"catalogue"}, servers : SUBSET Servers, configs : SUBSET Servers,
     error : BOOLEAN]
    \cup [what : {"status"}, live : BOOLEAN, host : Servers \cup {NoServer}]
    \cup [what : {"serverSelected"}]
    \cup [what : {"clusterSelected"}, hosts : SUBSET Servers]

MapInv ==
    /\ fPins \in SUBSET Servers /\ lastConnect \in Servers \cup {NoServer}
    /\ mapQueue \in Seq(MapMessage)
    /\ fSelectedPin \in fPins \cup {NoServer}
    /\ panel = fSelectedPin \/ Waiting(mapQueue, "serverSelected")

\* A click queues the notice, and the cluster after it.
LEMMA ClickPosted ==
    ASSUME NEW M, NEW q \in Seq(M), NEW a \in M, NEW b \in M
    PROVE  /\ (q \o <<a>>) \o <<>> = Append(q, a)
           /\ (q \o <<a>>) \o <<b>> = Append(Append(q, a), b)
  OBVIOUS

\* Every step of the window, the map and the daemon keeps the panel right.
LEMMA MapStepInv ==
    ASSUME MapInv, [MapWindowNext]_mapWindowVars
    PROVE  MapInv'
<1>1. CASE CatalogueSent
  <2>1. PICK m \in MapMessage : m.what = "catalogue" /\ mapQueue' = Append(mapQueue, m)
    BY <1>1 DEF CatalogueSent, MapMessage
  <2>2. UNCHANGED <<fPins, lastConnect, fSelectedPin, panel>>
    BY <1>1 DEF CatalogueSent
  <2> QED BY <2>1, <2>2, Posted DEF MapInv
<1>2. CASE StatusSent
  <2>1. PICK m \in MapMessage : mapQueue' = Append(mapQueue, m)
    BY <1>2 DEF StatusSent, MapMessage, MapInv
  <2>2. UNCHANGED <<fPins, lastConnect, fSelectedPin, panel>>
    BY <1>2 DEF StatusSent
  <2> QED BY <2>1, <2>2, Posted DEF MapInv
<1>3. CASE PinClicked
  <2>1. PICK members \in SUBSET fPins : \E h \in members :
          /\ fSelectedPin' = h
          /\ mapQueue' = mapQueue \o <<[what |-> "serverSelected"]>>
                         \o (IF Cardinality(members) = 1 THEN <<>>
                             ELSE <<[what |-> "clusterSelected", hosts |-> members]>>)
    BY <1>3 DEF PinClicked
  <2> DEFINE a == [what |-> "serverSelected"]
             b == [what |-> "clusterSelected", hosts |-> members]
  <2>2. a \in MapMessage /\ b \in MapMessage /\ a.what = "serverSelected"
    BY DEF MapMessage, MapInv
  <2>3. \/ mapQueue' = (mapQueue \o <<a>>) \o <<>>
        \/ mapQueue' = (mapQueue \o <<a>>) \o <<b>>
    BY <2>1
  <2> HIDE DEF a, b
  <2>4. mapQueue' = Append(mapQueue, a) \/ mapQueue' = Append(Append(mapQueue, a), b)
    <3>1. mapQueue \in Seq(MapMessage)
      BY DEF MapInv
    <3>2. /\ (mapQueue \o <<a>>) \o <<>> = Append(mapQueue, a)
          /\ (mapQueue \o <<a>>) \o <<b>> = Append(Append(mapQueue, a), b)
      BY <2>2, <3>1, ClickPosted
    <3> QED BY <2>3, <3>2
  <2>5. mapQueue' \in Seq(MapMessage) /\ Waiting(mapQueue', "serverSelected")
    <3> DEFINE q == Append(mapQueue, a)
    <3>1. q \in Seq(MapMessage) /\ Waiting(q, "serverSelected")
      BY <2>2, Posted DEF MapInv
    <3>2. mapQueue' = q \/ mapQueue' = Append(q, b)
      BY <2>4
    <3> HIDE DEF q
    <3>3. Append(q, b) \in Seq(MapMessage) /\ Waiting(Append(q, b), "serverSelected")
      BY <2>2, <3>1, Posted
    <3> QED BY <3>1, <3>2, <3>3
  <2>6. UNCHANGED <<fPins, lastConnect>>
    BY <1>3 DEF PinClicked
  <2> QED BY <2>1, <2>5, <2>6 DEF MapInv
<1>4. CASE RowPicked
  BY <1>4 DEF RowPicked, SetSelectedHost, MapInv
<1>5. CASE RefreshClicked \/ ConnectClicked
  BY <1>5 DEF RefreshClicked, ConnectClicked, MapInv
<1>6. CASE MapPromptAnswered
  BY <1>6 DEF MapPromptAnswered, MapInv
<1>7. CASE MapWindowHandles
  <2> DEFINE m == Head(mapQueue)
  <2>0. mapQueue # <<>> /\ mapQueue' = Tail(mapQueue) /\ UNCHANGED lastConnect
    BY <1>7 DEF MapWindowHandles
  <2>1. /\ m \in MapMessage /\ mapQueue' \in Seq(MapMessage)
        /\ Waiting(mapQueue, "serverSelected") =>
             m.what = "serverSelected" \/ Waiting(mapQueue', "serverSelected")
    BY <2>0, Taken DEF MapInv
  <2>2. m.what \in {"catalogue", "status", "serverSelected", "clusterSelected"}
    BY <2>1 DEF MapMessage
  <2>3. CASE m.what = "catalogue"
    <3>1. m.servers \in SUBSET Servers
      BY <2>1, <2>3 DEF MapMessage
    <3>2. ApplyCatalogue(m)
      BY <1>7, <2>3 DEF MapWindowHandles
    <3> HIDE DEF m
    <3> QED BY <2>0, <2>1, <2>3, <3>1, <3>2 DEF ApplyCatalogue, MapInv
  <2>4. CASE m.what = "status"
    <3>1. SetActiveHost(m)
      BY <1>7, <2>4 DEF MapWindowHandles
    <3> HIDE DEF m
    <3> QED BY <2>0, <2>1, <2>4, <3>1 DEF SetActiveHost, MapInv
  <2>5. CASE m.what = "serverSelected"
    <3>1. RefreshSidePanel
      BY <1>7, <2>5 DEF MapWindowHandles
    <3> HIDE DEF m
    <3> QED BY <2>0, <2>1, <3>1 DEF RefreshSidePanel, MapInv
  <2>6. CASE m.what = "clusterSelected"
    <3>1. ApplyCluster(m)
      BY <1>7, <2>6 DEF MapWindowHandles
    <3> HIDE DEF m
    <3> QED BY <2>0, <2>1, <2>6, <3>1 DEF ApplyCluster, MapInv
  <2> QED BY <2>2, <2>3, <2>4, <2>5, <2>6
<1>8. CASE UNCHANGED mapWindowVars
  BY <1>8 DEF mapWindowVars, MapInv
<1> QED BY <1>1, <1>2, <1>3, <1>4, <1>5, <1>6, <1>7, <1>8 DEF MapWindowNext

\* With every message handled the panel describes the server the button would
\* connect to, and that server is on the map.
THEOREM PanelShowsSelection == MapSpec => []PanelIsSelection
<1>1. MapWindowInit => MapInv
  <2>1. <<>> \in Seq(MapMessage)
    OBVIOUS
  <2> QED BY <2>1 DEF MapWindowInit, MapInv
<1>2. MapInv /\ [MapWindowNext]_mapWindowVars => MapInv'
  BY MapStepInv
<1>3. MapInv => PanelIsSelection
  BY NoneWaiting DEF MapInv, PanelIsSelection
<1> QED BY <1>1, <1>2, <1>3, PTL DEF MapSpec

-----------------------------------------------------------------------------
(***************************************************************************)
(* The main window's list.  A window that has caught up shows the store    *)
(* because the last list on its way to it, if any is, is the store's; its  *)
(* selection is wrong only while a list, or a request that will be         *)
(* answered with one, is still on its way.                                 *)
(***************************************************************************)
WindowSpec == WindowInit /\ [][WindowNext]_guiVars

\* With q handled, a window that shows list will show names.
Follows(q, list, names) ==
    \/ list = names /\ ~Waiting(q, "profiles")
    \/ \E i \in 1 .. Len(q) : /\ q[i].what = "profiles" /\ q[i].names = names
                              /\ \A j \in 1 .. Len(q) : j > i => q[j].what # "profiles"

\* A list that is posted decides; anything else changes nothing.
LEMMA FollowsPosted ==
    ASSUME NEW M, NEW q \in Seq(M), NEW m \in M, NEW list, NEW names
    PROVE  /\ m.what = "profiles" /\ m.names = names => Follows(Append(q, m), list, names)
           /\ m.what # "profiles" /\ Follows(q, list, names) =>
                Follows(Append(q, m), list, names)
<1> DEFINE a == Append(q, m)
<1>1. /\ Len(a) = Len(q) + 1 /\ Len(q) \in Nat /\ a[Len(q) + 1] = m
      /\ \A i \in 1 .. Len(q) : a[i] = q[i]
  OBVIOUS
<1>2. Waiting(a, "profiles") <=> Waiting(q, "profiles") \/ m.what = "profiles"
  BY Posted
<1> HIDE DEF a
<1>3. /\ Len(a) \in 1 .. Len(a) /\ \A j \in 1 .. Len(a) : ~(j > Len(a))
      /\ \A i \in 1 .. Len(q) : i \in 1 .. Len(a)
      /\ \A j \in 1 .. Len(a) : j \in 1 .. Len(q) \/ j = Len(q) + 1
  BY <1>1
<1>4. ASSUME m.what = "profiles", m.names = names PROVE Follows(a, list, names)
  BY <1>1, <1>3, <1>4 DEF Follows
<1>5. ASSUME m.what # "profiles", Follows(q, list, names) PROVE Follows(a, list, names)
  <2>1. CASE list = names /\ ~Waiting(q, "profiles")
    BY <1>2, <1>5, <2>1 DEF Follows
  <2>2. ASSUME NEW i \in 1 .. Len(q), q[i].what = "profiles", q[i].names = names,
               \A j \in 1 .. Len(q) : j > i => q[j].what # "profiles"
        PROVE  Follows(a, list, names)
    <3>1. \A j \in 1 .. Len(a) : j > i => a[j].what # "profiles"
      BY <1>1, <1>3, <1>5, <2>2
    <3>2. i \in 1 .. Len(a) /\ a[i].what = "profiles" /\ a[i].names = names
      BY <1>1, <1>3, <2>2
    <3> QED BY <3>1, <3>2 DEF Follows
  <2> QED BY <1>5, <2>1, <2>2 DEF Follows
<1> QED BY <1>4, <1>5 DEF a

\* Handling a list shows it; handling anything else changes nothing.
LEMMA FollowsTaken ==
    ASSUME NEW M, NEW q \in Seq(M), q # <<>>, NEW list, NEW names, Follows(q, list, names)
    PROVE  /\ Head(q).what = "profiles" => Follows(Tail(q), Head(q).names, names)
           /\ Head(q).what # "profiles" => Follows(Tail(q), list, names)
<1> DEFINE r == Tail(q)
           h == Head(q)
<1>1. /\ Len(q) \in Nat \ {0} /\ h = q[1]
      /\ Len(r) = Len(q) - 1 /\ \A i \in 1 .. Len(q) - 1 : r[i] = q[i + 1]
  OBVIOUS
<1>2. Waiting(q, "profiles") <=> h.what = "profiles" \/ Waiting(r, "profiles")
  BY Taken
<1> HIDE DEF r, h
<1>3. CASE list = names /\ ~Waiting(q, "profiles")
  BY <1>2, <1>3 DEF Follows, r, h
<1>4. ASSUME NEW i \in 1 .. Len(q), q[i].what = "profiles", q[i].names = names,
             \A j \in 1 .. Len(q) : j > i => q[j].what # "profiles"
      PROVE  /\ h.what = "profiles" => Follows(r, h.names, names)
             /\ h.what # "profiles" => Follows(r, list, names)
  <2>1. \A j \in 1 .. Len(r) : j + 1 \in 1 .. Len(q) /\ r[j] = q[j + 1]
    BY <1>1
  <2>2. CASE i = 1
    <3>1. \A j \in 1 .. Len(r) : r[j].what # "profiles"
      <4>1. \A j \in 1 .. Len(r) : j + 1 > i
        BY <1>1, <2>2
      <4> QED BY <1>4, <2>1, <4>1
    <3>2. ~Waiting(r, "profiles")
      BY <3>1 DEF Waiting
    <3> QED BY <1>1, <1>4, <2>2, <3>2 DEF Follows
  <2>3. CASE i # 1
    <3>1. i - 1 \in 1 .. Len(r) /\ (i - 1) + 1 = i
      BY <1>1, <2>3
    <3>2. r[i - 1].what = "profiles" /\ r[i - 1].names = names
      BY <1>4, <2>1, <3>1
    <3>3. ASSUME NEW j \in 1 .. Len(r), j > i - 1 PROVE r[j].what # "profiles"
      <4>1. j + 1 > i
        BY <1>1, <3>3
      <4> QED BY <1>4, <2>1, <4>1
    <3> QED BY <3>1, <3>2, <3>3 DEF Follows
  <2> QED BY <2>2, <2>3
<1> QED BY <1>3, <1>4 DEF Follows, r, h

-----------------------------------------------------------------------------
Details == {"", "authentication failed"}

ClientMessage ==
    [what : {"profiles"}, names : Seq(ProfileNames)]
    \cup [what : {"selected"}]
    \cup [what : {"status"}, state : SessionStates, profile : ProfileNames \cup {NoName},
          detail : Details]

DaemonRequest ==
    [what : {"subscribe", "getStatus", "disconnect"}]
    \cup [what : {"connect", "save", "delete"}, name : ProfileNames]

DaemonTyped ==
    /\ session \in [state : SessionStates, profile : ProfileNames \cup {NoName}]
    /\ reports \in Seq([state : SessionStates, detail : Details])
    /\ saved \in Seq(ProfileNames) /\ subscribed \in BOOLEAN
    /\ toDaemon \in Seq(DaemonRequest) /\ toClient \in Seq(ClientMessage)

ListTyped ==
    /\ listed \in Seq(ProfileNames) /\ fSelectedName \in ProfileNames \cup {NoName}
    /\ listed = <<>> \/ row \in DOMAIN listed

\* The row of the list view and the name remembered are one and the same.
Highlighted ==
    IF listed = <<>> THEN fSelectedName = NoName
    ELSE row \in DOMAIN listed /\ fSelectedName = listed[row]

\* A request that is answered with the store's list.
Changing(q) == Waiting(q, "save") \/ Waiting(q, "delete")

ListComing == Waiting(toClient, "profiles") \/ Changing(toDaemon)

WindowInv ==
    /\ DaemonTyped /\ ListTyped
    /\ subscribed => Follows(toClient, listed, saved)
    /\ ~subscribed => listed = <<>> /\ fSelectedName = NoName /\ ~Waiting(toClient, "profiles")
    /\ Highlighted \/ ListComing

\* A step that neither touches the list nor takes a request for a change, and
\* whose message to the client, if there is one, is not a list.
LEMMA TalkStep ==
    ASSUME WindowInv, DaemonTyped', UNCHANGED <<saved, subscribed, listVars>>,
           Changing(toDaemon) => Changing(toDaemon'),
           \/ UNCHANGED toClient
           \/ \E m \in ClientMessage : m.what # "profiles" /\ toClient' = Append(toClient, m)
    PROVE  WindowInv'
<1>1. ListTyped' /\ (Highlighted' <=> Highlighted)
  BY DEF WindowInv, ListTyped, Highlighted, listVars
<1>2. CASE UNCHANGED toClient
  BY <1>1, <1>2 DEF WindowInv, ListComing, listVars
<1>3. ASSUME NEW m \in ClientMessage, m.what # "profiles", toClient' = Append(toClient, m)
      PROVE  WindowInv'
  <2>1. toClient \in Seq(ClientMessage)
    BY DEF WindowInv, DaemonTyped
  <2>2. Waiting(toClient', "profiles") <=> Waiting(toClient, "profiles")
    BY <1>3, <2>1, Posted
  <2>3. Follows(toClient, listed, saved) => Follows(toClient', listed, saved)
    BY <1>3, <2>1, FollowsPosted
  <2> QED BY <1>1, <2>2, <2>3 DEF WindowInv, ListComing, listVars
<1> QED BY <1>2, <1>3

\* A step that sends the client the store's list.
LEMMA ListStep ==
    ASSUME WindowInv, DaemonTyped', UNCHANGED listVars, subscribed' = TRUE,
           toClient' = Append(toClient, [what |-> "profiles", names |-> saved'])
    PROVE  WindowInv'
<1>1. ListTyped'
  BY DEF WindowInv, ListTyped, listVars
<1>2. PICK m \in ClientMessage :
        m.what = "profiles" /\ m.names = saved' /\ toClient' = Append(toClient, m)
  BY DEF DaemonTyped, ClientMessage
<1>3. toClient \in Seq(ClientMessage)
  BY DEF WindowInv, DaemonTyped
<1>4. Waiting(toClient', "profiles") /\ Follows(toClient', listed', saved')
  BY <1>2, <1>3, Posted, FollowsPosted
<1> QED BY <1>1, <1>4 DEF WindowInv, ListComing

\* What a request may be, and what is left when it is taken.
LEMMA RequestTaken ==
    ASSUME DaemonTyped, toDaemon # <<>>, NEW m, m = Head(toDaemon)
    PROVE  /\ m \in DaemonRequest /\ Tail(toDaemon) \in Seq(DaemonRequest)
           /\ m.what \in {"subscribe", "getStatus", "disconnect", "connect", "save", "delete"}
           /\ m.what \in {"connect", "save", "delete"} => m.name \in ProfileNames
           /\ Changing(toDaemon) => m.what \in {"save", "delete"} \/ Changing(Tail(toDaemon))
<1>1. m \in DaemonRequest /\ Tail(toDaemon) \in Seq(DaemonRequest)
  BY Taken DEF DaemonTyped
<1>2. Changing(toDaemon) => m.what \in {"save", "delete"} \/ Changing(Tail(toDaemon))
  BY Taken DEF DaemonTyped, Changing
<1> QED BY <1>1, <1>2 DEF DaemonRequest

\* A status is a message of its own.
LEMMA StatusMessage ==
    ASSUME NEW s \in SessionStates, NEW n \in ProfileNames \cup {NoName}, NEW d \in Details
    PROVE  Status(s, n, d) \in ClientMessage /\ Status(s, n, d).what # "profiles"
  BY DEF Status, ClientMessage

\* _FillStatus too.
LEMMA FilledStatus ==
    ASSUME DaemonTyped
    PROVE  FillStatus \in ClientMessage /\ FillStatus.what # "profiles"
<1>1. /\ session.state \in SessionStates /\ "" \in Details
      /\ (IF Live THEN session.profile ELSE NoName) \in ProfileNames \cup {NoName}
  BY DEF DaemonTyped, Details
<1> QED BY <1>1, StatusMessage DEF FillStatus

\* A change of the store that could be written.
LEMMA StoreStep ==
    ASSUME WindowInv, UNCHANGED listVars, toDaemon' \in Seq(DaemonRequest),
           NEW names \in Seq(ProfileNames), StoreBecomes(names, TRUE)
    PROVE  WindowInv'
<1>0. /\ saved' = names /\ UNCHANGED <<session, reports, subscribed>>
      /\ subscribed => toClient' = Append(toClient, [what |-> "profiles", names |-> saved'])
      /\ ~subscribed => UNCHANGED toClient
  BY DEF StoreBecomes
<1>1. toClient' \in Seq(ClientMessage)
  <2>1. PICK m \in ClientMessage : m = [what |-> "profiles", names |-> saved']
    BY <1>0 DEF ClientMessage
  <2>2. toClient \in Seq(ClientMessage) /\ Append(toClient, m) \in Seq(ClientMessage)
    BY DEF WindowInv, DaemonTyped
  <2>3. toClient' = Append(toClient, m) \/ toClient' = toClient
    BY <1>0, <2>1
  <2> QED BY <2>2, <2>3
<1>2. DaemonTyped'
  BY <1>0, <1>1 DEF WindowInv, DaemonTyped
<1>3. CASE subscribed
  BY <1>0, <1>2, <1>3, ListStep
<1>4. CASE ~subscribed
  <2>1. ListTyped' /\ Highlighted'
    BY <1>4 DEF WindowInv, ListTyped, Highlighted, listVars
  <2> QED BY <1>0, <1>2, <1>4, <2>1 DEF WindowInv, listVars
<1> QED BY <1>3, <1>4

\* The first list a client gets.
LEMMA FirstList ==
    ASSUME WindowInv, UNCHANGED <<saved, listVars>>, toDaemon' \in Seq(DaemonRequest),
           session' \in [state : SessionStates, profile : ProfileNames \cup {NoName}],
           reports' \in Seq([state : SessionStates, detail : Details]),
           subscribed' = TRUE, toClient' = Append(toClient, ProfileList)
    PROVE  WindowInv'
<1>1. ProfileList = [what |-> "profiles", names |-> saved'] /\ ProfileList \in ClientMessage
  BY DEF ProfileList, ClientMessage, WindowInv, DaemonTyped
<1>2. DaemonTyped'
  BY <1>1 DEF WindowInv, DaemonTyped
<1> QED BY <1>1, <1>2, ListStep

\* The daemon takes a request.
LEMMA HandleStep ==
    ASSUME SaveOutcomes = {TRUE}, WindowInv, DaemonHandles, UNCHANGED windowVars
    PROVE  WindowInv'
<1> DEFINE m == Head(toDaemon)
<1>0. toDaemon # <<>> /\ toDaemon' = Tail(toDaemon) /\ UNCHANGED listVars /\ DaemonTyped
  BY DEF DaemonHandles, windowVars, WindowInv
<1>1. /\ m \in DaemonRequest /\ toDaemon' \in Seq(DaemonRequest)
      /\ m.what \in {"subscribe", "getStatus", "disconnect", "connect", "save", "delete"}
      /\ m.what \in {"connect", "save", "delete"} => m.name \in ProfileNames
      /\ Changing(toDaemon) => m.what \in {"save", "delete"} \/ Changing(toDaemon')
  BY <1>0, RequestTaken
<1>2. CASE m.what = "subscribe"
  <2>1. HandleSubscribe
    BY <1>2 DEF DaemonHandles
  <2> HIDE DEF m
  <2>2. CASE subscribed
    BY <1>0, <1>1, <1>2, <2>1, <2>2, TalkStep DEF HandleSubscribe, DaemonTyped
  <2>3. CASE ~subscribed
    <3>1. /\ toClient' = Append(toClient, ProfileList) /\ subscribed' = TRUE
          /\ UNCHANGED <<session, reports, saved>>
      BY <2>1, <2>3 DEF HandleSubscribe, Answer
    <3> QED BY <1>0, <1>1, <3>1, FirstList DEF DaemonTyped
  <2> QED BY <2>2, <2>3
<1>3. CASE m.what = "getStatus"
  <2>1. HandleGetStatus
    BY <1>3 DEF DaemonHandles
  <2> HIDE DEF m
  <2>2. /\ toClient' = Append(toClient, FillStatus) /\ FillStatus \in ClientMessage
        /\ FillStatus.what # "profiles"
    BY <1>0, <2>1, FilledStatus DEF HandleGetStatus, Answer
  <2>3. DaemonTyped'
    BY <1>0, <1>1, <2>1, <2>2 DEF HandleGetStatus, DaemonTyped
  <2> QED BY <1>0, <1>1, <1>3, <2>1, <2>2, <2>3, TalkStep DEF HandleGetStatus
<1>4. CASE m.what = "connect"
  <2>1. HandleConnectRequest(m)
    BY <1>4 DEF DaemonHandles
  <2> HIDE DEF m
  <2>2. CASE Live
    <3>1. /\ toClient' = Append(toClient, FillStatus) /\ FillStatus \in ClientMessage
          /\ FillStatus.what # "profiles" /\ UNCHANGED <<session, reports, saved, subscribed>>
      BY <1>0, <2>1, <2>2, FilledStatus DEF HandleConnectRequest, Answer
    <3>2. DaemonTyped'
      BY <1>0, <1>1, <3>1 DEF DaemonTyped
    <3> QED BY <1>0, <1>1, <1>4, <3>1, <3>2, TalkStep
  <2>3. CASE ~Live
    <3>1. /\ session' = [state |-> "CONNECTING", profile |-> m.name]
          /\ reports' = Append(reports, [state |-> "CONNECTING", detail |-> ""])
          /\ subscribed' = TRUE /\ UNCHANGED saved
          /\ subscribed => UNCHANGED toClient
          /\ ~subscribed => toClient' = Append(toClient, ProfileList)
      BY <2>1, <2>3 DEF HandleConnectRequest, Answer
    <3>2. /\ session' \in [state : SessionStates, profile : ProfileNames \cup {NoName}]
          /\ reports' \in Seq([state : SessionStates, detail : Details])
      <4>1. session' \in [state : SessionStates, profile : ProfileNames \cup {NoName}]
        BY <1>1, <1>4, <3>1 DEF SessionStates
      <4>2. PICK r \in [state : SessionStates, detail : Details] :
              r = [state |-> "CONNECTING", detail |-> ""]
        BY DEF SessionStates, Details
      <4>3. reports' = Append(reports, r)
        BY <3>1, <4>2
      <4> QED BY <1>0, <4>1, <4>3 DEF DaemonTyped
    <3>3. CASE subscribed
      <4>1. DaemonTyped'
        BY <1>0, <1>1, <3>1, <3>2, <3>3 DEF DaemonTyped
      <4> QED BY <1>0, <1>1, <1>4, <3>1, <3>3, <4>1, TalkStep
    <3>4. CASE ~subscribed
      BY <1>0, <1>1, <3>1, <3>2, <3>4, FirstList
    <3> QED BY <3>3, <3>4
  <2> QED BY <2>2, <2>3
<1>5. CASE m.what = "disconnect"
  <2>1. HandleDisconnectRequest
    BY <1>5 DEF DaemonHandles
  <2> HIDE DEF m
  <2> QED BY <1>0, <1>1, <1>5, <2>1, TalkStep DEF HandleDisconnectRequest, DaemonTyped
<1>6. CASE m.what = "save"
  <2>1. HandleSaveRequest(m)
    BY <1>6 DEF DaemonHandles
  <2> HIDE DEF m
  <2>2. PICK names \in Seq(ProfileNames) : StoreBecomes(names, TRUE)
    <3>1. saved \in Seq(ProfileNames) /\ Append(saved, m.name) \in Seq(ProfileNames)
      BY <1>0, <1>1, <1>6 DEF DaemonTyped
    <3> QED BY <2>1, <3>1 DEF HandleSaveRequest
  <2> QED BY <1>0, <1>1, <2>2, StoreStep
<1>7. CASE m.what = "delete"
  <2>1. HandleDeleteRequest(m)
    BY <1>7 DEF DaemonHandles
  <2> HIDE DEF m
  <2>2. PICK names \in Seq(ProfileNames) : StoreBecomes(names, TRUE)
    <3>1. saved \in Seq(ProfileNames)
      BY <1>0 DEF DaemonTyped
    <3>2. \A i \in DOMAIN saved :
            SubSeq(saved, 1, i - 1) \o SubSeq(saved, i + 1, Len(saved)) \in Seq(ProfileNames)
      BY <3>1
    <3> QED BY <2>1, <3>1, <3>2 DEF HandleDeleteRequest
  <2> QED BY <1>0, <1>1, <2>2, StoreStep
<1> QED BY <1>1, <1>2, <1>3, <1>4, <1>5, <1>6, <1>7

\* What the daemon does of its own accord.
LEMMA DaemonStep ==
    ASSUME WindowInv, SessionMoves \/ BroadcastReport \/ LookupAnswers \/ OtherConnects,
           UNCHANGED windowVars
    PROVE  WindowInv'
<1>0. /\ UNCHANGED <<saved, subscribed, toDaemon, listVars>> /\ DaemonTyped
      /\ toDaemon \in Seq(DaemonRequest) /\ toClient \in Seq(ClientMessage)
  BY DEF SessionMoves, BroadcastReport, LookupAnswers, OtherConnects, windowVars, WindowInv,
         DaemonTyped
<1>1. CASE SessionMoves
  <2>1. PICK s \in SessionStates, d \in Details :
          /\ session' = [session EXCEPT !.state = s]
          /\ reports' = Append(reports, [state |-> s, detail |-> d])
    BY <1>1 DEF SessionMoves, Details
  <2>2. session' \in [state : SessionStates, profile : ProfileNames \cup {NoName}]
    BY <1>0, <2>1 DEF DaemonTyped
  <2>3. reports' \in Seq([state : SessionStates, detail : Details])
    BY <1>0, <2>1 DEF DaemonTyped
  <2>4. UNCHANGED toClient
    BY <1>1 DEF SessionMoves
  <2>5. DaemonTyped'
    BY <1>0, <2>2, <2>3, <2>4 DEF DaemonTyped
  <2> QED BY <1>0, <2>4, <2>5, TalkStep
<1>2. CASE BroadcastReport
  <2>1. PICK s \in {Head(reports).state, "RECONNECTING"} :
          toClient' = IF subscribed
                      THEN Append(toClient, Status(s, NoName, Head(reports).detail))
                      ELSE toClient
    BY <1>2 DEF BroadcastReport
  <2>2. /\ Head(reports) \in [state : SessionStates, detail : Details]
        /\ reports' \in Seq([state : SessionStates, detail : Details]) /\ UNCHANGED session
    <3> DEFINE R == [state : SessionStates, detail : Details]
    <3>1. reports \in Seq(R) /\ reports # <<>> /\ reports' = Tail(reports) /\ UNCHANGED session
      BY <1>0, <1>2 DEF BroadcastReport, DaemonTyped
    <3> HIDE DEF R
    <3>2. Head(reports) \in R /\ reports' \in Seq(R)
      BY <3>1
    <3> QED BY <3>1, <3>2 DEF R
  <2>3. s \in SessionStates /\ Head(reports).detail \in Details
    BY <2>2 DEF SessionStates
  <2>4. PICK m \in ClientMessage :
          m.what # "profiles" /\ (toClient' = Append(toClient, m) \/ UNCHANGED toClient)
    BY <2>1, <2>3, StatusMessage
  <2>5. toClient' \in Seq(ClientMessage)
    BY <1>0, <2>4
  <2>6. DaemonTyped'
    BY <1>0, <2>2, <2>5 DEF DaemonTyped
  <2> QED BY <1>0, <2>4, <2>6, TalkStep
<1>3. CASE LookupAnswers
  <2>1. /\ toClient' = Append(toClient, FillStatus) /\ FillStatus \in ClientMessage
        /\ FillStatus.what # "profiles" /\ UNCHANGED <<session, reports>>
    BY <1>0, <1>3, FilledStatus DEF LookupAnswers, Answer
  <2>2. DaemonTyped'
    BY <1>0, <2>1 DEF DaemonTyped
  <2> QED BY <1>0, <2>1, <2>2, TalkStep
<1>4. CASE OtherConnects
  <2>1. PICK n \in ProfileNames \cup {NoName} :
          /\ session' = [state |-> "CONNECTING", profile |-> n]
          /\ reports' = Append(reports, [state |-> "CONNECTING", detail |-> ""])
    BY <1>0, <1>4 DEF OtherConnects, DaemonTyped
  <2>2. session' \in [state : SessionStates, profile : ProfileNames \cup {NoName}]
    BY <2>1 DEF SessionStates
  <2>3. PICK r \in [state : SessionStates, detail : Details] :
          r = [state |-> "CONNECTING", detail |-> ""]
    BY DEF SessionStates, Details
  <2>4. reports' = Append(reports, r)
    BY <2>1, <2>3
  <2>5. UNCHANGED toClient
    BY <1>4 DEF OtherConnects
  <2>6. DaemonTyped'
    BY <1>0, <2>2, <2>4, <2>5 DEF DaemonTyped
  <2> QED BY <1>0, <2>5, <2>6, TalkStep
<1> QED BY <1>1, <1>2, <1>3, <1>4

\* A step of the window that changes nothing of the list and sends the daemon a
\* request, or nothing.
LEMMA AskStep ==
    ASSUME WindowInv, UNCHANGED <<session, reports, saved, subscribed, toClient, listVars>>,
           UNCHANGED toDaemon \/ \E m \in DaemonRequest : toDaemon' = Append(toDaemon, m)
    PROVE  WindowInv'
<1>1. toDaemon \in Seq(DaemonRequest)
  BY DEF WindowInv, DaemonTyped
<1>2. toDaemon' \in Seq(DaemonRequest) /\ (Changing(toDaemon) => Changing(toDaemon'))
  <2>1. CASE UNCHANGED toDaemon
    BY <1>1, <2>1
  <2>2. ASSUME NEW m \in DaemonRequest, toDaemon' = Append(toDaemon, m)
        PROVE  toDaemon' \in Seq(DaemonRequest) /\ (Changing(toDaemon) => Changing(toDaemon'))
    BY <1>1, <2>2, Posted DEF Changing
  <2> QED BY <2>1, <2>2
<1>3. DaemonTyped'
  BY <1>2 DEF WindowInv, DaemonTyped
<1> QED BY <1>2, <1>3, TalkStep

\* The selected profile, if there is one, is one of the names listed.
LEMMA SelectedIsListed ==
    ASSUME WindowInv, SelectedProfile # NoName
    PROVE  SelectedProfile \in ProfileNames /\ listed # <<>> /\ subscribed
<1>1. fSelectedName \in InList(listed) /\ SelectedProfile = fSelectedName
  BY DEF SelectedProfile
<1>2. PICK i \in DOMAIN listed : fSelectedName = listed[i]
  BY <1>1 DEF InList
<1>3. listed \in Seq(ProfileNames)
  BY DEF WindowInv, ListTyped
<1>4. listed # <<>> /\ listed[i] \in ProfileNames
  BY <1>2, <1>3
<1> QED BY <1>1, <1>2, <1>4 DEF WindowInv

\* _SendConnectWith and what comes down to it: at most one request.
LEMMA ConnectAsks ==
    ASSUME WindowInv, SendConnectWith \/ BeginConnectFlow \/ SendDisconnect
    PROVE  UNCHANGED toDaemon \/ \E m \in DaemonRequest : toDaemon' = Append(toDaemon, m)
<1>1. [what |-> "disconnect"] \in DaemonRequest
  BY DEF DaemonRequest
<1>2. SelectedProfile # NoName =>
        [what |-> "connect", name |-> SelectedProfile] \in DaemonRequest
  BY SelectedIsListed DEF DaemonRequest
<1>3. CASE SendDisconnect
  BY <1>1, <1>3 DEF SendDisconnect, Send
<1>4. CASE SendConnectWith
  BY <1>2, <1>4 DEF SendConnectWith, Send, Silent
<1>5. CASE BeginConnectFlow
  BY <1>2, <1>5 DEF BeginConnectFlow, SendConnectWith, Send, Silent
<1> QED BY <1>3, <1>4, <1>5

\* A request that will bring the list back, whatever is selected meanwhile.
LEMMA ChangeStep ==
    ASSUME WindowInv, subscribed, UNCHANGED <<session, reports, saved, subscribed, toClient,
                                              listed, row>>,
           fSelectedName' \in ProfileNames \cup {NoName},
           NEW m \in DaemonRequest, m.what \in {"save", "delete"},
           toDaemon' = Append(toDaemon, m)
    PROVE  WindowInv'
<1>1. toDaemon \in Seq(DaemonRequest)
  BY DEF WindowInv, DaemonTyped
<1>2. toDaemon' \in Seq(DaemonRequest) /\ Changing(toDaemon')
  BY <1>1, Posted DEF Changing
<1>3. DaemonTyped' /\ ListTyped'
  BY <1>2 DEF WindowInv, DaemonTyped, ListTyped
<1> QED BY <1>2, <1>3 DEF WindowInv, ListComing

\* _RefreshProfileList always ends with a row of the new list, and its name.
LEMMA Refreshed ==
    ASSUME NEW names \in Seq(ProfileNames), RefreshProfileList(names), listed' = names
    PROVE  ListTyped' /\ Highlighted'
<1>1. CASE names = <<>>
  BY <1>1 DEF RefreshProfileList, ListTyped, Highlighted
<1>2. CASE names # <<>>
  <2> DEFINE name == IF fSelectedName = NoName /\ row \in DOMAIN names
                     THEN names[row] ELSE fSelectedName
             want == IF name \in InList(names) THEN name ELSE names[1]
             place == CHOOSE i \in DOMAIN names : names[i] = want
  <2>1. row' = place /\ fSelectedName' = names[place]
    BY <1>2 DEF RefreshProfileList
  <2>2. want \in InList(names)
    <3>1. 1 \in DOMAIN names /\ names[1] \in InList(names)
      BY <1>2 DEF InList
    <3> HIDE DEF name
    <3> QED BY <3>1
  <2> HIDE DEF want
  <2>3. place \in DOMAIN names
    BY <2>2 DEF InList
  <2> HIDE DEF place
  <2>4. names[place] \in ProfileNames
    BY <2>3
  <2> QED BY <1>2, <2>1, <2>3, <2>4 DEF ListTyped, Highlighted
<1> QED BY <1>1, <1>2

\* Every step of the window keeps it.
LEMMA WindowStep ==
    ASSUME SaveOutcomes = {TRUE}, WindowInv, [WindowNext]_guiVars
    PROVE  WindowInv'
<1>0. /\ DaemonTyped /\ ListTyped /\ toClient \in Seq(ClientMessage)
      /\ toDaemon \in Seq(DaemonRequest) /\ listed \in Seq(ProfileNames)
  BY DEF WindowInv, DaemonTyped, ListTyped
<1>1. CASE EnsureSubscribed
  <2>1. toDaemon' \in Seq(DaemonRequest)
    <3>1. [what |-> "subscribe"] \in DaemonRequest /\ [what |-> "getStatus"] \in DaemonRequest
      BY DEF DaemonRequest
    <3> QED BY <1>1, <3>1 DEF EnsureSubscribed
  <2>2. /\ UNCHANGED <<session, reports, saved, subscribed, toClient, listVars>>
        /\ toDaemon = <<>>
    BY <1>1 DEF EnsureSubscribed, windowVars
  <2>3. ~Changing(toDaemon)
    BY <2>2, NoneWaiting DEF Changing
  <2>4. DaemonTyped'
    BY <1>0, <2>1, <2>2 DEF DaemonTyped
  <2> QED BY <2>2, <2>3, <2>4, TalkStep
<1>2. CASE PrimaryAction \/ MenuAction
  <2>1. /\ BeginConnectFlow \/ SendDisconnect
        /\ UNCHANGED <<session, reports, saved, subscribed, toClient, listVars>>
    BY <1>2 DEF PrimaryAction, MenuAction
  <2> QED BY <2>1, ConnectAsks, AskStep
<1>3. CASE CredentialsOK
  <2>1. /\ SendConnectWith
        /\ UNCHANGED <<session, reports, saved, subscribed, toClient, listVars>>
    BY <1>3 DEF CredentialsOK
  <2> QED BY <2>1, ConnectAsks, AskStep
<1>4. CASE CredentialsCancel \/ ForgetSelectedPassword
  <2>1. UNCHANGED <<session, reports, saved, subscribed, toClient, toDaemon, listVars>>
    BY <1>4 DEF CredentialsCancel, ForgetSelectedPassword, daemonVars
  <2> QED BY <2>1, AskStep
<1>5. CASE SelectRow
  <2>1. PICK i \in DOMAIN listed : row' = i /\ fSelectedName' = listed[i]
    BY <1>5 DEF SelectRow
  <2>2. UNCHANGED <<session, reports, saved, subscribed, toClient, toDaemon, listed>>
    BY <1>5 DEF SelectRow, daemonVars
  <2>3. listed # <<>> /\ listed[i] \in ProfileNames
    BY <1>0, <2>1
  <2>4. ListTyped' /\ Highlighted'
    BY <1>0, <2>1, <2>2, <2>3 DEF ListTyped, Highlighted
  <2>5. DaemonTyped'
    BY <1>0, <2>2 DEF DaemonTyped
  <2>6. subscribed
    BY <2>3 DEF WindowInv
  <2> QED BY <2>2, <2>4, <2>5, <2>6 DEF WindowInv
<1>6. CASE AddProfile
  <2>1. PICK n \in ProfileNames :
          /\ fSelectedName' = n /\ toDaemon' = Append(toDaemon, [what |-> "save", name |-> n])
    BY <1>6 DEF AddProfile, Send
  <2>2. PICK m \in DaemonRequest : m.what = "save" /\ toDaemon' = Append(toDaemon, m)
    BY <2>1 DEF DaemonRequest
  <2>3. subscribed /\ UNCHANGED <<session, reports, saved, subscribed, toClient, listed, row>>
    BY <1>6 DEF AddProfile
  <2> QED BY <2>1, <2>2, <2>3, ChangeStep
<1>7. CASE DeleteSelectedProfile
  <2>1. /\ SelectedProfile # NoName /\ fSelectedName' = NoName
        /\ toDaemon' = Append(toDaemon, [what |-> "delete", name |-> SelectedProfile])
        /\ UNCHANGED <<session, reports, saved, subscribed, toClient, listed, row>>
    BY <1>7 DEF DeleteSelectedProfile, Send
  <2>2. PICK m \in DaemonRequest : m.what = "delete" /\ toDaemon' = Append(toDaemon, m)
    BY <2>1, SelectedIsListed DEF DaemonRequest
  <2>3. subscribed
    BY <2>1, SelectedIsListed
  <2> QED BY <2>1, <2>2, <2>3, ChangeStep
<1>8. CASE ListArrives
  <2> DEFINE h == Head(toClient)
  <2>0. /\ toClient # <<>> /\ h.what = "profiles" /\ listed' = h.names
        /\ RefreshProfileList(h.names)
        /\ UNCHANGED <<session, reports, saved, subscribed, toDaemon>>
    BY <1>8 DEF ListArrives
  <2>1. /\ h \in ClientMessage /\ Tail(toClient) \in Seq(ClientMessage)
        /\ Waiting(toClient, "profiles")
    BY <1>0, <2>0, Taken
  <2>2. h.names \in Seq(ProfileNames)
    BY <2>0, <2>1 DEF ClientMessage
  <2>3. ListTyped' /\ Highlighted'
    BY <2>0, <2>2, Refreshed
  <2>4. subscribed
    BY <2>1 DEF WindowInv
  <2>5. Follows(Tail(toClient), listed', saved)
    BY <1>0, <2>0, <2>4, FollowsTaken DEF WindowInv
  <2>6. PICK m \in ClientMessage :
          /\ m.what = "selected"
          /\ toClient' = Tail(toClient) \/ toClient' = Append(Tail(toClient), m)
    BY <1>8 DEF ListArrives, ClientMessage
  <2>7. toClient' \in Seq(ClientMessage) /\ Follows(toClient', listed', saved)
    <3> DEFINE q == Tail(toClient)
    <3>1. q \in Seq(ClientMessage) /\ Follows(q, listed', saved)
      BY <2>1, <2>5
    <3>2. toClient' = q \/ toClient' = Append(q, m)
      BY <2>6
    <3> HIDE DEF q
    <3>3. Append(q, m) \in Seq(ClientMessage) /\ Follows(Append(q, m), listed', saved)
      BY <2>6, <3>1, FollowsPosted
    <3> QED BY <3>1, <3>2, <3>3
  <2>8. DaemonTyped'
    BY <1>0, <2>0, <2>7 DEF DaemonTyped
  <2> QED BY <2>0, <2>3, <2>4, <2>7, <2>8 DEF WindowInv
<1>9. CASE SelectionArrives \/ StatusArrives
  <2>0. /\ toClient # <<>> /\ Head(toClient).what # "profiles" /\ toClient' = Tail(toClient)
        /\ UNCHANGED <<session, reports, saved, subscribed, toDaemon, listed, row>>
        /\ ReadSelection \/ UNCHANGED fSelectedName
    BY <1>9 DEF SelectionArrives, StatusArrives, listVars
  <2>1. /\ toClient' \in Seq(ClientMessage)
        /\ Waiting(toClient, "profiles") <=> Waiting(toClient', "profiles")
    BY <1>0, <2>0, Taken
  <2>2. Follows(toClient, listed, saved) => Follows(toClient', listed, saved)
    BY <1>0, <2>0, FollowsTaken
  <2>3. DaemonTyped'
    BY <1>0, <2>0, <2>1 DEF DaemonTyped
  <2>4. ListTyped' /\ (Highlighted => Highlighted')
    <3>1. CASE UNCHANGED fSelectedName
      BY <1>0, <2>0, <3>1 DEF ListTyped, Highlighted
    <3>2. CASE ReadSelection
      <4>1. CASE row \in DOMAIN listed
        <5>1. fSelectedName' = listed[row] /\ listed # <<>> /\ listed[row] \in ProfileNames
          BY <1>0, <3>2, <4>1 DEF ReadSelection
        <5> QED BY <1>0, <2>0, <4>1, <5>1 DEF ListTyped, Highlighted
      <4>2. CASE row \notin DOMAIN listed
        <5>1. fSelectedName' = NoName /\ listed = <<>>
          BY <1>0, <3>2, <4>2 DEF ReadSelection, ListTyped
        <5> QED BY <1>0, <2>0, <5>1 DEF ListTyped, Highlighted
      <4> QED BY <4>1, <4>2
    <3> QED BY <2>0, <3>1, <3>2
  <2>5. ~subscribed => fSelectedName' = NoName
    <3>1. CASE UNCHANGED fSelectedName
      BY <3>1 DEF WindowInv
    <3>2. ASSUME ReadSelection, ~subscribed PROVE fSelectedName' = NoName
      <4>1. listed = <<>>
        BY <3>2 DEF WindowInv
      <4>2. DOMAIN listed = {}
        BY <4>1
      <4> QED BY <3>2, <4>2 DEF ReadSelection
    <3> QED BY <2>0, <3>1, <3>2
  <2> QED BY <2>0, <2>1, <2>2, <2>3, <2>4, <2>5 DEF WindowInv, ListComing
<1>10. CASE DaemonNext /\ UNCHANGED windowVars
  BY <1>10, HandleStep, DaemonStep DEF DaemonNext
<1>11. CASE UNCHANGED guiVars
  <2>1. UNCHANGED <<session, reports, saved, subscribed, toClient, toDaemon, listVars>>
    BY <1>11 DEF guiVars, daemonVars, windowVars
  <2> QED BY <2>1, AskStep
<1> QED BY <1>1, <1>2, <1>3, <1>4, <1>5, <1>6, <1>7, <1>8, <1>9, <1>10, <1>11 DEF WindowNext

\* As long as the store can be written, a window that has handled everything
\* lists the store's profiles and has one of them selected, if there is one.
THEOREM WindowShowsStore ==
    ASSUME SaveOutcomes = {TRUE}
    PROVE  WindowSpec => []WindowFollowsStore
<1>1. WindowInit => WindowInv
  <2> SUFFICES ASSUME WindowInit PROVE WindowInv
    OBVIOUS
  <2>1. /\ <<>> \in Seq(ProfileNames) /\ <<>> \in Seq(DaemonRequest)
        /\ <<>> \in Seq(ClientMessage) /\ <<>> \in Seq([state : SessionStates, detail : Details])
        /\ \A n \in ProfileNames : <<n>> \in Seq(ProfileNames)
    OBVIOUS
  <2>2. DaemonTyped
    BY <2>1 DEF WindowInit, DaemonInit, DaemonTyped, SessionStates
  <2>3. ListTyped /\ Highlighted
    BY <2>1 DEF WindowInit, ListTyped, Highlighted
  <2>4. ~Waiting(toClient, "profiles") /\ ~subscribed
    BY NoneWaiting DEF WindowInit, DaemonInit
  <2> QED BY <2>2, <2>3, <2>4 DEF WindowInv, WindowInit
<1>2. WindowInv /\ [WindowNext]_guiVars => WindowInv'
  BY WindowStep
<1>3. WindowInv => WindowFollowsStore
  <2> SUFFICES ASSUME WindowInv, AllHandled PROVE WindowFollowsStore
    BY DEF WindowFollowsStore
  <2>1. subscribed /\ toDaemon = <<>> /\ toClient = <<>>
    BY DEF AllHandled
  <2>2. ~ListComing /\ ~Waiting(toClient, "profiles")
    BY <2>1, NoneWaiting DEF ListComing, Changing
  <2>3. Follows(toClient, listed, saved)
    BY <2>1 DEF WindowInv
  <2>4. listed = saved
    BY <2>2, <2>3 DEF Follows, Waiting
  <2>5. Highlighted
    BY <2>2 DEF WindowInv
  <2> QED BY <2>4, <2>5 DEF Highlighted, WindowFollowsStore
<1> QED BY <1>1, <1>2, <1>3, PTL DEF WindowSpec
-----------------------------------------------------------------------------
(***************************************************************************)
(* The tile cache.  CacheKept is not inductive: the bound on memory holds  *)
(* between requests because a request that put a tile there remembers to   *)
(* prune, and the books are exact because no file is listed twice.         *)
(***************************************************************************)
TilesSpec == TilesInit /\ [][TilesNext]_tileVars

\* No tile is there twice.
Once(s) == \A i, j \in 1 .. Len(s) : s[i] = s[j] => i = j

\* What RemoveAt leaves.
LEMMA OneRemoved ==
    ASSUME NEW T, NEW s \in Seq(T), Once(s), NEW i \in 1 .. Len(s)
    PROVE  LET r == RemoveAt(s, i) IN
           /\ r \in Seq(T) /\ Len(r) = Len(s) - 1 /\ Once(r)
           /\ \A j \in 1 .. Len(r) : r[j] # s[i]
<1> DEFINE a == SubSeq(s, 1, i - 1)
           b == SubSeq(s, i + 1, Len(s))
           r == RemoveAt(s, i)
<1>1. /\ a \in Seq(T) /\ Len(a) = i - 1 /\ \A j \in 1 .. i - 1 : a[j] = s[j]
  OBVIOUS
<1>2. /\ b \in Seq(T) /\ Len(b) = Len(s) - i /\ \A j \in 1 .. Len(s) - i : b[j] = s[i + j]
  OBVIOUS
<1>3. r = a \o b
  BY DEF RemoveAt
<1> HIDE DEF a, b, r
<1>4. r \in Seq(T) /\ Len(r) = Len(s) - 1
  <2>1. r \in Seq(T) /\ Len(r) = Len(a) + Len(b)
    <3>1. \A u, v \in Seq(T) : u \o v \in Seq(T) /\ Len(u \o v) = Len(u) + Len(v)
      OBVIOUS
    <3>2. a \in Seq(T) /\ b \in Seq(T)
      BY <1>1, <1>2
    <3> QED BY <1>3, <3>1, <3>2
  <2>2. (i - 1) + (Len(s) - i) = Len(s) - 1
    OBVIOUS
  <2> QED BY <1>1, <1>2, <2>1, <2>2
<1>5. \A j \in 1 .. Len(r) : r[j] = s[IF j < i THEN j ELSE j + 1]
  <2> SUFFICES ASSUME NEW j \in 1 .. Len(r) PROVE r[j] = s[IF j < i THEN j ELSE j + 1]
    OBVIOUS
  <2>1. CASE j < i
    <3>1. j \in 1 .. Len(a) /\ r[j] = a[j]
      BY <1>1, <1>2, <1>3, <2>1
    <3> QED BY <1>1, <2>1, <3>1
  <2>2. CASE ~(j < i)
    <3>1. /\ j - Len(a) \in 1 .. Len(s) - i /\ r[j] = b[j - Len(a)] /\ i + (j - Len(a)) = j + 1
      BY <1>1, <1>2, <1>3, <1>4, <2>2
    <3>2. b[j - Len(a)] = s[i + (j - Len(a))]
      BY <1>2, <3>1
    <3> QED BY <2>2, <3>1, <3>2
  <2> QED BY <2>1, <2>2
<1>6. \A j \in 1 .. Len(r) : (IF j < i THEN j ELSE j + 1) \in 1 .. Len(s) \ {i}
  BY <1>4
<1>7. \A j \in 1 .. Len(r) : r[j] # s[i]
  BY <1>5, <1>6 DEF Once
<1>8. Once(r)
  <2> SUFFICES ASSUME NEW j \in 1 .. Len(r), NEW k \in 1 .. Len(r), r[j] = r[k] PROVE j = k
    BY DEF Once
  <2>1. (IF j < i THEN j ELSE j + 1) = (IF k < i THEN k ELSE k + 1)
    BY <1>5, <1>6 DEF Once
  <2> QED BY <1>4, <2>1
<1> QED BY <1>4, <1>7, <1>8 DEF r

\* A tile taken out of a list that has no tile twice.
LEMMA TakenOut ==
    ASSUME NEW T, NEW s \in Seq(T), Once(s), NEW e
    PROVE  LET r == RemoveFirst(s, e) IN
           /\ r \in Seq(T) /\ Once(r) /\ e \notin ToSet(r)
           /\ Len(r) = IF e \in ToSet(s) THEN Len(s) - 1 ELSE Len(s)
<1> DEFINE r == RemoveFirst(s, e)
<1>0. \A q \in Seq(T) : e \in ToSet(q) <=> \E i \in 1 .. Len(q) : q[i] = e
  BY DEF ToSet
<1>1. CASE e \notin ToSet(s)
  <2>1. ~\E i \in 1 .. Len(s) : s[i] = e
    BY <1>0, <1>1
  <2>2. r = s
    BY <2>1 DEF RemoveFirst
  <2> QED BY <1>1, <2>2
<1>2. CASE e \in ToSet(s)
  <2>1. PICK i \in 1 .. Len(s) : s[i] = e
    BY <1>0, <1>2
  <2>2. {j \in 1 .. Len(s) : s[j] = e} = {i}
    BY <2>1 DEF Once
  <2>3. Min({i}) = i
    BY DEF Min
  <2>4. SelectInSeq(s, LAMBDA v : v = e) = i
    BY <2>2, <2>3 DEF SelectInSeq
  <2>5. r = RemoveAt(s, i)
    BY <2>1, <2>4 DEF RemoveFirst
  <2>6. /\ r \in Seq(T) /\ Len(r) = Len(s) - 1 /\ Once(r)
        /\ \A j \in 1 .. Len(r) : r[j] # e
    BY <2>1, <2>5, OneRemoved
  <2> HIDE DEF r
  <2>7. e \notin ToSet(r)
    BY <1>0, <2>6
  <2> QED BY <1>2, <2>6, <2>7 DEF r
<1> QED BY <1>1, <1>2

\* A tile added to a list that does not have it.
LEMMA AddedLast ==
    ASSUME NEW T, NEW s \in Seq(T), Once(s), NEW e \in T, e \notin ToSet(s)
    PROVE  Append(s, e) \in Seq(T) /\ Once(Append(s, e)) /\ Len(Append(s, e)) = Len(s) + 1
<1> DEFINE r == Append(s, e)
<1>1. /\ r \in Seq(T) /\ Len(r) = Len(s) + 1 /\ r[Len(s) + 1] = e /\ Len(s) \in Nat
      /\ \A i \in 1 .. Len(s) : r[i] = s[i]
  OBVIOUS
<1>2. \A i \in 1 .. Len(s) : s[i] # e
  BY DEF ToSet
<1> HIDE DEF r
<1>3. \A i \in 1 .. Len(r) : i \in 1 .. Len(s) \/ i = Len(s) + 1
  BY <1>1
<1>4. Once(r)
  BY <1>1, <1>2, <1>3 DEF Once
<1> QED BY <1>1, <1>4 DEF r

\* The end of a list that has no tile twice.
LEMMA LastOnes ==
    ASSUME NEW T, NEW s \in Seq(T), Once(s), NEW n \in 0 .. Len(s)
    PROVE  LET r == SubSeq(s, n + 1, Len(s)) IN
           r \in Seq(T) /\ Once(r) /\ Len(r) = Len(s) - n
<1> DEFINE r == SubSeq(s, n + 1, Len(s))
<1>1. r \in Seq(T) /\ Len(r) = Len(s) - n /\ \A i \in 1 .. Len(s) - n : r[i] = s[n + i]
  OBVIOUS
<1> HIDE DEF r
<1>2. \A i \in 1 .. Len(r) : n + i \in 1 .. Len(s)
  BY <1>1
<1>3. Once(r)
  <2> SUFFICES ASSUME NEW i \in 1 .. Len(r), NEW j \in 1 .. Len(r), r[i] = r[j] PROVE i = j
    BY DEF Once
  <2>1. n + i = n + j
    BY <1>1, <1>2 DEF Once
  <2> QED BY <1>1, <2>1
<1> QED BY <1>1, <1>3 DEF r

\* A list that has no tile twice is as long as it has tiles.
LEMMA OnceCounted ==
    ASSUME NEW T, NEW s \in Seq(T), Once(s)
    PROVE  Cardinality(ToSet(s)) = Len(s)
<1>1. Len(s) \in Nat /\ DOMAIN s = 1 .. Len(s)
  OBVIOUS
<1>2. IsFiniteSet(1 .. Len(s)) /\ Cardinality(1 .. Len(s)) = Len(s)
  BY <1>1, FS_Interval
<1>3. s \in Bijection(1 .. Len(s), ToSet(s))
  <2>1. s \in [1 .. Len(s) -> ToSet(s)]
    BY <1>1 DEF ToSet
  <2>2. IsInjective(s)
    BY <1>1 DEF IsInjective, Once
  <2>3. \A x \in ToSet(s) : \E i \in 1 .. Len(s) : s[i] = x
    BY <1>1 DEF ToSet
  <2> QED BY <2>1, <2>2, <2>3 DEF Bijection, Injection, Surjection
<1>4. ExistsBijection(1 .. Len(s), ToSet(s))
  BY <1>3 DEF ExistsBijection
<1> QED BY <1>2, <1>4, FS_Bijection

\* The files an older run left, in any order.
LEMMA ListOfSet ==
    ASSUME NEW S \in SUBSET AllTiles
    PROVE  SetToSeq(S) \in Seq(AllTiles) /\ Once(SetToSeq(S))
<1>1. IsFiniteSet(AllTiles)
  <2>1. LastTile \in Int /\ 1 \in Int
    BY TilesAssumption
  <2> QED BY <2>1, FS_Interval DEF AllTiles
<1>2. IsFiniteSet(S)
  BY <1>1, FS_Subset
<1>3. Cardinality(S) \in Nat /\ ExistsBijection(1 .. Cardinality(S), S)
  BY <1>2, FS_CardinalityType
<1>4. PICK f \in Bijection(1 .. Cardinality(S), S) : TRUE
  BY <1>3 DEF ExistsBijection
<1>5. f \in [1 .. Cardinality(S) -> S] /\ IsInjective(f)
  BY <1>4 DEF Bijection, Injection
<1> DEFINE q == SetToSeq(S)
<1>6. q \in [1 .. Cardinality(S) -> S] /\ IsInjective(q)
  BY <1>5 DEF SetToSeq
<1> HIDE DEF q
<1>7. q \in Seq(AllTiles) /\ Len(q) = Cardinality(S) /\ DOMAIN q = 1 .. Cardinality(S)
  BY <1>3, <1>6
<1>8. Once(q)
  BY <1>6, <1>7 DEF IsInjective, Once
<1> QED BY <1>7, <1>8 DEF q

Lists == /\ fTiles \in Seq(AllTiles) /\ Once(fTiles)
         /\ byAge \in Seq(AllTiles) /\ Once(byAge)

Redraws == redraw = NoRedraw \/ redraw \in [next : Nat, area : Areas]

Jobs == /\ job \in [next : Nat \ {0}, last : 0 .. LastTile, walked : Nat, any : BOOLEAN]
        /\ tileQueue \in Seq(Areas)

\* A request that has put nothing into memory has nothing to prune.
PrunesWhatItAdds == ~job.any => Len(fTiles) <= MaxMemoryTiles

TilesInv ==
    /\ Lists /\ Redraws /\ Jobs /\ fDiskCacheSize \in Int
    /\ PrunesWhatItAdds /\ DiskAccounted

\* The tile a request is at.
LEMMA WalkedTile == TilesInv /\ Walking => job.next \in AllTiles
  BY TilesAssumption DEF TilesInv, Jobs, Walking, AllTiles

\* The request goes on to the next tile.
LEMMA Advanced ==
    ASSUME TilesInv, NEW any \in BOOLEAN, Advance(any), UNCHANGED tileQueue
    PROVE  Jobs' /\ (job'.any <=> job.any \/ any)
<1>1. job.next + 1 \in Nat \ {0} /\ job.walked + 1 \in Nat
  BY DEF TilesInv, Jobs
<1>2. (job.any \/ any) \in BOOLEAN
  BY DEF TilesInv, Jobs
<1> QED BY <1>1, <1>2 DEF TilesInv, Jobs, Advance

\* The files, and the books, after a download.
LEMMA Downloaded ==
    ASSUME TilesInv, Walking, Download
    PROVE  /\ byAge' \in Seq(AllTiles) /\ Once(byAge') /\ fDiskCacheSize' \in Int
           /\ DiskAccounted'
<1> DEFINE t == job.next
           page == t \in OnDisk /\ disk[t] = "page"
           files == IF page THEN Without(t) ELSE byAge
           size == IF page THEN SizeLess(fDiskCacheSize, 1) ELSE fDiskCacheSize
           w == Without(t)
           a == Append(w, t)
<1>1. t \in AllTiles /\ byAge \in Seq(AllTiles) /\ Once(byAge) /\ fDiskCacheSize \in Int
      /\ Len(byAge) \in Nat
  BY WalkedTile DEF TilesInv, Lists
<1>2. /\ w \in Seq(AllTiles) /\ Once(w) /\ t \notin ToSet(w) /\ Len(w) \in Nat
      /\ Len(w) = IF t \in OnDisk THEN Len(byAge) - 1 ELSE Len(byAge)
  BY <1>1, TakenOut DEF Without, OnDisk
<1>3. a \in Seq(AllTiles) /\ Once(a) /\ Len(a) = Len(w) + 1
  BY <1>1, <1>2, AddedLast
<1>4. /\ \/ byAge' = w /\ fDiskCacheSize' = SizeLess(size + 1, 1)
            /\ drifted' = (drifted \/ t \in ToSet(files))
         \/ byAge' = a /\ fDiskCacheSize' = size + 1
            /\ drifted' = (drifted \/ t \in ToSet(files))
         \/ byAge' = files /\ fDiskCacheSize' = size /\ drifted' = drifted
         \/ byAge' = a /\ fDiskCacheSize' = size
            /\ drifted' = (drifted \/ t \notin ToSet(files))
  BY DEF Download
<1>5. drifted \/ fDiskCacheSize = Len(byAge)
  BY DEF TilesInv, DiskAccounted
<1>6. /\ files = w \/ files = byAge
      /\ page => files = w /\ t \in OnDisk
      /\ ~page => files = byAge /\ size = fDiskCacheSize
      /\ page => size = IF fDiskCacheSize > 1 THEN fDiskCacheSize - 1 ELSE 0
      /\ SizeLess(size + 1, 1) = IF size + 1 > 1 THEN (size + 1) - 1 ELSE 0
  BY DEF SizeLess
<1> HIDE DEF t, page, files, size, w, a
<1>7. files \in Seq(AllTiles) /\ Once(files) /\ size \in Int
  BY <1>1, <1>2, <1>6
<1>8. t \in ToSet(files) <=> ~page /\ t \in OnDisk
  BY <1>2, <1>6 DEF OnDisk
<1>9. drifted \/ size = Len(files)
  BY <1>1, <1>2, <1>5, <1>6
<1>10. /\ byAge' \in Seq(AllTiles) /\ Once(byAge') /\ fDiskCacheSize' \in Int
  BY <1>1, <1>2, <1>3, <1>4, <1>6, <1>7
<1>11. ASSUME ~drifted' PROVE fDiskCacheSize' = Len(byAge')
  <2>1. /\ ~drifted
        /\ \/ byAge' = w /\ fDiskCacheSize' = SizeLess(size + 1, 1) /\ t \notin ToSet(files)
           \/ byAge' = a /\ fDiskCacheSize' = size + 1 /\ t \notin ToSet(files)
           \/ byAge' = files /\ fDiskCacheSize' = size
           \/ byAge' = a /\ fDiskCacheSize' = size /\ t \in ToSet(files)
    <3>1. drifted' = drifted => ~drifted
      BY <1>11
    <3>2. /\ drifted' = (drifted \/ t \in ToSet(files)) => ~drifted /\ t \notin ToSet(files)
          /\ drifted' = (drifted \/ t \notin ToSet(files)) => ~drifted /\ t \in ToSet(files)
      BY <1>11
    <3> QED BY <1>4, <3>1, <3>2, Zenon
  <2>2. size = Len(files)
    BY <1>9, <2>1, Zenon
  <2>3. t \notin ToSet(files) => Len(files) = Len(w)
    BY <1>2, <1>6, <1>8
  <2>4. t \in ToSet(files) => Len(files) = Len(w) + 1
    BY <1>1, <1>2, <1>6, <1>8
  <2>5. size \in Nat => SizeLess(size + 1, 1) = size
    BY <1>6
  <2>6. Len(files) \in Nat
    BY <1>1, <1>2, <1>6
  <2>7. CASE byAge' = w /\ fDiskCacheSize' = SizeLess(size + 1, 1) /\ t \notin ToSet(files)
    BY <2>2, <2>3, <2>5, <2>6, <2>7
  <2>8. CASE byAge' = a /\ fDiskCacheSize' = size + 1 /\ t \notin ToSet(files)
    BY <1>3, <2>2, <2>3, <2>8
  <2>9. CASE byAge' = files /\ fDiskCacheSize' = size
    BY <2>2, <2>9
  <2>10. CASE byAge' = a /\ fDiskCacheSize' = size /\ t \in ToSet(files)
    BY <1>3, <2>2, <2>4, <2>10
  <2> QED BY <2>1, <2>7, <2>8, <2>9, <2>10
<1> QED BY <1>10, <1>11 DEF DiskAccounted

\* Every step of the two threads keeps it.
LEMMA TilesStep ==
    ASSUME TilesInv, [TilesNext]_tileVars
    PROVE  TilesInv'
<1>0. /\ fTiles \in Seq(AllTiles) /\ Once(fTiles) /\ Len(fTiles) \in Nat
      /\ byAge \in Seq(AllTiles) /\ Once(byAge) /\ Len(byAge) \in Nat
      /\ MaxMemoryTiles \in Nat /\ job.any \in BOOLEAN
  BY TilesAssumption DEF TilesInv, Lists, Jobs
<1>1. CASE DrawTiles
  <2>1. PICK area \in Areas : redraw' = [next |-> area[1], area |-> area]
    BY <1>1 DEF DrawTiles
  <2>2. area[1] \in Nat
    BY TilesAssumption DEF Areas, AllTiles
  <2>3. Redraws'
    BY <2>1, <2>2 DEF Redraws
  <2> QED BY <1>1, <2>3 DEF DrawTiles, TilesInv, Lists, Jobs, PrunesWhatItAdds, DiskAccounted
<1>2. CASE DrawTile
  <2> DEFINE t == redraw.next
             s == RemoveFirst(fTiles, t)
  <2>1. Redraws'
    <3>1. redraw \in [next : Nat, area : Areas] /\ redraw.next + 1 \in Nat
      BY <1>2 DEF DrawTile, Drawing, TilesInv, Redraws
    <3> QED BY <1>2, <3>1 DEF DrawTile, Redraws
  <2>2. /\ fTiles' \in Seq(AllTiles) /\ Once(fTiles') /\ Len(fTiles') = Len(fTiles)
    <3>1. CASE t \in ToSet(fTiles)
      <4>1. t \in AllTiles
        BY <1>0, <3>1 DEF ToSet
      <4>2. s \in Seq(AllTiles) /\ Once(s) /\ t \notin ToSet(s) /\ Len(s) = Len(fTiles) - 1
        BY <1>0, <3>1, TakenOut
      <4>3. fTiles' = Append(s, t)
        BY <1>2, <3>1 DEF DrawTile
      <4> HIDE DEF s, t
      <4>4. fTiles' \in Seq(AllTiles) /\ Once(fTiles') /\ Len(fTiles') = Len(s) + 1
        BY <4>1, <4>2, <4>3, AddedLast
      <4> QED BY <1>0, <4>2, <4>4
    <3>2. CASE t \notin ToSet(fTiles)
      BY <1>0, <1>2, <3>2 DEF DrawTile
    <3> QED BY <3>1, <3>2
  <2>3. UNCHANGED <<tileQueue, job, byAge, fDiskCacheSize, drifted>>
    BY <1>2 DEF DrawTile
  <2> QED BY <2>1, <2>2, <2>3 DEF TilesInv, Lists, Jobs, PrunesWhatItAdds, DiskAccounted
<1>3. CASE RequestTiles
  <2>1. redraw.area \in Areas /\ tileQueue \in Seq(Areas)
    BY <1>3 DEF RequestTiles, TilesInv, Redraws, Jobs
  <2>2. tileQueue' \in Seq(Areas)
    BY <1>3, <2>1 DEF RequestTiles
  <2>3. Redraws'
    BY <1>3 DEF RequestTiles, Redraws
  <2> QED BY <1>3, <2>2, <2>3
          DEF RequestTiles, TilesInv, Lists, Jobs, PrunesWhatItAdds, DiskAccounted
<1>4. CASE ToggleTiles
  BY <1>4 DEF ToggleTiles, TilesInv, Lists, Redraws, Jobs, PrunesWhatItAdds, DiskAccounted
<1>5. CASE TakeRequest
  <2>1. Head(tileQueue) \in Areas /\ Tail(tileQueue) \in Seq(Areas)
    BY <1>5 DEF TakeRequest, TilesInv, Jobs
  <2>2. Head(tileQueue)[1] \in Nat \ {0} /\ Head(tileQueue)[2] \in 0 .. LastTile
    BY <2>1, TilesAssumption DEF Areas, AllTiles
  <2>3. job' \in [next : Nat \ {0}, last : 0 .. LastTile, walked : Nat, any : BOOLEAN]
        /\ ~job'.any /\ ~job.any
    <3>1. job = NoJob /\ ~job.any
      BY <1>5 DEF TakeRequest, NoJob
    <3>2. NoJob \in [next : Nat \ {0}, last : 0 .. LastTile, walked : Nat, any : BOOLEAN]
      BY TilesAssumption DEF NoJob
    <3>3. CASE job' = NoJob
      BY <3>1, <3>2, <3>3
    <3>4. CASE job' = [NoJob EXCEPT !.next = Head(tileQueue)[1], !.last = Head(tileQueue)[2]]
      BY <2>2, <3>1, <3>4 DEF NoJob
    <3> QED BY <1>5, <3>3, <3>4 DEF TakeRequest
  <2>4. Jobs'
    BY <1>5, <2>1, <2>3 DEF TakeRequest, Jobs
  <2> QED BY <1>5, <2>3, <2>4
          DEF TakeRequest, TilesInv, Lists, Redraws, PrunesWhatItAdds, DiskAccounted
<1>6. CASE InMemory
  <2>1. Jobs' /\ (job'.any <=> job.any)
    BY <1>6, Advanced DEF InMemory
  <2> QED BY <1>6, <2>1
          DEF InMemory, TilesInv, Lists, Redraws, PrunesWhatItAdds, DiskAccounted
<1>7. CASE FromDisk
  <2>1. Jobs' /\ job'.any
    BY <1>7, Advanced DEF FromDisk
  <2>2. job.next \in AllTiles /\ job.next \notin ToSet(fTiles)
    BY <1>7, WalkedTile DEF FromDisk
  <2>3. fTiles' \in Seq(AllTiles) /\ Once(fTiles')
    BY <1>0, <1>7, <2>2, AddedLast DEF FromDisk
  <2> QED BY <1>7, <2>1, <2>3
          DEF FromDisk, TilesInv, Lists, Redraws, PrunesWhatItAdds, DiskAccounted
<1>8. CASE Download
  <2>0. Walking /\ UNCHANGED <<redraw, tileQueue>> /\ job.next \notin ToSet(fTiles)
    BY <1>8 DEF Download
  <2>1. /\ byAge' \in Seq(AllTiles) /\ Once(byAge') /\ fDiskCacheSize' \in Int
        /\ DiskAccounted'
    BY <1>8, <2>0, Downloaded
  <2>2. \/ fTiles' = fTiles /\ Advance(FALSE)
        \/ fTiles' = Append(fTiles, job.next) /\ Advance(TRUE)
    BY <1>8 DEF Download
  <2>3. CASE fTiles' = fTiles /\ Advance(FALSE)
    <3>1. Jobs' /\ (job'.any <=> job.any)
      BY <2>0, <2>3, Advanced
    <3> QED BY <2>0, <2>1, <2>3, <3>1 DEF TilesInv, Lists, Redraws, PrunesWhatItAdds
  <2>4. CASE fTiles' = Append(fTiles, job.next) /\ Advance(TRUE)
    <3>1. Jobs' /\ job'.any
      BY <2>0, <2>4, Advanced
    <3>2. fTiles' \in Seq(AllTiles) /\ Once(fTiles')
      BY <1>0, <2>0, <2>4, WalkedTile, AddedLast
    <3> QED BY <2>0, <2>1, <3>1, <3>2 DEF TilesInv, Lists, Redraws, PrunesWhatItAdds
  <2> QED BY <2>2, <2>3, <2>4
<1>9. CASE FinishRequest
  <2>0. /\ job' = NoJob /\ UNCHANGED <<redraw, tileQueue, drifted>>
    BY <1>9 DEF FinishRequest
  <2>1. Jobs' /\ Redraws'
    <3>1. NoJob \in [next : Nat \ {0}, last : 0 .. LastTile, walked : Nat, any : BOOLEAN]
      BY TilesAssumption DEF NoJob
    <3> QED BY <2>0, <3>1 DEF TilesInv, Jobs, Redraws
  <2>2. CASE ~job.any
    BY <1>9, <2>0, <2>1, <2>2
       DEF FinishRequest, TilesInv, Lists, PrunesWhatItAdds, DiskAccounted
  <2>3. CASE job.any
    <3>1. PruneMemoryCache /\ PruneDiskCache
      BY <1>9, <2>3 DEF FinishRequest
    <3>2. fTiles' \in Seq(AllTiles) /\ Once(fTiles') /\ Len(fTiles') <= MaxMemoryTiles
      <4>1. CASE Len(fTiles) > MaxMemoryTiles
        <5>0. Len(fTiles) - MaxMemoryTiles \in 0 .. Len(fTiles)
          BY <1>0, <4>1
        <5>1. PICK n \in 0 .. Len(fTiles) : n = Len(fTiles) - MaxMemoryTiles
          BY <5>0
        <5>2. fTiles' = SubSeq(fTiles, n + 1, Len(fTiles))
          BY <3>1, <4>1, <5>1 DEF PruneMemoryCache
        <5>3. fTiles' \in Seq(AllTiles) /\ Once(fTiles') /\ Len(fTiles') = Len(fTiles) - n
          BY <1>0, <5>2, LastOnes
        <5> QED BY <1>0, <5>1, <5>3
      <4>2. CASE ~(Len(fTiles) > MaxMemoryTiles)
        BY <1>0, <3>1, <4>2 DEF PruneMemoryCache
      <4> QED BY <4>1, <4>2
    <3>3. PICK n \in 0 .. Len(byAge) :
            byAge' = SubSeq(byAge, n + 1, Len(byAge)) /\ fDiskCacheSize' = fDiskCacheSize - n
      <4> DEFINE excess == IF fDiskCacheSize > MaxDiskCache
                           THEN fDiskCacheSize - ((MaxDiskCache * 9) \div 10) ELSE 0
                 n == IF excess < Len(byAge) THEN excess ELSE Len(byAge)
      <4>1. byAge' = SubSeq(byAge, n + 1, Len(byAge)) /\ fDiskCacheSize' = fDiskCacheSize - n
        BY <3>1 DEF PruneDiskCache
      <4>2. excess \in Nat
        <5>1. MaxDiskCache \in Nat /\ fDiskCacheSize \in Int
          BY TilesAssumption DEF TilesInv
        <5> QED BY <5>1
      <4> HIDE DEF excess
      <4>3. n \in 0 .. Len(byAge)
        BY <1>0, <4>2
      <4> QED BY <4>1, <4>3
    <3>4. byAge' \in Seq(AllTiles) /\ Once(byAge') /\ Len(byAge') = Len(byAge) - n
      BY <1>0, <3>3, LastOnes
    <3>5. fDiskCacheSize' \in Int /\ DiskAccounted'
      BY <1>0, <2>0, <3>3, <3>4 DEF TilesInv, DiskAccounted
    <3> QED BY <2>0, <2>1, <3>2, <3>4, <3>5 DEF TilesInv, Lists, PrunesWhatItAdds
  <2> QED BY <2>2, <2>3
<1>10. CASE UNCHANGED tileVars
  BY <1>10 DEF tileVars, TilesInv, Lists, Redraws, Jobs, PrunesWhatItAdds, DiskAccounted
<1> QED BY <1>1, <1>2, <1>3, <1>4, <1>5, <1>6, <1>7, <1>8, <1>9, <1>10 DEF TilesNext

\* Between two requests memory is within its limit and holds no tile twice, and
\* the books agree with the disk unless a download broke off or overwrote a file,
\* for any number of tiles and any limits.
THEOREM CacheStaysKept == TilesSpec => []CacheKept
<1>1. TilesInit => TilesInv
  <2> SUFFICES ASSUME TilesInit PROVE TilesInv
    OBVIOUS
  <2>1. byAge \in Seq(AllTiles) /\ Once(byAge) /\ fDiskCacheSize = Len(byAge)
    BY ListOfSet DEF TilesInit
  <2>2. <<>> \in Seq(AllTiles) /\ <<>> \in Seq(Areas) /\ Len(<<>>) = 0 /\ Once(<<>>)
    BY DEF Once
  <2>3. Jobs /\ ~job.any
    BY <2>2, TilesAssumption DEF TilesInit, Jobs, NoJob
  <2>4. Lists /\ Redraws
    BY <2>1, <2>2 DEF TilesInit, Lists, Redraws
  <2>5. PrunesWhatItAdds
    BY <2>2, TilesAssumption DEF TilesInit, PrunesWhatItAdds
  <2>6. fDiskCacheSize \in Int /\ DiskAccounted
    BY <2>1 DEF DiskAccounted
  <2> QED BY <2>3, <2>4, <2>5, <2>6 DEF TilesInv
<1>2. TilesInv /\ [TilesNext]_tileVars => TilesInv'
  BY TilesStep
<1>3. TilesInv => CacheKept
  <2> SUFFICES ASSUME TilesInv PROVE CacheKept
    OBVIOUS
  <2>1. Cardinality(ToSet(fTiles)) = Len(fTiles)
    BY OnceCounted DEF TilesInv, Lists
  <2>2. job = NoJob => ~job.any
    BY DEF NoJob
  <2> QED BY <2>1, <2>2 DEF TilesInv, PrunesWhatItAdds, CacheKept, MemoryBounded
<1> QED BY <1>1, <1>2, <1>3, PTL DEF TilesSpec

-----------------------------------------------------------------------------
(***************************************************************************)
(* VPNGateCatalogue.                                                       *)
(***************************************************************************)
\* The waiting list holds exactly the requests without an answer.
PendingIsOwed == fCataloguePending = owed

CatalogueInv == CatalogueTypeOK /\ PendingIsOwed

\* Every step keeps the waiting list equal to what is owed.
LEMMA CatalogueStep ==
    ASSUME CatalogueInv, [CatalogueNext]_catalogueVars
    PROVE  CatalogueInv'
<1> USE CatalogueAssumption DEF CatalogueInv, PendingIsOwed, CatalogueTypeOK
<1>1. ASSUME NEW c \in Clients, RequestVPNGate(c) PROVE CatalogueInv'
  <2>1. fCatalogueFetchInFlight' \in BOOLEAN /\ fetch' \in {"none", "running", "list", "error"}
    BY <1>1 DEF RequestVPNGate, KickIfIdle, KickVPNGateFetch, BackgroundFetch
  <2>2. owed' \in [Clients -> 0..MaxWaiting] /\ fCataloguePending' = owed'
    BY <1>1 DEF RequestVPNGate
  <2>3. UNCHANGED <<fCatalogueCache, warm>>
    BY <1>1 DEF RequestVPNGate
  <2> QED BY <2>1, <2>2, <2>3
<1>2. CASE FetchEnds
  BY <1>2 DEF FetchEnds
<1>3. CASE VPNGateFetched
  <2>1. /\ fCatalogueCache' \in {"empty", "list", "error"} /\ warm' \in BOOLEAN
        /\ fCatalogueFetchInFlight' \in BOOLEAN /\ fetch' \in {"none", "running", "list", "error"}
    BY <1>3 DEF VPNGateFetched, Deliver
  <2>2. owed' = [c \in Clients |-> 0] /\ fCataloguePending' = [c \in Clients |-> 0]
    BY <1>3 DEF VPNGateFetched, Deliver, ForgetWaiting
  <2>3. [c \in Clients |-> 0] \in [Clients -> 0..MaxWaiting]
    OBVIOUS
  <2> QED BY <2>1, <2>2, <2>3
<1>4. CASE CacheExpires
  BY <1>4 DEF CacheExpires
<1>5. CASE UNCHANGED catalogueVars
  BY <1>5 DEF catalogueVars
<1> QED BY <1>1, <1>2, <1>3, <1>4, <1>5 DEF CatalogueNext

\* The types, and the equality of the waiting list and the debt, are invariant.
THEOREM CatalogueInvariant == CatalogueSpec => []CatalogueInv
<1>1. CatalogueInit => CatalogueInv
  <2>1. [c \in Clients |-> 0] \in [Clients -> 0..MaxWaiting]
    BY CatalogueAssumption
  <2> QED BY <2>1, Zenon DEF CatalogueInit, CatalogueInv, CatalogueTypeOK, PendingIsOwed
<1>2. CatalogueInv /\ [CatalogueNext]_catalogueVars => CatalogueInv'
  BY CatalogueStep
<1> QED BY <1>1, <1>2, PTL DEF CatalogueSpec

\* No client is answered more often than it asked, or waits beyond the bound.
THEOREM CatalogueTypeCorrect == CatalogueSpec => []CatalogueTypeOK
<1>1. CatalogueInv => CatalogueTypeOK
  BY DEF CatalogueInv
<1> QED BY <1>1, CatalogueInvariant, PTL

\* While threads can be spawned, a request without an answer has a fetch on its
\* way, and there is never more than one.
THEOREM WaitingIsFetching ==
    SpawnOutcomes \subseteq {TRUE} => (CatalogueSpec => []WaitingMeansFetching)
<1> SUFFICES ASSUME SpawnOutcomes \subseteq {TRUE} PROVE CatalogueSpec => []WaitingMeansFetching
  OBVIOUS
<1>1. CatalogueInit => WaitingMeansFetching
  BY DEF CatalogueInit, WaitingMeansFetching
<1>2. CatalogueInv /\ WaitingMeansFetching /\ [CatalogueNext]_catalogueVars => WaitingMeansFetching'
  <2> SUFFICES ASSUME CatalogueInv, WaitingMeansFetching, [CatalogueNext]_catalogueVars PROVE WaitingMeansFetching'
    OBVIOUS
  <2> USE DEF WaitingMeansFetching
  <2>1. ASSUME NEW c \in Clients, RequestVPNGate(c) PROVE WaitingMeansFetching'
    <3>1. CASE UNCHANGED <<fCatalogueFetchInFlight, fetch, owed>>
      BY <3>1
    <3>2. CASE fCatalogueFetchInFlight /\ UNCHANGED <<fCatalogueFetchInFlight, fetch>>
      BY <3>2
    <3>3. CASE fCatalogueFetchInFlight' = TRUE /\ fetch' = "running"
      BY <3>3
    <3> QED BY <2>1, <3>1, <3>2, <3>3 DEF RequestVPNGate, KickIfIdle, KickVPNGateFetch, BackgroundFetch
  <2>2. CASE FetchEnds
    BY <2>2 DEF FetchEnds
  <2>3. CASE VPNGateFetched
    <3>1. \A c \in Clients : owed'[c] = 0
      BY <2>3 DEF VPNGateFetched, Deliver, CatalogueInv, CatalogueTypeOK, PendingIsOwed
    <3>2. fetch' = "none" /\ fCatalogueFetchInFlight' = FALSE
      BY <2>3 DEF VPNGateFetched, Deliver
    <3> QED BY <3>1, <3>2
  <2>4. CASE CacheExpires
    BY <2>4 DEF CacheExpires
  <2>5. CASE UNCHANGED catalogueVars
    BY <2>5 DEF catalogueVars
  <2> QED BY <2>1, <2>2, <2>3, <2>4, <2>5 DEF CatalogueNext
<1> QED BY <1>1, <1>2, CatalogueInvariant, PTL DEF CatalogueSpec

=============================================================================
